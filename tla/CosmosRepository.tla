--------------------------- MODULE CosmosRepository ---------------------------
(***************************************************************************)
(* The life of repositories in the CosmosDB provider.  A repository is a    *)
(* partition: a marker vertex, a vocabulary vertex, entities, relationships *)
(* and change records; an index vertex in a partition of its own lists the  *)
(* repositories.  No transaction spans two requests, so everything rests on *)
(* the order of the writes: a create writes the marker last, a delete drops *)
(* it first and then drains the partition in batches, and every other write *)
(* looks for the marker.                                                    *)
(*                                                                          *)
(* A step is a request, except that a request which adds something, or      *)
(* drains behind a guard, looks first and writes later: other requests may  *)
(* run in between.  A request may fail, and one that fails with a transient *)
(* error is sent again, though it may have had its effect.                  *)
(***************************************************************************)
EXTENDS RepositoryLife

\* Edges live with their source vertex: a partition without vertices is empty.
Occupied(r) == marker[r] # None \/ vocabulary[r] # {} \/ Vertices(r) # {}

-----------------------------------------------------------------------------
\* createRepository is refused unless the partition is empty.
ProbeNever(c) ==
  /\ Op(c) = "create" /\ call[c].pc = "idle"
  /\ Becomes(c, Goes(c, "vocabulary"))
  /\ UNCHANGED <<store, faults, late, swept>>
ProbeForCreate(c) ==
  /\ Op(c) = "create" /\ call[c].pc = "idle"
  /\ Becomes(c, Goes(c, IF Occupied(Repo(c)) THEN "which" ELSE "vocabulary"))
  /\ UNCHANGED <<store, faults, late, swept>>

WhyOccupied(c) ==
  /\ call[c].pc = "which"
  /\ Becomes(c, Replies(c, IF marker[Repo(c)] # None THEN "duplicate" ELSE "unfinished"))
  /\ UNCHANGED <<store, faults, late, swept>>

\* The store refuses a second vertex with the id.
WriteVocabulary(c) ==
  LET r == Repo(c) IN
  /\ call[c].pc = "vocabulary"
  /\ \/ /\ vocabulary[r] = {}
        /\ vocabulary' = [vocabulary EXCEPT ![r] = {[of |-> c, by |-> c, version |-> 0]}]
        /\ Submitted(c, Goes(c, "listing"), "vocabulary")
     \/ /\ vocabulary[r] # {}
        /\ Becomes(c, Replies(c, "duplicate"))
        /\ UNCHANGED <<vocabulary, faults>>
  /\ UNCHANGED <<marker, data, index, late, swept>>

ReadIndexForCreate(c) ==
  /\ Op(c) = "create" /\ call[c].pc = "listing"
  /\ Becomes(c, [Goes(c, "marker") EXCEPT !.seen = index])
  /\ UNCHANGED <<store, faults, late, swept>>

\* The marker and the index entry are written in one request; its second write may
\* fail after the first.
WriteMarker(c) ==
  LET r == Repo(c) IN
  /\ Op(c) = "create" /\ call[c].pc = "marker"
  /\ \/ /\ marker[r] = None
        /\ marker' = [marker EXCEPT ![r] = c]
        /\ \/ /\ index' = call[c].seen \cup {r}
              /\ Submitted(c, Replies(c, "created"), "marker")
           \/ /\ Fault /\ Becomes(c, Replies(c, "failed"))
              /\ UNCHANGED index
     \/ /\ marker[r] # None
        /\ Becomes(c, Replies(c, "duplicate"))
        /\ UNCHANGED <<marker, index, faults>>
  /\ UNCHANGED <<vocabulary, data, late, swept>>

-----------------------------------------------------------------------------
\* The marker goes first.
DropMarker(c) ==
  LET r == Repo(c) IN
  /\ call[c].pc = "drop"
  /\ marker' = [marker EXCEPT ![r] = None]
  /\ Submitted(c, [Goes(c, "probe") EXCEPT !.gate = marker[r]], "drop")
  /\ UNCHANGED <<vocabulary, data, index, late, swept>>

ProbeForDelete(c) ==
  /\ call[c].pc = "probe"
  /\ Becomes(c, Goes(c, IF Occupied(Repo(c)) THEN "edges"
                        ELSE IF call[c].gate = None THEN "anything" ELSE "unlist"))
  /\ UNCHANGED <<store, faults, late, swept>>

\* No marker, no data: the index tells whether there ever was a repository.
NothingLeft(c) ==
  /\ call[c].pc = "anything"
  /\ Becomes(c, IF Repo(c) \in index THEN [Goes(c, "entry") EXCEPT !.seen = index]
                ELSE Replies(c, "not_found"))
  /\ UNCHANGED <<store, faults, late, swept>>

\* Batches until one finds nothing; each tells the caller.
DrainEdges(c) ==
  LET r == Repo(c) IN
  /\ Op(c) \in {"delete", "clear"} /\ call[c].pc = "edges"
  /\ \/ /\ Edges(r) # {}
        /\ \E batch \in Batches(Edges(r)) : ChangesData(r, Without(r, batch))
        /\ Submitted(c, [call[c] EXCEPT !.events = Progressed(call[c])], "edges")
     \/ /\ Edges(r) = {}
        /\ Becomes(c, Goes(c, "entities"))
        /\ UNCHANGED <<data, faults>>
  /\ UNCHANGED <<marker, vocabulary, index, late, swept>>

SizeEntities(c) ==
  /\ Op(c) = "delete" /\ call[c].pc = "entities"
  /\ Becomes(c, Goes(c, IF Entities(Repo(c)) = {} THEN "vertices" ELSE "drain"))
  /\ UNCHANGED <<store, faults, late, swept>>

\* A batch of vertices stands down when there is a marker: a create has found the
\* partition empty, and what is in it now is a new repository's.  The check comes first
\* in the request and the writes follow; a marker written in between is not seen.
NeverRecreated(r) == FALSE
Recreated(r) == marker[r] # None

CountsAgain(cl) == [cl EXCEPT !.pc = "remaining"]
StandsDown(cl) == Completed(cl)

Behind(pc) == CASE pc = "drain" -> "entity batch" [] pc = "vertices" -> "vertex batch" [] pc = "entry" -> "cleanup"

UnlessRecreated(c) ==
  /\ call[c].pc \in {"drain", "vertices", "entry"}
  /\ Becomes(c, IF Recreated(Repo(c)) THEN StandsDown(call[c])
                ELSE [Goes(c, Behind(call[c].pc)) EXCEPT !.gate = marker[Repo(c)]])
  /\ UNCHANGED <<store, faults, late, swept>>

\* The marker is not the one that the batch has looked for.
Overtaken(c) == marker[Repo(c)] # call[c].gate

\* A batch of vertices goes with the edges that end there.
Catches(c, cl, batch) ==
  LET r == Repo(c) IN
  [cl EXCEPT !.caught = IF Overtaken(c) THEN @ \cup (data[r] \ Without(r, batch)) ELSE @]

DrainEntities(c) ==
  LET r == Repo(c) IN
  /\ call[c].pc = "entity batch"
  /\ \E batch \in Batches(Entities(r)) :
       /\ ChangesData(r, Without(r, batch))
       /\ Submitted(c, Catches(c, [Goes(c, "entities") EXCEPT !.events = Progressed(call[c])], batch), "drain")
  /\ UNCHANGED <<marker, vocabulary, index, late, swept>>

\* The rest, in any order: the vocabulary, the change records and what has landed.
DrainVertices(c) ==
  LET r == Repo(c) IN
  /\ call[c].pc = "vertex batch"
  /\ \E batch \in Batches(vocabulary[r] \cup Vertices(r)) :
       /\ vocabulary' = [vocabulary EXCEPT ![r] = @ \ batch]
       /\ ChangesData(r, Without(r, batch \cap data[r]))
       /\ swept' = swept \cup {d \in Clients : /\ Running(d) \/ Overtaken(c)
                                               /\ \E v \in batch \cap vocabulary[r] : v.of = d}
       /\ Submitted(c, Catches(c, Goes(c, "remaining"), batch \cap data[r]), "vertices")
  /\ UNCHANGED <<marker, index, late>>

\* A marker written meanwhile is counted as well; the next batch stands down.
CountRemaining(c) ==
  /\ call[c].pc = "remaining"
  /\ Becomes(c, Goes(c, IF Occupied(Repo(c)) THEN "vertices" ELSE "unlist"))
  /\ UNCHANGED <<store, faults, late, swept>>

ReadIndexForDelete(c) ==
  /\ call[c].pc = "unlist"
  /\ Becomes(c, IF Repo(c) \in index THEN [Goes(c, "entry") EXCEPT !.seen = index]
                ELSE Completed(call[c]))
  /\ UNCHANGED <<store, faults, late, swept>>

RemoveFromIndex(c) ==
  LET r == Repo(c) IN
  /\ call[c].pc = "cleanup"
  /\ index' = call[c].seen \ {r}
  /\ Submitted(c, Completed(call[c]), "entry")
  /\ UNCHANGED <<marker, vocabulary, data, late, swept>>

-----------------------------------------------------------------------------
\* What the request that adds an entity or a relationship finds: the marker, then the
\* id, then the endpoints.
GateOpen(c) == TRUE
Gate(c) == marker[Repo(c)] # None

CheckAndAdd(c) ==
  LET r == Repo(c) IN
  /\ Op(c) \in {"entity", "edge"} /\ call[c].pc \in {"idle", "again"}
  /\ Becomes(c,
       IF ~Gate(c) THEN Missing(c)
       ELSE IF request[c].id \in IdsOf(data[r]) THEN Replies(c, "duplicate")
       ELSE IF ~(Endpoints(c) \subseteq IdsOf(Entities(r))) THEN Replies(c, "not_found")
       ELSE [Goes(c, "land") EXCEPT !.gate = marker[r]])
  /\ UNCHANGED <<store, faults, late, swept>>

\* By now the marker may have gone, or the id may be taken.
Land(c) ==
  LET r == Repo(c) IN
  /\ call[c].pc = "land"
  /\ \/ /\ request[c].id \notin IdsOf(data[r]) /\ Endpoints(c) \subseteq IdsOf(Entities(r))
        /\ ChangesData(r, data[r] \cup {NewItem(c, call[c].gate)})
        /\ late' = IF marker[r] = call[c].gate THEN late ELSE late \cup {NewItem(c, call[c].gate)}
        /\ Submitted(c, Created(c, call[c].gate), "again")
     \/ /\ request[c].id \in IdsOf(data[r]) \/ ~(Endpoints(c) \subseteq IdsOf(Entities(r)))
        /\ Becomes(c, Replies(c, IF request[c].id \in IdsOf(data[r]) THEN "duplicate" ELSE "failed"))
        /\ UNCHANGED <<data, late, faults>>
  /\ UNCHANGED <<marker, vocabulary, index, swept>>

\* deleteEntities: an id per chunk, the marker checked in the request that deletes.  (It
\* takes what it was asked to take, whichever repository that is by now: a step.)
BeginRemove(c) ==
  /\ Op(c) = "remove" /\ call[c].pc = "idle"
  /\ Becomes(c, [Goes(c, "chunk") EXCEPT !.todo = request[c].ids])
  /\ UNCHANGED <<store, faults, late, swept>>

RemoveChunk(c) ==
  LET r == Repo(c) IN
  /\ call[c].pc = "chunk"
  /\ \/ /\ ~Gate(c) /\ Becomes(c, Missing(c))
        /\ UNCHANGED <<data, faults>>
     \/ /\ Gate(c)
        /\ \E i \in call[c].todo :
             LET gone == {d \in Entities(r) : d.id = i}
                 dropped == [call[c] EXCEPT !.todo = @ \ {i}, !.told = @ \cup IdsOf(gone), !.took = @ \cup IdsOf(gone)]
             IN
             /\ ChangesData(r, Without(r, gone))
             /\ Submitted(c, IF call[c].todo = {i} THEN [dropped EXCEPT !.pc = "done", !.reply = "removed"]
                             ELSE dropped, "chunk")
  /\ UNCHANGED <<marker, vocabulary, index, late, swept>>

\* deleteEntitiesByType: read the ids of a batch, then delete those still there.
ReadBatch(c) ==
  LET r == Repo(c) IN
  /\ Op(c) = "purge" /\ call[c].pc \in {"idle", "more"}
  /\ \/ /\ Entities(r) # {}
        /\ \E batch \in Batches(Entities(r)) : Becomes(c, [Goes(c, "batch") EXCEPT !.seen = IdsOf(batch)])
     \/ /\ Entities(r) = {}
        /\ Becomes(c, IF call[c].pc = "idle" THEN Goes(c, "assert") ELSE Replies(c, "removed"))
  /\ UNCHANGED <<store, faults, late, swept>>

ENTITY_TYPE_DELETE_MAX_EMPTY_BATCHES == 2

DropBatch(c) ==
  LET r == Repo(c)
      gone == {d \in Entities(r) : d.id \in call[c].seen}
      empties == IF gone = {} THEN call[c].empties + 1 ELSE 0
  IN
  /\ call[c].pc = "batch"
  /\ \/ /\ ~Gate(c) /\ Becomes(c, Missing(c))
        /\ UNCHANGED <<data, faults>>
     \/ /\ Gate(c)
        /\ ChangesData(r, Without(r, gone))
        /\ Submitted(c, IF empties = ENTITY_TYPE_DELETE_MAX_EMPTY_BATCHES THEN Replies(c, "failed")
                        ELSE [Goes(c, "more") EXCEPT !.empties = empties], "batch")
  /\ UNCHANGED <<marker, vocabulary, index, late, swept>>

\* assertRepositoryMarker: of a purge that finds nothing, of deleteAllContents, and
\* before each batch of deleteRelationshipsByType.
AssertMarker(c) ==
  /\ \/ call[c].pc = "assert"
     \/ Op(c) \in {"clear", "cut"} /\ call[c].pc = "idle"
  /\ Becomes(c, IF ~Gate(c) THEN Missing(c)
                ELSE CASE Op(c) = "purge" -> Replies(c, "removed")
                       [] Op(c) = "clear" -> Goes(c, "edges")
                       [] Op(c) = "cut"   -> Goes(c, "batch of edges"))
  /\ UNCHANGED <<store, faults, late, swept>>

DropEdgeBatch(c) ==
  LET r == Repo(c) IN
  /\ call[c].pc = "batch of edges"
  /\ \/ /\ Edges(r) # {}
        /\ \E batch \in Batches(Edges(r)) : ChangesData(r, Without(r, batch))
        /\ Submitted(c, Goes(c, "assert"), "batch of edges")
     \/ /\ Edges(r) = {} /\ Becomes(c, Replies(c, "removed"))
        /\ UNCHANGED <<data, faults>>
  /\ UNCHANGED <<marker, vocabulary, index, late, swept>>

\* deleteAllContents drains like a delete, without standing down.
ClearEntities(c) ==
  LET r == Repo(c) IN
  /\ Op(c) = "clear" /\ call[c].pc = "entities"
  /\ \/ /\ Entities(r) # {}
        /\ \E batch \in Batches(Entities(r)) : ChangesData(r, Without(r, batch))
        /\ Submitted(c, call[c], "entities")
     \/ /\ Entities(r) = {} /\ Becomes(c, Replies(c, "removed"))
        /\ UNCHANGED <<data, faults>>
  /\ UNCHANGED <<marker, vocabulary, index, late, swept>>

-----------------------------------------------------------------------------
\* saveVocabulary: the request looks for the marker and the version that the caller has
\* read, and misses or goes on to write.
MatchVersion(c) ==
  LET matching == {v \in vocabulary[Repo(c)] : v.version = call[c].version} IN
  /\ call[c].pc = "match"
  /\ Becomes(c, IF marker[Repo(c)] # None /\ matching # {}
                THEN [Goes(c, "write") EXCEPT !.seen = matching, !.gate = marker[Repo(c)]]
                ELSE Goes(c, "state"))
  /\ UNCHANGED <<store, faults, late, swept>>

\* A vertex that was replaced or dropped since fails the write.
CompareAndSet(c) ==
  LET r == Repo(c)
      saved == [of |-> c, by |-> c, version |-> call[c].version + 1]
  IN
  /\ call[c].pc = "write"
  /\ \/ /\ vocabulary[r] = call[c].seen
        /\ vocabulary' = [vocabulary EXCEPT ![r] = {[saved EXCEPT !.of = v.of] : v \in call[c].seen}]
        /\ \/ Submitted(c, [Goes(c, "record") EXCEPT !.stored = TRUE], "match")
           \/ Fault /\ Becomes(c, [Replies(c, "failed") EXCEPT !.stored = TRUE])
     \/ /\ vocabulary[r] # call[c].seen
        /\ Becomes(c, Goes(c, "state"))
        /\ UNCHANGED <<vocabulary, faults>>
  /\ UNCHANGED <<marker, data, index, late, swept>>

\* The record follows in the same request, one property after the other.
WriteRecord(c) ==
  LET r == Repo(c)
      records(kind) == /\ ChangesData(r, data[r] \cup {ChangeRecord(c, kind, call[c].gate)})
                       /\ late' = IF marker[r] = call[c].gate THEN late ELSE late \cup {ChangeRecord(c, kind, call[c].gate)}
  IN
  /\ call[c].pc = "record"
  /\ \/ /\ records("record")
        /\ Submitted(c, [Replies(c, "saved") EXCEPT !.recorded = TRUE], "match")
     \/ /\ records("part of a record") /\ Fault
        /\ Becomes(c, [Goes(c, "match") EXCEPT !.resent = TRUE])
  /\ UNCHANGED <<marker, vocabulary, index, swept>>

\* After a miss the stored vocabulary tells a conflict from a write of its own that
\* the call was not told of.
OwnVersion(c, v) == v.version = call[c].version + 1
OwnVocabulary(c, v) == v.version = call[c].version + 1 /\ v.by = c

ReadState(c) ==
  LET r == Repo(c) IN
  /\ call[c].pc = "state"
  /\ Becomes(c, IF marker[r] = None \/ vocabulary[r] = {} THEN Missing(c)
                ELSE IF \E v \in vocabulary[r] : OwnVocabulary(c, v) THEN Goes(c, "ensure")
                ELSE Replies(c, "conflict"))
  /\ UNCHANGED <<store, faults, late, swept>>

\* The record is completed, or added if it is not there; an entity does not pass for it.
CompleteRecord(c, whole) ==
  {d \in data[Repo(c)] : d.id # c \/ d.kind \in {"entity", "edge"}} \cup {whole}

RecordOf(c) == {d \in data[Repo(c)] : d.id = c /\ d.kind \notin {"entity", "edge"}}

EnsureRecord(c) ==
  /\ call[c].pc = "ensure"
  /\ Becomes(c, IF ~Gate(c) THEN Missing(c)
                ELSE [Goes(c, "complete") EXCEPT !.gate = marker[Repo(c)], !.seen = RecordOf(c)])
  /\ UNCHANGED <<store, faults, late, swept>>

\* By now the marker may have gone, or the record that was found.
PutRecord(c) ==
  LET r == Repo(c)
      whole == ChangeRecord(c, "record", call[c].gate)
  IN
  /\ call[c].pc = "complete"
  /\ \/ /\ call[c].seen \subseteq data[r]
        /\ ChangesData(r, CompleteRecord(c, whole))
        /\ late' = IF marker[r] = call[c].gate THEN late ELSE late \cup {whole}
        /\ Submitted(c, [Replies(c, "saved") EXCEPT !.recorded = TRUE], "ensure")
     \/ /\ ~(call[c].seen \subseteq data[r])
        /\ Becomes(c, Replies(c, "failed"))
        /\ UNCHANGED <<data, late, faults>>
  /\ UNCHANGED <<marker, vocabulary, index, swept>>

-----------------------------------------------------------------------------
Creates(c) ==
  ProbeForCreate(c) \/ WhyOccupied(c) \/ WriteVocabulary(c) \/ ReadIndexForCreate(c) \/ WriteMarker(c)

Deletes(c) ==
  \/ DropMarker(c) \/ ProbeForDelete(c) \/ NothingLeft(c) \/ DrainEdges(c)
  \/ SizeEntities(c) \/ UnlessRecreated(c) \/ DrainEntities(c) \/ DrainVertices(c) \/ CountRemaining(c)
  \/ ReadIndexForDelete(c) \/ RemoveFromIndex(c)

Writes(c) ==
  \/ CheckAndAdd(c) \/ Land(c) \/ BeginRemove(c) \/ RemoveChunk(c) \/ ReadBatch(c)
  \/ DropBatch(c) \/ AssertMarker(c) \/ DropEdgeBatch(c) \/ ClearEntities(c)

Saves(c) ==
  \/ MatchVersion(c) \/ CompareAndSet(c) \/ WriteRecord(c)
  \/ ReadState(c) \/ EnsureRecord(c) \/ PutRecord(c)

CosmosStep(c) == Creates(c) \/ Deletes(c) \/ Writes(c) \/ Saves(c)

=============================================================================
