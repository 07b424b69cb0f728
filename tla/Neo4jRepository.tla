---------------------------- MODULE Neo4jRepository ----------------------------
(***************************************************************************)
(* The life of repositories in the Neo4j provider.  A statement is a        *)
(* transaction.  One that creates something write-locks the marker, so a    *)
(* deletion, which drops the marker first, comes before it or after it; the *)
(* drains that follow look for no marker.  The vocabulary goes last, and a  *)
(* creation is refused while there is one.                                  *)
(*                                                                          *)
(* A step is a statement.  The driver sends a statement again when the      *)
(* answer to its commit is lost; a write carries a token by which the       *)
(* repetition knows what the first run stored.  Drains commit on their own  *)
(* and are not sent again: one may fail with part of its effect.            *)
(***************************************************************************)
EXTENDS RepositoryLife

Unmarked == <<store, late, swept>>

\* LOCK_REPOSITORY_MARKER
Locked(c) == marker[Repo(c)] # None

-----------------------------------------------------------------------------
\* A marker with the token of this call was written by its own first run.
ByToken(c) == Replies(c, IF marker[Repo(c)] = c THEN "created" ELSE "duplicate")

\* createRepository: one statement looks for a marker and for what an interrupted
\* deletion has left, and writes the marker, with its token, and the vocabulary.
Leftovers(r) == vocabulary[r] # {} \/ Entities(r) # {}

CreateRepository(c) ==
  LET r == Repo(c) IN
  /\ Op(c) = "create" /\ call[c].pc \in {"idle", "again"}
  /\ \/ /\ marker[r] = None /\ ~Leftovers(r)
        /\ marker' = [marker EXCEPT ![r] = c]
        /\ vocabulary' = [vocabulary EXCEPT ![r] = {[of |-> c, by |-> c, version |-> 0]}]
        /\ Submitted(c, Replies(c, "created"), "again")
     \/ /\ marker[r] = None /\ Leftovers(r)
        /\ Becomes(c, Replies(c, "unfinished"))
        /\ UNCHANGED <<marker, vocabulary, faults>>
     \/ /\ marker[r] # None
        /\ \/ Becomes(c, ByToken(c))
           \/ Becomes(c, Goes(c, "marker token"))   \* the constraint refuses a marker written meanwhile
        /\ UNCHANGED <<marker, vocabulary, faults>>
  /\ UNCHANGED <<data, index, late, swept>>

ReadRepositoryToken(c) ==
  /\ call[c].pc = "marker token"
  /\ Becomes(c, ByToken(c))
  /\ UNCHANGED <<Unmarked, faults>>

-----------------------------------------------------------------------------
\* deleteRepository: the marker goes first, in a statement of its own.
DetachMarker(c) ==
  LET r == Repo(c) IN
  /\ call[c].pc = "drop"
  /\ marker' = [marker EXCEPT ![r] = None]
  /\ Submitted(c, [Goes(c, "relationships") EXCEPT !.raw = marker[r] # None], "drop")
  /\ UNCHANGED <<vocabulary, data, index, late, swept>>

\* A statement of a drain: it is answered, or fails with part of what it had to delete.
Drains(c, r, gone, cl) ==
  \/ ChangesData(r, Without(r, gone)) /\ Becomes(c, cl) /\ UNCHANGED faults
  \/ Fault /\ Becomes(c, Replies(c, "failed"))
     /\ \E part \in SUBSET gone : ChangesData(r, Without(r, part))

Took(c, gone) == [call[c] EXCEPT !.raw = @ \/ gone # {}]

\* Only the drains of relationships and entities tell the caller.
Told(c, gone) ==
  IF gone = {} \/ Op(c) # "delete" THEN Took(c, gone)
  ELSE [Took(c, gone) EXCEPT !.events = Progressed(call[c])]

\* The next entities past the cursor, in the order of the index.
Place(e) == CHOOSE k \in DOMAIN Order : Order[k] = e.id

Page(c) ==
  LET beyond == {e \in Entities(Repo(c)) : Place(e) > call[c].after} IN
  {e \in beyond : Cardinality({f \in beyond : Place(f) < Place(e)}) < BatchSize}

From(r, page) == {d \in Edges(r) : Head(d.ends) \in IdsOf(page)}

\* At the cap the page may have more: the statement is run again from where it was.
Turned(cl, page, edges, end) ==
  IF Cardinality(edges) >= EdgeCap THEN cl
  ELSE IF page = {} THEN end
  ELSE [cl EXCEPT !.after = CHOOSE k \in 1..Len(Order) :
                              /\ \E e \in page : Place(e) = k
                              /\ \A e \in page : Place(e) <= k]

DrainRelationships(c) ==
  LET r == Repo(c)
      page == Page(c)
  IN
  /\ call[c].pc = "relationships"
  /\ \E edges \in Some(EdgeCap, From(r, page)) :
       Drains(c, r, edges, Turned(Told(c, edges), page, edges, [Told(c, edges) EXCEPT !.pc = "entities"]))
  /\ UNCHANGED <<marker, vocabulary, index, late, swept>>

\* A drain of nodes ends with the first batch that finds none.
DrainNodes(c, nodes, next) ==
  LET r == Repo(c) IN
  /\ \/ /\ nodes # {}
        /\ \E batch \in Batches(nodes) :
             Drains(c, r, batch, IF call[c].pc = "entities" THEN Told(c, batch) ELSE Took(c, batch))
     \/ /\ nodes = {}
        /\ Becomes(c, next)
        /\ UNCHANGED <<data, faults>>
  /\ UNCHANGED <<marker, vocabulary, index, late, swept>>

DetachEntities(c) ==
  /\ call[c].pc = "entities"
  /\ DrainNodes(c, Entities(Repo(c)), IF Op(c) = "clear" THEN Replies(c, "removed") ELSE Goes(c, "log"))

DrainChangeLog(c) ==
  /\ call[c].pc = "log"
  /\ DrainNodes(c, {d \in data[Repo(c)] : d.kind = "record"}, Goes(c, "rest"))

\* Native queries may have written nodes of any label.
SweepNodes(c) ==
  /\ call[c].pc = "rest"
  /\ DrainNodes(c, Vertices(Repo(c)), Goes(c, "last"))

\* The vocabulary goes last, and only without a marker.
DetachVocabulary(c) ==
  LET r == Repo(c)
      drops == marker[r] = None
      raw == call[c].raw \/ (drops /\ vocabulary[r] # {})
  IN
  /\ call[c].pc = "last"
  /\ vocabulary' = [vocabulary EXCEPT ![r] = IF drops THEN {} ELSE @]
  /\ Submitted(c, IF raw THEN Completed(call[c]) ELSE Replies(c, "not_found"), "last")
  /\ UNCHANGED <<marker, data, index, late, swept>>

\* deleteAllContents: assertRepositoryMarker, then the same drains.
AssertBeforeClear(c) ==
  /\ Op(c) = "clear" /\ call[c].pc = "idle"
  /\ Becomes(c, IF Locked(c) THEN Goes(c, "relationships") ELSE Missing(c))
  /\ UNCHANGED <<Unmarked, faults>>

-----------------------------------------------------------------------------
\* createEntity and createRelationship: the statement writes, or says what is in the way.
\* An id that was minted is not looked for: the edge is merged on its id and token.
Obstacle(c) ==
  LET r == Repo(c)
      taken == request[c].id \in IdsOf(data[r])
  IN
  CASE ~Locked(c) -> "missing"
    [] Locked(c) /\ taken /\ ~request[c].minted -> "token"
    [] OTHER -> IF Endpoints(c) \subseteq IdsOf(Entities(r)) THEN "none" ELSE "not_found"

AddItem(c) ==
  LET r == Repo(c) IN
  /\ Op(c) \in {"entity", "edge"} /\ call[c].pc \in {"idle", "again"}
  /\ \/ /\ Obstacle(c) = "none"
        /\ ChangesData(r, data[r] \cup {NewItem(c, marker[r])})
        /\ Submitted(c, Created(c, marker[r]), "again")
     \/ /\ Obstacle(c) \in {"missing", "not_found"}
        /\ Becomes(c, Replies(c, Obstacle(c)))
        /\ UNCHANGED <<data, faults>>
     \/ /\ Obstacle(c) = "token"
        /\ Becomes(c, Goes(c, "token"))
        /\ UNCHANGED <<data, faults>>
  /\ UNCHANGED <<marker, vocabulary, index, late, swept>>

\* An item under the id with the token of this call was stored by its own first run.
AnyToken(c, d) == d.id = request[c].id
OwnToken(c, d) == d.id = request[c].id /\ d.by = Token(c, 0, 0)

ReadToken(c) ==
  LET r == Repo(c) IN
  /\ call[c].pc = "token"
  /\ Becomes(c, IF \E d \in data[r] : OwnToken(c, d)
                THEN [Created(c, marker[r]) EXCEPT !.wrote = call[c].wrote]
                ELSE Replies(c, "duplicate"))
  /\ UNCHANGED <<Unmarked, faults>>

-----------------------------------------------------------------------------
\* deleteByIds: one transaction.  What an earlier attempt of it found is told as well,
\* whether that attempt was committed or rolled back.
DeleteByIds(c) ==
  LET r == Repo(c)
      found == {d \in Entities(r) : d.id \in request[c].ids}
      told == IdsOf(found) \cup call[c].seen
      tried == [Goes(c, "again") EXCEPT !.seen = told, !.resent = TRUE]
  IN
  /\ Op(c) = "remove" /\ call[c].pc \in {"idle", "again"}
  /\ \/ /\ ~Locked(c) /\ Becomes(c, Missing(c))
        /\ UNCHANGED <<data, faults>>
     \/ /\ Locked(c)
        /\ ChangesData(r, Without(r, found))
        /\ \/ /\ Becomes(c, [Replies(c, "removed") EXCEPT !.told = told, !.took = @ \cup IdsOf(found)])
              /\ UNCHANGED faults
           \/ Fault /\ Becomes(c, [tried EXCEPT !.took = @ \cup IdsOf(found)])
     \/ /\ Locked(c) /\ Fault /\ Becomes(c, tried)
        /\ UNCHANGED data
  /\ UNCHANGED <<marker, vocabulary, index, late, swept>>

\* deleteEntitiesByType: a batch and the relationships at it, as far as the cap goes; the
\* entities go when no relationship is left over.
DeleteTypeBatch(c) ==
  LET r == Repo(c) IN
  /\ Op(c) = "purge" /\ call[c].pc \in {"idle", "more"}
  /\ \/ /\ ~Locked(c) /\ Becomes(c, Missing(c))
        /\ UNCHANGED <<data, faults>>
     \/ /\ Locked(c)
        /\ \E batch \in Batches(Entities(r)) : \E edges \in Some(EdgeCap, Linked(r, IdsOf(batch))) :
             LET doomed == IF Cardinality(edges) < EdgeCap THEN batch ELSE {} IN
             /\ ChangesData(r, Without(r, edges \cup doomed))
             /\ Answered(c, IF Cardinality(edges) < EdgeCap /\ Cardinality(doomed) < BatchSize
                            THEN Replies(c, "removed") ELSE Goes(c, "more"))
  /\ UNCHANGED <<marker, vocabulary, index, late, swept>>

\* deleteRelationshipsByType: the cursor of the drain, with a look at the marker each time.
DeleteEdgesOfPage(c) ==
  LET r == Repo(c)
      page == Page(c)
      cl == Goes(c, "more")
  IN
  /\ Op(c) = "cut" /\ call[c].pc \in {"idle", "more"}
  /\ \/ /\ ~Locked(c) /\ Becomes(c, Missing(c))
        /\ UNCHANGED <<data, faults>>
     \/ /\ Locked(c)
        /\ \E edges \in Some(EdgeCap, From(r, page)) :
             Drains(c, r, edges, Turned(cl, page, edges, Replies(c, "removed")))
  /\ UNCHANGED <<marker, vocabulary, index, late, swept>>

-----------------------------------------------------------------------------
\* saveVocabulary: the vocabulary and its record in one statement; when nothing was
\* written a second one tells why.
SaveVocabulary(c) ==
  LET r == Repo(c)
      matching == {v \in vocabulary[r] : Locked(c) /\ v.version = call[c].version}
  IN
  /\ call[c].pc = "match"
  /\ \/ /\ matching # {}
        /\ vocabulary' = [vocabulary EXCEPT ![r] =
             {[of |-> v.of, by |-> c, version |-> v.version + 1] : v \in matching}]
        /\ ChangesData(r, data[r] \cup {ChangeRecord(c, "record", marker[r])})
        /\ Submitted(c, [Replies(c, "saved") EXCEPT !.stored = TRUE, !.recorded = TRUE], "match")
     \/ /\ matching = {}
        /\ Becomes(c, Goes(c, "why"))
        /\ UNCHANGED <<vocabulary, data, faults>>
  /\ UNCHANGED <<marker, index, late, swept>>

ReadSaveOutcome(c) ==
  LET r == Repo(c) IN
  /\ call[c].pc = "why"
  /\ Becomes(c, IF marker[r] = None \/ vocabulary[r] = {} THEN Missing(c)
                ELSE Replies(c, IF \E v \in vocabulary[r] : v.by = c THEN "saved" ELSE "conflict"))
  /\ UNCHANGED <<Unmarked, faults>>

-----------------------------------------------------------------------------
Neo4jStep(c) ==
  \/ CreateRepository(c) \/ ReadRepositoryToken(c)
  \/ DetachMarker(c) \/ DrainRelationships(c) \/ DetachEntities(c) \/ DrainChangeLog(c)
  \/ SweepNodes(c) \/ DetachVocabulary(c) \/ AssertBeforeClear(c)
  \/ AddItem(c) \/ ReadToken(c)
  \/ DeleteByIds(c) \/ DeleteTypeBatch(c) \/ DeleteEdgesOfPage(c)
  \/ SaveVocabulary(c) \/ ReadSaveOutcome(c)

=============================================================================
