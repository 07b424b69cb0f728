-------------------------- MODULE SqlServerRepository --------------------------
(***************************************************************************)
(* The life of repositories in the SQL Server provider.  A repository is a  *)
(* row, which the rows of its vocabulary, its change records, its entities  *)
(* and its relationships refer to; relationships refer to their endpoints   *)
(* as well.  A deletion is one transaction that locks the repository's row  *)
(* first, and so are the deletions by id and by type, the vocabulary's save *)
(* and the import.  Everything else is a request that looks and one that    *)
(* writes: what changed in between is for the keys to refuse.               *)
(*                                                                          *)
(* A step is a request.  The driver sends nothing again; a request may fail *)
(* (as the victim of a deadlock, say), or take effect without an answer.    *)
(***************************************************************************)
EXTENDS RepositoryLife

Unchanged == <<store, late, swept>>

RepositoryExists(c) == marker[Repo(c)] # None

\* The foreign keys of an entity or a relationship, and its primary key.
RefersToRows(r, ends) == marker[r] # None /\ ToSet(ends) \subseteq IdsOf(Entities(r))

IdTaken(c) == request[c].id \in IdsOf(data[Repo(c)])

-----------------------------------------------------------------------------
\* createRepository: a look, the repository's row, the vocabulary's row.
LookForRepository(c) ==
  /\ Op(c) = "create" /\ call[c].pc = "idle"
  /\ Becomes(c, IF RepositoryExists(c) THEN Replies(c, "duplicate") ELSE Goes(c, "repository"))
  /\ UNCHANGED <<Unchanged, faults>>

InsertRepository(c) ==
  LET r == Repo(c) IN
  /\ call[c].pc = "repository"
  /\ \/ /\ marker[r] = None
        /\ marker' = [marker EXCEPT ![r] = c]
        /\ Answered(c, Goes(c, "seed"))
     \/ /\ marker[r] # None
        /\ Becomes(c, Replies(c, "duplicate"))
        /\ UNCHANGED <<marker, faults>>
  /\ UNCHANGED <<vocabulary, data, index, late, swept>>

\* The row refers to whichever repository has the id by now.
InsertVocabulary(c) ==
  LET r == Repo(c) IN
  /\ call[c].pc = "seed"
  /\ \/ /\ RepositoryExists(c) /\ vocabulary[r] = {}
        /\ vocabulary' = [vocabulary EXCEPT ![r] = {[of |-> marker[r], by |-> c, version |-> 0]}]
        /\ Answered(c, Replies(c, "created"))
     \/ /\ ~RepositoryExists(c) \/ vocabulary[r] # {}
        /\ Becomes(c, Replies(c, "failed"))
        /\ UNCHANGED <<vocabulary, faults>>
  /\ UNCHANGED <<marker, data, index, late, swept>>

\* deleteRepository: everything in one transaction, the rest by cascade.
DeleteRepository(c) ==
  LET r == Repo(c) IN
  /\ call[c].pc = "drop"
  /\ \/ /\ RepositoryExists(c)
        /\ marker' = [marker EXCEPT ![r] = None]
        /\ vocabulary' = [vocabulary EXCEPT ![r] = {}]
        /\ ChangesData(r, {})
        /\ Answered(c, Completed(call[c]))
     \/ /\ ~RepositoryExists(c)
        /\ Becomes(c, Replies(c, "not_found"))
        /\ UNCHANGED <<marker, vocabulary, data, faults>>
  /\ UNCHANGED <<index, late, swept>>

-----------------------------------------------------------------------------
\* A request that deletes: the rows go unless a relationship that stays refers to one.
DeletesRows(c, gone, cl) ==
  LET r == Repo(c)
      kept == data[r] \ gone
  IN
  \/ /\ \A d \in kept : ToSet(d.ends) \subseteq IdsOf(kept)
     /\ ChangesData(r, kept)
     /\ Answered(c, cl)
  \/ /\ \E d \in kept : ~(ToSet(d.ends) \subseteq IdsOf(kept))
     /\ Becomes(c, Replies(c, "failed"))
     /\ UNCHANGED <<data, faults>>

OnlyData == <<marker, vocabulary, index, late, swept>>

\* deleteAllContents: assertRepository, the relationships, the entities.
AssertForClear(c) ==
  /\ Op(c) = "clear" /\ call[c].pc = "idle"
  /\ Becomes(c, IF RepositoryExists(c) THEN Goes(c, "relationships") ELSE Missing(c))
  /\ UNCHANGED <<Unchanged, faults>>

DeleteRelationships(c) ==
  /\ Op(c) = "clear" /\ call[c].pc = "relationships"
  /\ DeletesRows(c, Edges(Repo(c)), Goes(c, "entities"))
  /\ UNCHANGED OnlyData

DeleteEntities(c) ==
  /\ Op(c) = "clear" /\ call[c].pc = "entities"
  /\ DeletesRows(c, Entities(Repo(c)), Replies(c, "removed"))
  /\ UNCHANGED OnlyData

\* deleteEntity: its relationships, the entity, and on a miss a look for the repository.
DeleteEntityEdges(c) ==
  /\ Op(c) = "erase" /\ call[c].pc = "idle"
  /\ DeletesRows(c, Linked(Repo(c), request[c].ids), Goes(c, "row"))
  /\ UNCHANGED OnlyData

DeleteEntityRow(c) ==
  LET rows == {d \in Entities(Repo(c)) : d.id \in request[c].ids} IN
  /\ call[c].pc = "row"
  /\ \/ /\ rows # {}
        /\ DeletesRows(c, rows, [Replies(c, "removed") EXCEPT !.told = IdsOf(rows), !.took = IdsOf(rows)])
     \/ /\ rows = {} /\ Becomes(c, Goes(c, "miss"))
        /\ UNCHANGED <<data, faults>>
  /\ UNCHANGED OnlyData

ExplainMiss(c) ==
  /\ call[c].pc = "miss"
  /\ Becomes(c, IF RepositoryExists(c) THEN Replies(c, "not_found") ELSE Missing(c))
  /\ UNCHANGED <<Unchanged, faults>>

\* deleteByIdsGuarded and deleteByTypeGuarded: one transaction, the repository's row first.
GuardedDelete(c) ==
  LET r == Repo(c)
      entities == {d \in Entities(r) : Op(c) = "purge" \/ (Op(c) = "remove" /\ d.id \in request[c].ids)}
      edges == IF Op(c) = "cut" THEN Edges(r) ELSE Linked(r, IdsOf(entities))
      told == IdsOf(entities)
  IN
  /\ Op(c) \in {"remove", "purge", "cut"} /\ call[c].pc = "idle"
  /\ \/ /\ RepositoryExists(c)
        /\ DeletesRows(c, entities \cup edges, [Replies(c, "removed") EXCEPT !.told = told, !.took = told])
     \/ /\ ~RepositoryExists(c) /\ Becomes(c, Missing(c))
        /\ UNCHANGED <<data, faults>>
  /\ UNCHANGED OnlyData

-----------------------------------------------------------------------------
\* createEntity and createRelationship: look ...
AssertForCreate(c) ==
  /\ Op(c) = "entity" /\ call[c].pc = "idle"
  /\ Becomes(c, IF RepositoryExists(c) THEN Goes(c, "id") ELSE Missing(c))
  /\ UNCHANGED <<Unchanged, faults>>

LookForEntity(c) ==
  /\ call[c].pc = "id"
  /\ Becomes(c, IF IdTaken(c) THEN Replies(c, "duplicate") ELSE Goes(c, "insert"))
  /\ UNCHANGED <<Unchanged, faults>>

ReadPreconditions(c) ==
  /\ Op(c) = "edge" /\ call[c].pc = "idle"
  /\ Becomes(c, IF ~RepositoryExists(c) THEN Missing(c)
                ELSE IF IdTaken(c) THEN Replies(c, "duplicate")
                ELSE IF RefersToRows(Repo(c), request[c].ends) THEN Goes(c, "insert")
                ELSE Replies(c, "not_found"))
  /\ UNCHANGED <<Unchanged, faults>>

\* ... and insert.  The primary key refuses an id, the foreign keys what is not there.
InsertRow(c) ==
  LET r == Repo(c)
      refers == RefersToRows(r, request[c].ends)
  IN
  /\ call[c].pc = "insert"
  /\ \/ /\ refers /\ ~IdTaken(c)
        /\ ChangesData(r, data[r] \cup {NewItem(c, marker[r])})
        /\ Answered(c, Created(c, marker[r]))
     \/ /\ IdTaken(c)
        /\ Becomes(c, Replies(c, "duplicate"))
        /\ UNCHANGED <<data, faults>>
     \/ /\ ~refers /\ ~IdTaken(c)
        /\ Becomes(c, IF Op(c) = "edge" THEN Goes(c, "why") ELSE Replies(c, "failed"))
        /\ UNCHANGED <<data, faults>>
  /\ UNCHANGED OnlyData

\* The error does not name the key: the rows tell, if they still do.
ExplainForeignKey(c) ==
  /\ Op(c) = "edge" /\ call[c].pc = "why"
  /\ Becomes(c, IF ~RepositoryExists(c) THEN Missing(c)
                ELSE Replies(c, IF RefersToRows(Repo(c), request[c].ends) THEN "failed" ELSE "not_found"))
  /\ UNCHANGED <<Unchanged, faults>>

-----------------------------------------------------------------------------
\* saveVocabulary: one transaction writes both rows, or reads why not.
UpdateVocabulary(c) ==
  LET r == Repo(c)
      matching == {v \in vocabulary[r] : v.version = call[c].version}
  IN
  /\ call[c].pc = "match"
  /\ \/ /\ matching # {}
        /\ vocabulary' = [vocabulary EXCEPT ![r] =
             {[of |-> v.of, by |-> c, version |-> v.version + 1] : v \in matching}]
        /\ ChangesData(r, data[r] \cup {ChangeRecord(c, "record", marker[r])})
        /\ Answered(c, [Replies(c, "saved") EXCEPT !.stored = TRUE, !.recorded = TRUE])
     \/ /\ matching = {}
        /\ Becomes(c, IF RepositoryExists(c) /\ vocabulary[r] # {} THEN Replies(c, "conflict") ELSE Missing(c))
        /\ UNCHANGED <<vocabulary, data, faults>>
  /\ UNCHANGED <<marker, index, late, swept>>

-----------------------------------------------------------------------------
\* importBulk: one transaction.  Entities are merged by id; an edge is inserted, or merged
\* if the row names the stored edge.  One row that is refused takes the import with it.
RowRefused(c, row, entities) ==
  \/ RowOf(c, row).bad
  \/ RowOf(c, row).kind = "edge" /\ ~(ToSet(RowOf(c, row).ends) \subseteq entities)
  \/ RowOf(c, row).kind = "edge" /\ \E d \in StoredUnder(c, row) :
       request[c].insert \/ d.ends # RowOf(c, row).ends

ImportInOneTransaction(c) ==
  LET r == Repo(c)
      entities == IdsOf(Entities(r)) \cup {RowOf(c, row).id : row \in {w \in Rows(c) : RowOf(c, w).kind = "entity"}}
      refused == \E row \in Rows(c) : RowRefused(c, row, entities)
      added == {Item(RowOf(c, row).id, RowOf(c, row).kind, marker[r], RowOf(c, row).ends, Token(c, 0, 0)) :
                  row \in {w \in Rows(c) : StoredUnder(c, w) = {}}}
  IN
  /\ Op(c) = "import" /\ call[c].pc = "idle"
  /\ \/ /\ RepositoryExists(c) /\ ~refused
        /\ ChangesData(r, data[r] \cup added)
        /\ Answered(c, [Replies(c, "imported") EXCEPT !.told = Rows(c), !.wrote = Rows(c)])
     \/ /\ ~RepositoryExists(c) \/ refused
        /\ Becomes(c, IF RepositoryExists(c) THEN Replies(c, "refused") ELSE Missing(c))
        /\ UNCHANGED <<data, faults>>
  /\ UNCHANGED OnlyData

-----------------------------------------------------------------------------
SqlServerStep(c) ==
  \/ LookForRepository(c) \/ InsertRepository(c) \/ InsertVocabulary(c) \/ DeleteRepository(c)
  \/ AssertForClear(c) \/ DeleteRelationships(c) \/ DeleteEntities(c)
  \/ DeleteEntityEdges(c) \/ DeleteEntityRow(c) \/ ExplainMiss(c) \/ GuardedDelete(c)
  \/ AssertForCreate(c) \/ LookForEntity(c) \/ ReadPreconditions(c) \/ InsertRow(c) \/ ExplainForeignKey(c)
  \/ UpdateVocabulary(c) \/ ImportInOneTransaction(c)

=============================================================================
