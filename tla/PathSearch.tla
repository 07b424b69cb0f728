----------------------------- MODULE PathSearch ------------------------------
(***************************************************************************)
(* findPaths of the in-memory provider and of the SQL Server provider: a    *)
(* breadth-first search that carries whole paths, prunes a path that        *)
(* arrives at an entity later than another one did, and stops once the page *)
(* asked for can be filled.  The in-memory provider scans all relationships *)
(* for every path it takes.  The SQL one reads those of a whole level at    *)
(* once, in two parts, so that one between two entities of the level is     *)
(* read twice, and goes on when the level is done with the paths whose ends *)
(* fit.                                                                     *)
(***************************************************************************)
EXTENDS StoredGraph

VARIABLES
  search,      \* "searching", then "searched"
  queue,       \* partial paths to go on from
  nextLevel,   \* SQL: the partial paths of the next level
  current,     \* the partial path in hand
  level,       \* SQL: the entities of the level
  at,          \* the next row to look at
  seenAt,      \* the length at which each entity reached so far was reached
  found,       \* paths found, in the order they were found
  page         \* the paths answered

searchVars == <<search, queue, nextLevel, current, level, at, seenAt, found, page>>

Wanted == question.limit + question.offset

Rows == IF question.provider = "sql" THEN 2 * Len(question.stored) ELSE Len(question.stored)

\* All rows have been looked at for the path in hand.
Idle == at > Rows

Searching == AsksFor("paths") /\ search = "searching" /\ question.from # question.to

SearchInit ==
  /\ search = "searching"
  /\ queue = <<Start(question.from)>>
  /\ nextLevel = <<>>
  /\ current = Start(question.from)
  /\ level = {question.from}
  /\ at = Rows + 1
  /\ seenAt = [e \in {question.from} |-> 0]
  /\ found = <<>>
  /\ page = {}

\* The path from an entity to itself is answered before any search, whatever the offset.
AnswerAtOnce ==
  /\ AsksFor("paths") /\ search = "searching" /\ question.from = question.to
  /\ found' = <<Start(question.from)>>
  /\ page' = {Start(question.from)}
  /\ search' = "searched"
  /\ UNCHANGED <<question, queue, nextLevel, current, level, at, seenAt>>

TakeNext ==
  /\ Searching /\ question.provider \in BreadthFirst
  /\ Idle /\ queue # <<>> /\ Len(found) < Wanted
  /\ current' = Head(queue)
  /\ queue' = Tail(queue)
  /\ at' = 1
  /\ UNCHANGED <<question, search, nextLevel, level, seenAt, found, page>>

-----------------------------------------------------------------------------
(* Looking at one row with a path in hand.                                   *)

Row ==
  question.stored[IF at <= Len(question.stored) THEN at ELSE at - Len(question.stored)]

\* The first part of what the SQL provider reads starts in the level, the second ends in it.
Offered ==
  question.provider = "sql" =>
    IF at <= Len(question.stored) THEN Row.source \in level ELSE Row.target \in level

Extended == Extend(current, Row)

NextEntity == End(Extended)

\* Relationships are followed from either end, bidirectional or not.
Usable ==
  /\ Offered /\ Admitted(Row) /\ Touches(Row, End(current))
  /\ NextEntity # question.to =>
       /\ ~Visits(current, NextEntity)
       /\ question.provider = "memory" => Fits(NextEntity)

PrunesEqual ==
  NextEntity \in DOMAIN seenAt => seenAt[NextEntity] > Len(Extended.entities) - 1

NotPruned ==
  NextEntity \in DOMAIN seenAt => seenAt[NextEntity] >= Len(Extended.entities) - 1

GoesOnTooLong == Len(Extended.entities) <= question.maxDepth + 1 /\ NotPruned

Continues == Len(Extended.entities) <= question.maxDepth /\ NotPruned

LookAtRow == Searching /\ ~Idle /\ at' = at + 1

ReachTarget ==
  /\ LookAtRow /\ Usable
  /\ NextEntity = question.to
  /\ found' = Append(found, Extended)
  /\ UNCHANGED <<question, search, queue, nextLevel, current, level, seenAt, page>>

\* The in-memory provider passes over an entity that does not fit.  The SQL one notes
\* where it saw the entity and leaves it out of the next level.
Enqueue ==
  /\ LookAtRow /\ Usable
  /\ NextEntity # question.to /\ Continues
  /\ seenAt' = [e \in DOMAIN seenAt \cup {NextEntity} |->
                  IF e = NextEntity THEN Len(Extended.entities) - 1 ELSE seenAt[e]]
  /\ \/ /\ question.provider = "memory"
        /\ queue' = Append(queue, Extended) /\ UNCHANGED nextLevel
     \/ /\ question.provider = "sql"
        /\ nextLevel' = IF Fits(NextEntity) THEN Append(nextLevel, Extended) ELSE nextLevel
        /\ UNCHANGED queue
  /\ UNCHANGED <<question, search, current, level, found, page>>

PassOver ==
  /\ LookAtRow
  /\ ~Usable \/ (NextEntity # question.to /\ ~Continues)
  /\ UNCHANGED <<question, search, queue, nextLevel, current, level, seenAt, found, page>>

-----------------------------------------------------------------------------
\* The loop's bound on levels never ends it: no partial path that long is kept.
MoreLevels == nextLevel # <<>> /\ Len(found) < Wanted

NextLevel ==
  /\ Searching /\ question.provider = "sql"
  /\ Idle /\ queue = <<>> /\ MoreLevels
  /\ queue' = nextLevel
  /\ level' = {End(nextLevel[i]) : i \in DOMAIN nextLevel}
  /\ nextLevel' = <<>>
  /\ UNCHANGED <<question, search, current, at, seenAt, found, page>>

Slice(paths) ==
  {paths[i] : i \in {n \in DOMAIN paths : question.offset < n /\ n <= Wanted}}

EndSearch ==
  /\ Searching /\ question.provider \in BreadthFirst
  /\ Idle
  /\ Len(found) >= Wanted \/ (queue = <<>> /\ nextLevel = <<>>)
  /\ page' = Slice(found)
  /\ search' = "searched"
  /\ UNCHANGED <<question, queue, nextLevel, current, level, at, seenAt, found>>

PathNext ==
  \/ AnswerAtOnce
  \/ TakeNext
  \/ ReachTarget
  \/ Enqueue
  \/ PassOver
  \/ NextLevel
  \/ EndSearch

-----------------------------------------------------------------------------
FoundPaths == {found[i] : i \in DOMAIN found}

\* Every path found, and so every path answered, starts and ends where it was asked to,
\* visits no entity twice, stays within maxDepth, follows stored relationships the
\* options admit, and between its ends visits entities of the types asked for.  The
\* loop checks the length only of paths it goes on from, prunes by the length at which
\* an entity was last queued, and reaches the target without looking at either.
PathsAreReal ==
  /\ \A p \in FoundPaths : IsPath(p)
  /\ page \subseteq FoundPaths
=============================================================================
