----------------------------- MODULE CosmosImporter -----------------------------
(***************************************************************************)
(* importBulk of the CosmosDB provider.  The chunks of an import come one   *)
(* after the other, each after a look at the marker; a row is a request of  *)
(* its own, and an adaptive pool sends as many at a time as the store has   *)
(* shown that it can bear.  A row that the store is too busy for is queued  *)
(* to run again, although it may have been written.  No row looks at the    *)
(* marker.  A chunk of entities and relationships counts as two.            *)
(***************************************************************************)
EXTENDS CosmosRepository

CONSTANTS
  IncreaseAfter,        \* rows without a throttle after which one more is sent at a time
  CeilingMultiplier,    \* ... times this, up to a level that was once too high
  MaxThrottlesAtMin     \* throttles at the lowest level that stop the import

ASSUME AdaptiveAssumption == {IncreaseAfter, CeilingMultiplier, MaxThrottlesAtMin} \subseteq Nat \ {0}

NoCeiling == PoolSize + 1

\* The pool starts at its highest level.
NewController == [
  lanes     |-> PoolSize,   \* rows that may be under way, from 1 to PoolSize
  ceiling   |-> NoCeiling,  \* the level that was too high
  streak    |-> 0,
  strikes   |-> 0,          \* throttles in a row at the lowest level
  throttled |-> FALSE]      \* a throttle keeps the level from rising for a time

NoteThrottle(ctl) ==
  LET half == IF ctl.lanes = 1 THEN 1 ELSE ctl.lanes \div 2 IN
  [ctl EXCEPT !.streak = 0, !.throttled = TRUE, !.lanes = half,
              !.ceiling = IF half # ctl.lanes THEN ctl.lanes ELSE @,
              !.strikes = IF half = 1 THEN @ + 1 ELSE 0]

Streak(ctl) == [ctl EXCEPT !.strikes = 0, !.streak = @ + 1]

Rises(ctl) ==
  /\ ctl.lanes < PoolSize
  /\ ctl.streak + 1 >= IncreaseAfter * (IF ctl.lanes + 1 >= ctl.ceiling THEN CeilingMultiplier ELSE 1)

Raised(ctl) ==
  [Streak(ctl) EXCEPT !.streak = 0, !.lanes = @ + 1,
                      !.ceiling = IF ctl.lanes + 1 >= @ THEN NoCeiling ELSE @]

\* What may become of the controller, the time since the last throttle being any.
NoteSuccess(ctl) ==
  {IF Rises(ctl) THEN Raised(ctl) ELSE Streak(ctl)}
    \cup IF ctl.throttled THEN {[ctl EXCEPT !.strikes = 0]} ELSE {}

ShouldAbort(ctl) == ctl.strikes >= MaxThrottlesAtMin

-----------------------------------------------------------------------------
NewRow == [at |-> "new", attempt |-> 1, throttled |-> FALSE]

OpenImport(c) ==
  /\ Op(c) = "import" /\ call[c].pc = "idle"
  /\ Becomes(c, [Goes(c, "importing") EXCEPT
       !.control = NewController,
       !.chunks = [k \in DOMAIN request[c].chunks |->
         [pc |-> "waiting", retry |-> <<>>, rows |-> [j \in DOMAIN request[c].chunks[k] |-> NewRow]]]])
  /\ UNCHANGED <<store, faults, late, swept>>

CheckChunk(c, k) ==
  /\ call[c].chunks[k].pc = "waiting"
  /\ \A i \in 1..(k - 1) : call[c].chunks[i].pc = "over"
  /\ Becomes(c, IF ~Gate(c) THEN Missing(c)
                ELSE [call[c] EXCEPT !.chunks[k].pc = "pool", !.gate = marker[Repo(c)]])
  /\ UNCHANGED <<store, faults, late, swept>>

InFlight(c, k) ==
  {j \in DOMAIN call[c].chunks[k].rows : call[c].chunks[k].rows[j].at \in {"sent", "landing"}}

NewRows(c, k) == {j \in DOMAIN call[c].chunks[k].rows : call[c].chunks[k].rows[j].at = "new"}

\* Mutation of Waiting: workers forget the rows that are to run again.
WaitingOnce(c, k) == NewRows(c, k)

Waiting(c, k) == ToSet(call[c].chunks[k].retry) \cup NewRows(c, k)

\* Rows that wait to run again come before new ones.
FirstWaiting(c, k) ==
  LET retry == call[c].chunks[k].retry IN
  IF retry # <<>> THEN {Head(retry)} ELSE {j \in NewRows(c, k) : \A i \in NewRows(c, k) : j <= i}

DispatchRow(c, k) ==
  /\ call[c].chunks[k].pc = "pool" /\ call[c].stopped = None
  /\ Cardinality(InFlight(c, k)) < call[c].control.lanes
  /\ \E j \in FirstWaiting(c, k) :
       Becomes(c, [call[c] EXCEPT !.chunks[k].retry = IF @ = <<>> THEN @ ELSE Tail(@),
                                  !.chunks[k].rows[j] = [NewRow EXCEPT !.at = "sent"]])
  /\ UNCHANGED <<store, faults, late, swept>>

\* The first failure is the import's; the rows in flight are awaited.
StopsImport(cl) == [cl EXCEPT !.stopped = IF @ = None THEN "failed" ELSE @]

Noted(cl, ctl) ==
  IF ShouldAbort(ctl) THEN StopsImport([cl EXCEPT !.control = ctl]) ELSE [cl EXCEPT !.control = ctl]

\* A row whose request was sent again by the connection counts as throttled.
RowOver(cl, c, k, j, how) ==
  LET over == [cl EXCEPT !.chunks[k].rows[j].at = how] IN
  IF cl.chunks[k].rows[j].throttled THEN Becomes(c, Noted(over, NoteThrottle(cl.control)))
  ELSE \E ctl \in NoteSuccess(cl.control) : Becomes(c, Noted(over, ctl))

\* The store was too busy for longer than the connection tries.
RowAgain(cl, c, k, j) ==
  Becomes(c, Noted([cl EXCEPT !.chunks[k].rows[j].at = "queued", !.chunks[k].retry = Append(@, j)],
                   NoteThrottle(cl.control)))

\* The connection sends the request again.
RowResent(cl, c, k, j) ==
  Becomes(c, [cl EXCEPT !.chunks[k].rows[j].at = "sent", !.chunks[k].rows[j].throttled = TRUE])

-----------------------------------------------------------------------------
EndpointsOf(c, row) == ToSet(RowOf(c, row).ends)

IsIn(c, row) == EndpointsOf(c, row) \subseteq IdsOf(Entities(Repo(c)))

\* What an upsert takes for the row's: an entity with its id, an edge with its id and ends.
Same(c, row) ==
  {d \in StoredUnder(c, row) : d.kind = RowOf(c, row).kind /\ d.ends = RowOf(c, row).ends}

WroteRow(cl, row) == [cl EXCEPT !.wrote = @ \cup {row}]

\* The statement finds the endpoints, and an upsert what there is to update.
FindRow(c, k, j) ==
  LET row == <<k, j>> IN
  /\ call[c].chunks[k].rows[j].at = "sent"
  /\ \/ /\ RowOf(c, row).bad \/ ~IsIn(c, row)
        /\ RowOver(call[c], c, k, j, "refused")
     \/ /\ ~RowOf(c, row).bad /\ IsIn(c, row)
        /\ ~request[c].insert /\ Same(c, row) # {}
        /\ RowOver(WroteRow(call[c], row), c, k, j, "written")
     \/ /\ ~RowOf(c, row).bad /\ IsIn(c, row)
        /\ request[c].insert \/ Same(c, row) = {}
        /\ Becomes(c, [call[c] EXCEPT !.chunks[k].rows[j].at = "landing"])
  /\ UNCHANGED <<store, faults, late, swept>>

RowItem(c, row) ==
  Item(RowOf(c, row).id, RowOf(c, row).kind, call[c].gate, RowOf(c, row).ends, Token(c, row[1], row[2]))

\* ... and writes the row, unless its id has been taken; an upsert of an edge then looks once
\* more.
LandRow(c, k, j) ==
  LET r == Repo(c)
      row == <<k, j>>
      again == [WroteRow(call[c], row) EXCEPT !.resent = TRUE]
      taken == StoredUnder(c, row) # {}
      upsertOfEdge == ~request[c].insert /\ RowOf(c, row).kind = "edge"
  IN
  /\ call[c].chunks[k].rows[j].at = "landing"
  /\ \/ /\ ~taken /\ IsIn(c, row)
        /\ ChangesData(r, data[r] \cup {RowItem(c, row)})
        /\ late' = IF marker[r] = call[c].gate THEN late ELSE late \cup {RowItem(c, row)}
        /\ \/ RowOver(WroteRow(call[c], row), c, k, j, "written") /\ UNCHANGED faults
           \/ Fault /\ (RowResent(again, c, k, j) \/ RowAgain(again, c, k, j))
     \/ /\ taken
        /\ IF upsertOfEdge /\ call[c].chunks[k].rows[j].attempt = 1
           THEN Becomes(c, [call[c] EXCEPT !.chunks[k].rows[j].at = "sent", !.chunks[k].rows[j].attempt = 2])
           ELSE RowOver(call[c], c, k, j, "refused")
        /\ UNCHANGED <<data, late, faults>>
     \/ /\ ~taken /\ ~IsIn(c, row)   \* an endpoint went meanwhile
        /\ Becomes(c, StopsImport([call[c] EXCEPT !.chunks[k].rows[j].at = "failed"]))
        /\ UNCHANGED <<data, late, faults>>
  /\ UNCHANGED <<marker, vocabulary, index, swept>>

\* The store is busy, or fails.
RowTrouble(c, k, j) ==
  /\ j \in InFlight(c, k) /\ Fault
  /\ \/ RowResent(call[c], c, k, j)
     \/ RowAgain(call[c], c, k, j)
     \/ Becomes(c, StopsImport([call[c] EXCEPT !.chunks[k].rows[j].at = "failed"]))
  /\ UNCHANGED <<store, late, swept>>

-----------------------------------------------------------------------------
\* The workers of the pool have gone home when no row is in flight and none waits, or the
\* import was stopped.  A row that has no result counts as imported.
PoolEnds(c, k) ==
  /\ call[c].chunks[k].pc = "pool" /\ InFlight(c, k) = {}
  /\ \/ /\ call[c].stopped # None
        /\ Becomes(c, Replies(c, call[c].stopped))
     \/ /\ call[c].stopped = None /\ Waiting(c, k) = {}
        /\ Becomes(c, [call[c] EXCEPT !.chunks[k].pc = "over",
             !.told = @ \cup {row \in RowsOf(c, k) : call[c].chunks[k].rows[row[2]].at # "refused"}])
  /\ UNCHANGED <<store, faults, late, swept>>

\* An import of nothing looks for the marker here.
CloseImport(c) ==
  /\ call[c].pc = "importing" /\ \A k \in DOMAIN call[c].chunks : call[c].chunks[k].pc = "over"
  /\ Becomes(c, IF DOMAIN call[c].chunks = {} /\ ~Gate(c) THEN Missing(c) ELSE Replies(c, "imported"))
  /\ UNCHANGED <<store, faults, late, swept>>

CosmosImportStep(c) ==
  \/ OpenImport(c) \/ CloseImport(c)
  \/ call[c].pc = "importing" /\ \E k \in DOMAIN call[c].chunks :
       \/ CheckChunk(c, k) \/ DispatchRow(c, k) \/ PoolEnds(c, k)
       \/ \E j \in DOMAIN call[c].chunks[k].rows : FindRow(c, k, j) \/ LandRow(c, k, j)

CosmosImportTrouble(c) ==
  call[c].pc = "importing" /\ \E k \in DOMAIN call[c].chunks :
    \E j \in DOMAIN call[c].chunks[k].rows : RowTrouble(c, k, j)

=============================================================================
