--------------------------- MODULE MCIndexerState ---------------------------
(***************************************************************************)
(* Instances of IndexerState for TLC: one document or two, of one name in  *)
(* two folders, assigned to one worker or to two.                          *)
(***************************************************************************)
EXTENDS IndexerState, TLC

CONSTANTS d1, d2, a, b, k1, k2, k3

MCNameOf == [s \in Sources |-> "report"]

MCWorkerOf == [k \in Slots |-> IF k = k3 THEN b ELSE a]

\* b is the more capable worker.
MCStronger == [w \in Workers |-> IF w = a THEN {b} \cap Workers ELSE {}]

Scene(assigned, pending, by, later, n) ==
  [assigned |-> [s \in Sources |-> assigned], pending |-> pending, by |-> by \cup later,
   later |-> later, faults |-> n]

\* Both workers extract one document in one call, with a fault or a stop; one worker
\* fails and the other is given the document; two calls overlap, of one loop each, or the
\* second one follows a crash or a failure of the first; two loops of a worker share a
\* queue; nobody extracts anything.
MCScenarios == {
  Scene(<<a, b>>, {d1}, {"c1"}, {}, 1), Scene(<<a, b>>, {d1}, {"c1", "stop"}, {}, 0),
  Scene(<<a>>, {d1}, {"c1", "stop"}, {}, 1), Scene(<<b>>, {d1}, {"c1"}, {"c2"}, 1),
  Scene(<<b>>, {d1}, {"c1", "c2"}, {}, 0), Scene(<<a>>, {d1, d2}, {"c1"}, {}, 0), Scene(<<a>>, {}, {}, {}, 0)}

\* Both workers extract one document, and nothing goes wrong.
MCQuiet == {Scene(<<a, b>>, {d1}, {"c1"}, {}, 0)}

=============================================================================
