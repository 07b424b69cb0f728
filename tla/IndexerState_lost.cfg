CONSTANTS
  d1 = d1
  d2 = d2
  a = a
  b = b
  k1 = k1
  k2 = k2
  k3 = k3
  Sources = {d1}
  NameOf <- MCNameOf
  Workers = {a, b}
  Slots = {k1, k3}
  WorkerOf <- MCWorkerOf
  Stronger <- MCStronger
  Calls = {"c1"}
  Stops = {}
  Scenarios <- MCQuiet
SPECIFICATION Spec
INVARIANTS RecordsStay
CHECK_DEADLOCK FALSE
