CONSTANTS
  p1 = p1
  p2 = p2
  c1 = c1
  c2 = c2
  c3 = c3
  Processes = {p1, p2}
  Calls = {c1, c2, c3}
  Owner <- MCOwner
  TTL = 1
  MaxSaves = 2
  MaxTime = 1
SYMMETRY MCSymmetry
SPECIFICATION Spec
INVARIANTS FreshReadsAreSeenLater
