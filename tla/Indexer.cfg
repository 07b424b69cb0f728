CONSTANTS
  d1 = d1
  d2 = d2
  a = a
  b = b
  k1 = k1
  k2 = k2
  k3 = k3
  Sources = {d1, d2}
  NameOf <- MCNameOf
  Workers = {a, b}
  Slots = {k1, k2, k3}
  WorkerOf <- MCWorkerOf
  Stronger <- MCStronger
  Calls = {"c1", "c2"}
  Stops = {"stop"}
  Scenarios <- MCScenarios
  Fold <- MCFold
  EntityTypes = {"T", "U"}
  RelationTypes <- MCRelationTypes
  Open = FALSE
  Commands = {"x", "y", "z"}
  SourceList <- MCSourceList
  Cases <- MCCases
SPECIFICATION MCSpec
INVARIANTS RecordedOutputsExist ExtractedIsComplete SerialRecordsStay LockNotOrphaned
  NotesStayWellFormed GroupsAreWhole ApprovedIsWritten
PROPERTIES CallsEnd
CHECK_DEADLOCK FALSE
