SPECIFICATION Spec
CONSTANTS
  Entities = {"s", "a", "b", "t"}
  RelationshipIds = {1, 2, 3, 4, 5, 6, 7, 8}
  EntityTypes = {"K", "L"}
  RelationshipTypes = {"X", "Y"}
  Questions <- MCQuestions
  MaxTraversalDepth = 3
  MaxStorageCalls = 12
INVARIANTS
  PathsAreReal
  SearchIsComplete
  LayersAreDistances
  PagesHoldTogether
  ProvidersAgree
  RepeatIsBreadthFirst
