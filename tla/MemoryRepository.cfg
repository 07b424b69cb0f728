CONSTANTS
  Ids = {1, 2, 3, 4, 5, 6}
  RelationshipIds = {11, 12}
  Types = {"T", "U"}
  Labels = {"A", "B", "C"}
  Contents <- MCContents
  Vectors <- MCVectors
  Kinds = {"K"}
  MaxSuffix = 5
  Clients = {"a", "b", "c"}
  Models = {"old", "new"}
  Embeddable <- MCEmbeddable
  Plans <- MCPlans
  MAX_SLUG_CONFLICT_RETRIES = 1
  BatchSize = 1
SPECIFICATION ImportSpec
INVARIANTS NoDanglingRelationship IndexAgrees SlugNamesEntity ReportIsTruth ReembedReachesAll
  LoneMergeCompletes
PROPERTIES ImplementsDirectory
CHECK_DEADLOCK FALSE
