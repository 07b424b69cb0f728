CONSTANTS
  Names <- MCNames
  Snake <- MCSnake
  Fold <- MCFold
  StoreKey <- MCFold
  Similar <- MCSimilar
  Declarable <- MCDeclarable
  InitialVocabularies <- EntityVocabularies
  Configs <- EntityConfigs
  Proposals <- EntityProposals
  Clients = {c1, c2}
  Writers = {w1}
  Seeds = {s1}
  MayUndercount = TRUE
  MaxProposals = 3
SPECIFICATION Spec
INVARIANTS VersionIdentifiesVocabulary NoDuplicateTypes
  ApprovedIsLogged DeleteAnswerIsFinal OrphansAccounted
PROPERTIES ImplementsRegister NoStandingDataLost
