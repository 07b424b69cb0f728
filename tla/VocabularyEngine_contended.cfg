CONSTANTS
  Names <- MCNames
  Snake <- MCSnake
  Fold <- MCFold
  StoreKey <- MCExact
  Similar <- MCSimilar
  Declarable <- MCDeclarable
  InitialVocabularies <- ContendedVocabularies
  Configs <- ContendedConfigs
  Proposals <- ContendedProposals
  Clients = {c1, c2}
  Writers = {}
  Seeds = {}
  MayUndercount = FALSE
  MaxProposals = 4
SPECIFICATION FairSpec
INVARIANTS ConflictMeansContention
PROPERTIES EveryCallIsAnswered
