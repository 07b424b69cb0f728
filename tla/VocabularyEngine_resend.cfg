CONSTANTS
  Names <- ConvertNames
  Snake <- ConvertSnake
  Fold <- ConvertFold
  StoreKey <- ConvertExact
  Similar <- ConvertSimilar
  Declarable <- ConvertDeclarable
  InitialVocabularies <- ConvertVocabularies
  Configs <- EntityConfigs
  Proposals <- ConvertProposals
  Clients = {c1}
  Writers = {}
  Seeds = {s1}
  MayUndercount = FALSE
  MaxProposals = 2
SPECIFICATION Spec
INVARIANTS DeleteAnswerIsFinal
