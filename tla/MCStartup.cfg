SPECIFICATION Spec
CONSTANTS
  Tokens <- MCTokens
  CommandLines <- MCCommandLines
  Numbers <- MCNumbers
  Tables <- MCTables
INVARIANTS
  TypeOK
  StartedAsAsked
  FirstInterfaceWins
  SearchFinds
  StorageLive
  MappingComplete
  SubindicesCounted
  FirstFit
CHECK_DEADLOCK FALSE
