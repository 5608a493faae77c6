\* Only the gateway server writes; a CLI process reads beside it.
CONSTANTS
  Names = {n1}
  Values = {v1, v2}
  NoValue = NoValue
  Server = server
  Clis = {cli}
  Writers = {server}
  Deleters = {server}
  MaxHistory = 2
  MaxOps = 5
  MaxFaults = 1
SYMMETRY Symmetry
SPECIFICATION Spec
INVARIANTS
  TypeOK
  CacheSound
  HistoryContiguous
  HistoryWindow
PROPERTIES
  SaveReplacesWhatWasSeen
  ImplementsRegister
