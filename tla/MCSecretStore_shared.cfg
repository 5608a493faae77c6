\* The server and a CLI process both create, update and delete.
CONSTANTS
  Names = {n1}
  Values = {v1, v2}
  NoValue = NoValue
  Server = server
  Clis = {cli}
  Writers = {server, cli}
  Deleters = {server, cli}
  MaxHistory = 1
  MaxOps = 4
  MaxFaults = 1
SYMMETRY Symmetry
SPECIFICATION Spec
INVARIANTS
  Coherent
  HistoryOfLiveRow
  HistoryCapped
  AuditAccounts
