SPECIFICATION Spec
CONSTANTS
  Paths <- MCPaths
  MaxJournalFaults = 1
  PipPacks = {p}
  Locks = {l1, l2}
  BadLocks = {l2}
  RejectLimit = 2
  MaxPipFaults = 1
  LibPacks = {p}
  MaxContent = 2
  MaxLibFaults = 1
  Names = {A, B}
  Texts = {"v", "w"}
  MaxKeys = 2
  MaxSecretFaults = 1
  Slots = {1}
  Codes = {"a", "b"}
  Offered <- MCOffered
  Tokens = {1, 2, 3}
  CheckHops = 2
  MaxHops = 2
  MaxDictFaults = 1
  MaxHmacKeys = 3
  Grace = 2
  MaxTime = 3
  MaxKeyFaults = 1
  TabPacks = {"a", "b"}
  Keys = {k}
  FileName <- MCFileName
  MaxTabFaults = 1
  BufferSize = 2
  MaxLogged = 4
  LastDay = 3
  KeepDays = 1
  MaxAuditFaults = 2
INVARIANTS FilesTypeOK InstallsSound RecordsKept AuditComplete
CHECK_DEADLOCK FALSE
