SPECIFICATION Spec
CONSTANTS
  Alert = {"tap", "local", "bad", "odd", "test", "noise"}
  WithId = {"tap"}
  DedupKey <- MCDedupKey
  Test = {"test"}
  Ignored = {"noise"}
  Unusable = {"odd"}
  Defective = {"bad"}
  MaxPending = 2
  MaxTopic = 3
  MaxExpiry = 1
  MaxOutage = 1
  MaxFault = 1
  MaxCrash = 1
INVARIANTS AlertManagerTypeOK NoSilentLoss OncePerWindow BufferInOrder
