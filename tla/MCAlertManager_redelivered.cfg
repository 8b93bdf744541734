SPECIFICATION FairSpec
CONSTANTS
  Alert = {"tap", "local"}
  WithId = {"tap"}
  DedupKey <- MCDedupKey
  Test = {}
  Ignored = {}
  Unusable = {}
  Defective = {}
  MaxPending = 2
  MaxTopic = 3
  MaxExpiry = 1
  MaxOutage = 0
  MaxFault = 0
  MaxCrash = 0
PROPERTY BufferDrains
