SPECIFICATION Spec
CONSTANTS
  Kinds = {"alert"}
  FrameLength <- MCFrameLength
  MaxBytes = 9
  TrimBatch = 1
  MaxId = 1
  MaxRecords = 1
  BatchSize = 1
  MaxInflight = 1
  MaxConns = 1
  MaxWire = 1
  MaxFaults = 0
  MasterAcks = TRUE
INVARIANTS NoFalseFallback
