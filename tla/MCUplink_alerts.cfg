SPECIFICATION Spec
CONSTANTS
  Kinds = {"alert", "metric"}
  FrameLength <- MCFrameLength
  MaxBytes = 1
  TrimBatch = 1
  MaxId = 2
  MaxRecords = 2
  BatchSize = 1
  MaxInflight = 1
  MaxConns = 2
  MaxWire = 1
  MaxFaults = 1
  MasterAcks = TRUE
INVARIANTS UplinkTypeOK AcksAreEarned InflightBound BehindCursorBooked MetricOncePerLife
PROPERTY DeliversAtLeastOnce
