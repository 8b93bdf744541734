SPECIFICATION Spec
CONSTANTS
  Kinds = {"alert", "pcap_upload", "host_profile", "malformed"}
  FrameLength <- MCFrameLength
  MaxBytes = 9
  TrimBatch = 1
  MaxId = 2
  MaxRecords = 1
  BatchSize = 1
  MaxInflight = 1
  MaxConns = 2
  MaxWire = 1
  MaxFaults = 1
  MasterAcks = TRUE
INVARIANTS NothingLost CopiesMatch
