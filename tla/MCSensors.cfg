SPECIFICATION RunSpec
CONSTANTS
  Payload <- MCPayload
  Length <- MCLength
  MaxBytes = 5
  TrimBatch = 2
  MaxId = 6
  FlowKeys = {"t", "u"}
  Sightings <- MCCaptures
  Private <- MCFlowPrivate
  Port <- MCFlowPort
  Poison = {"u"}
  BatchSize = 2
  MaxPending = 2
  MaxMishaps = 1
INVARIANTS QueueTypeOK BytesExact
PROPERTIES TrimsOldestFirst CaptureOK SensorsProgress IrmaBridgeOK FlowAggregatorOK
