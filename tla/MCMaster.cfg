SPECIFICATION RunSpec
CONSTANTS
  TTL = 2
  Dedup = 1
  MaxTime = 5
  MaxEdits = 2
  MaxMishaps = 1
  MinNew = 1
  MaxTrainings = 2
  MaxWrites = 6
  MaxCrashes = 1
  MaxClicks = 1
  MaxMarks = 1
  MaxPatches = 2
  MaxCalibrations = 2
  Uploads = {"a", "b"}
  MaxVersion = 3
  MaxUpdateMishaps = 2
  Alerts = {"a", "b"}
  Window = 1
  Slack = 1
  MaxClock = 4
  MaxOutages = 1
INVARIANTS  AnomalyModelOK   PcapStoreOK
PROPERTIES  HousekeepingOK
