SPECIFICATION RunSpec
CONSTANTS
  MaxClicks = 2
  MaxConns = 3
  MaxDbErrors = 1
  Callers = {"poller", "cli"}
  MaxKeys = 3
  MaxCrashes = 1
  InflightMax = 2
  MaxAlerts = 3
  MaxSessions = 3
  MaxDrops = 1
  NRules = 1
  MaxRuleEdits = 1
  MaxSyncFailures = 1
  Params = {"p", "q"}
  MaxValue = 3
  MaxDown = 20
  MaxUp = 50
  MaxPutRetries = 2
  MaxOperator = 2
  MaxCycleFailures = 1
INVARIANTS UpdateTriggerOK  MqttBridgeOK
PROPERTIES ConfigSyncOK TunnelOK  FleetProgress
