SPECIFICATION FairSpec
CONSTANTS
  own = own
  cfg = cfg
  rt = rt
  alarm = alarm
  Messages <- AllMessages
  ConfigRoutes <- TheRoutes
  OwnRoutes <- TheOwn
  RuntimeRoutes <- TheRuntime
  Alarms <- TheAlarm
  MaxJobs = 2
  Cap <- RingSizes
  TokenSpan = 3
  Budget = 1
  MaxTrouble = 2
  Scenarios <- TheScenarios
INVARIANTS TypeOK QueuedIsReachable
PROPERTIES KeepsRequests OwedIsBuilt AlarmsReachBroker ConnectionRepairs
