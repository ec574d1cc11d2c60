SPECIFICATION FairSpec
CONSTANTS
  Alarms <- TwoAlarms
  Latched <- PressureLatched
  OnDelay <- TwoOnDelays
  OffDelay <- TwoOffDelays
  MinRepeat <- TwoRepeats
  Wrap = 5
  MaxPeriod = 2
INVARIANTS TypeOK RaisedInTime
PROPERTIES RaisedAfterDelay KeepsLatch ClearsOnceOver
