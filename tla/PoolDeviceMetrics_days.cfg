SPECIFICATION Spec
CONSTANTS
  CommitEvery = 1
  PersistEvery = 2
  MaxGap = 1
  MaxDay = 2
  MaxTotal = 3
INVARIANTS
  TypeOK
  LossIsBounded
  RestartIsDurable
  DayCountIsToday
  DayIsCaughtUp
