SPECIFICATION Spec
CONSTANTS
  Installations <- DosedOnly
  RetryAfter = 2
  PsiStartup = 1
  PidDelay = 1
  ElectroDelay = 1
  RobotDelay = 1
  RobotDuration = 2
  FillMinOn = 2
  ProbeRun = 1
  IdleSlow = 2
  IdleFast = 1
  Seconds = 3
INVARIANTS EmptyTankStopsPump
