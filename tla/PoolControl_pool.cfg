SPECIFICATION Spec
CONSTANTS
  Installations <- AllInstallations
  RetryAfter = 2
  PsiStartup = 1
  PidDelay = 1
  ElectroDelay = 1
  RobotDelay = 1
  RobotDuration = 2
  FillMinOn = 2
  ProbeRun = 1
  IdleSlow = 2
  IdleFast = 1
  Seconds = 3
INVARIANTS TypeOK SafetyStopsInTime NoDryHeating ProbeComesInTime FillingEnds DosesIntoSteadyFlow
PROPERTIES OneCleaningADay
