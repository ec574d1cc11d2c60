SPECIFICATION Spec
CONSTANTS
  Loop = Loop
  c1 = c1
  N = 2
  Clients <- OneClient
  Defs <- LimitedDoser
  Faulty = {1}
  Wrap = 8
  RecoveryEnd = 2
  MaxNow = 3
  RunCap = 1
INVARIANTS
  TypeOK
  NoBreachOutlivesAPass
  LockKeepsOutputsOff
