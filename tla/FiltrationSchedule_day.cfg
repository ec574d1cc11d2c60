SPECIFICATION FairSpec
CONSTANTS
  Day = 4
  Plans <- MCPlans
  Anchor = 2
  MaxBus = 1
  Hazards = {}
INVARIANTS
  TypeOK
  FiltrationFollowsWindow
PROPERTIES
  RunKeepsItsPlan
  StagedIsAdopted
