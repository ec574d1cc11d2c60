SPECIFICATION FairSpec
CONSTANTS
  Day = 4
  Plans <- MildPlans
  Anchor = 2
  MaxBus = 1
  Hazards = {"resync","manual","auto","power"}
PROPERTIES
  HealsOnceUndisturbed
