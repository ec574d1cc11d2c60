SPECIFICATION FairSpec
CONSTANTS
  Plans <- FourPlans
  None = None
  Failing = FALSE
INVARIANTS
  TypeOK
  WholePlans
PROPERTIES
  StoreIsAtomic
  PlanReturns
