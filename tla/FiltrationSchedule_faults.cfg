SPECIFICATION Spec
CONSTANTS
  Day = 4
  Plans <- MildPlans
  Anchor = 2
  MaxBus = 1
  Hazards = {"recalc","flash","power","preempt","write"}
INVARIANTS
  PlanIsScheduled
