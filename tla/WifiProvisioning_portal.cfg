SPECIFICATION FairSpec
INVARIANTS
  TypeOK
PROPERTIES
  ReachableAgain
  StationReturns
  GuestIsLeftAlone
