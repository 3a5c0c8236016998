SPECIFICATION TimedFairSpec
CONSTANTS
  N = 4
  Nobody = Nobody
INVARIANT TimedInv
INVARIANT ThinksEmptyHanded
PROPERTY EveryDinnerEnds
PROPERTY ImplementsDining
