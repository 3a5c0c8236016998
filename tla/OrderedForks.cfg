SPECIFICATION OrderedFairSpec
CONSTANTS
  N = 5
  Nobody = Nobody
INVARIANT OrderedInv
INVARIANT NoCircularWait
PROPERTY SomeoneEats
PROPERTY ImplementsDining
