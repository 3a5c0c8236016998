SPECIFICATION Spec
CONSTANTS
  MaxDepth = 4
INVARIANT IInv
INVARIANT OpenHasOwner
INVARIANT MandatoryKept
INVARIANT AllOrNothing
