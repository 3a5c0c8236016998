CHECK_DEADLOCK FALSE
SPECIFICATION Spec
CONSTANTS
  MaxModels = 3
  MaxFlight = 2
  MaxId = 2
INVARIANTS TypeOK ViewIsCurrent IndexedById Agreement
