\* The finite set of clients comes to an end: the shop may stop.
CHECK_DEADLOCK FALSE
SPECIFICATION BarberFairSpec
CONSTANTS
  Client = {c1, c2, c3, c4}
  Barber = {b1, b2}
  Capacity = 1
  NoClient = NoClient
INVARIANT BarberTypeOK
INVARIANT OnePlaceEach
PROPERTY ImplementsRoom
PROPERTY NoChairReturns
