CHECK_DEADLOCK FALSE
SPECIFICATION Spec
CONSTANTS
  Purchase = {p1}
  Thread = {t1}
  Items = {5, 6}
  Idle = Idle
PROPERTY DeliveryInTime
