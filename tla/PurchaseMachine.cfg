\* Once every purchase is canceled or deliveried nothing is left to fire.
CHECK_DEADLOCK FALSE
SPECIFICATION Spec
CONSTANTS
  Purchase = {p1, p2}
  Thread = {t1, t2}
  Items = {5, 6}
  Idle = Idle
INVARIANT TypeOK
INVARIANT StockKept
INVARIANT DeliveredOnce
PROPERTY EndsAreFinal
