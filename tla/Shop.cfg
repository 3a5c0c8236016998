CHECK_DEADLOCK FALSE
SPECIFICATION Spec
CONSTANTS
  Product = {x1, x2}
  Page = {p1, p2}
  Purchase = {b1, b2}
  InitialStock = 1
  MaxAmount = 1
INVARIANTS TypeOK Books PageIsCurrent
PROPERTY PurchaseEnds
