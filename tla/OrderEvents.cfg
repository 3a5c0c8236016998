SPECIFICATION Spec
CONSTANTS
  OrderId = {o1, o2, o3}
  Product = {p, q}
  Unknown = Unknown
  InitialStock = 3
  MaxQuantity = 2
  MaxLines = 2
  MaxAmount = 4
SYMMETRY Exchangeable
INVARIANT TypeOK
INVARIANT StockBooks
INVARIANT ShortageReported
INVARIANT FailuresKeepTheirEvent
