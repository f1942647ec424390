SPECIFICATION Spec
CONSTANTS
  Dishes = {biryani, cola}
  Drinks = {cola}
  Prices = {1, 2}
  Orders = {o1}
  Tables = {t1}
  NoTable = none
  MaxQuantity = 1
  MaxStock = 1
  MaxVersion = 5
  MaxEdits = 3
  MaxMoves = 3
INVARIANTS TypeOK ActiveOrdersServable ConsumedOnce StockIsLedger
PROPERTIES SnapshotsKept VersionsTell
CHECK_DEADLOCK FALSE
