SPECIFICATION DeskSpec
CONSTANTS
  cola = cola
  soda = soda
  meal = meal
  Dishes <- MCDishes
  Drinks <- MCDishes
  ById <- MCById
  Carts <- MCCarts
  Movements = {}
  Recipes = {}
  MaxQuantity = 1
  Orders = {o1}
  Tables = {t1}
  NoTable = none
  Prices = {1}
  MaxStock = 1
  MaxVersion = 3
  MaxEdits = 3
  MaxMoves = 3
  Sessions = {s1, s2}
  Sent = {"order_create", "order_update", "order_transition", "menu_update", "menu_delete", "table_delete"}
SYMMETRY Symmetry
INVARIANTS DecidedOnLatest
PROPERTIES ImplementsOrderBook
CHECK_DEADLOCK FALSE
