SPECIFICATION FairSpec
CONSTANTS
  cola = cola
  soda = soda
  meal = meal
  Dishes <- MCMenu
  Drinks <- MCDishes
  ById <- MCMenuById
  Carts <- MCRoundOfDrinks
  Movements <- MCMovements
  Recipes <- MCRecipes
  MaxQuantity = 1
  Orders = {o1, o2}
  Tables = {}
  NoTable = none
  Prices = {1}
  MaxStock = 1
  MaxVersion = 2
  MaxEdits = 2
  MaxMoves = 2
  Sessions = {s1, s2}
  Sent = {"order_create", "order_transition", "inventory_record", "recipe_set"}
INVARIANTS OnlyRecipesDeadlock
PROPERTIES EveryCommandEnds
CHECK_DEADLOCK FALSE
