------------------------------ MODULE OrderBook ------------------------------
(***************************************************************************)
(* The orders of one branch with the menu, the drink stock and the tables  *)
(* they depend on.  Each command of private.command_core is one database   *)
(* transaction; here it is one action that happens all at once.  Module    *)
(* OrderDesk runs the same commands statement by statement, with their row *)
(* locks, and is checked to implement this module.                         *)
(*                                                                         *)
(* A command carries the version its caller read, and private.             *)
(* expect_version refuses it when the row has moved on: a refused command  *)
(* changes nothing, so only the accepted ones are actions here.  Amounts   *)
(* of money are left to module Billing; a price is a value to be kept.     *)
(*                                                                         *)
(* A definition D_X is D with a plausible bug X; no action uses it.        *)
(***************************************************************************)
EXTENDS Integers, FiniteSets, Functions

CONSTANTS
  Dishes,      \* ids of menu items
  Drinks,      \* the dishes with a stock_ingredient_id: counted in pieces
  Prices,      \* selling prices
  Orders,      \* ids of orders
  Tables,      \* ids of dining tables
  NoTable,     \* table_id is null
  MaxQuantity, \* bound: pieces in one order line or one stock movement
  MaxStock,    \* bound: pieces in stock
  MaxVersion,  \* bound: version of an order
  MaxEdits,    \* bound: version of a menu item
  MaxMoves     \* bound: version of an ingredient

ASSUME DrinksAssumption == Drinks \subseteq Dishes
ASSUME PricesAssumption == Prices \subseteq Nat
ASSUME NoTableAssumption == NoTable \notin Tables
ASSUME OrdersAssumption == IsFiniteSet(Orders)
ASSUME BoundsAssumption ==
  /\ MaxQuantity \in Nat \ {0} /\ MaxStock \in Nat
  /\ MaxVersion \in Nat /\ MaxEdits \in Nat /\ MaxMoves \in Nat

VARIABLES
  dish,    \* rows of menu_items
  stock,   \* rows of ingredients, one for each drink
  ledger,  \* inventory_transactions of each drink, added up by kind
  order,   \* rows of orders, with their order_items and order_consumptions
  tables   \* ids of the rows of dining_tables

vars == <<dish, stock, ledger, order, tables>>

Quantity == 0..MaxQuantity
Active == {"pending", "preparing", "ready"}

NoDish == [state |-> "absent", price |-> 0, version |-> 0]
NoStock == [pieces |-> 0, active |-> FALSE, version |-> 0]
NoMoves == [purchase |-> 0, consumption |-> 0, wastage |-> 0, adjustment |-> 0]
NoLine == [quantity |-> 0, price |-> 0]
NoOrder == [status |-> "absent", version |-> 0, lines |-> [d \in Dishes |-> NoLine],
            table |-> NoTable, takenAt |-> NoTable, prepared |-> FALSE,
            used |-> [d \in Drinks |-> 0]]

\* is_active and deleted_at of a menu item are one state.
Dish == [state : {"absent", "active", "inactive", "deleted"},
         price : Prices \cup {0}, version : Nat]
Stock == [pieces : Nat, active : BOOLEAN, version : Nat]
Moves == [purchase : Nat, consumption : Nat, wastage : Nat, adjustment : Int]
Line == [quantity : Quantity, price : Prices \cup {0}]
\* table is the foreign key, takenAt stands for the snapshots of floor and table;
\* used adds up the order_consumptions.
Order == [status : {"absent", "completed", "cancelled"} \cup Active, version : Nat,
          lines : [Dishes -> Line], table : Tables \cup {NoTable},
          takenAt : Tables \cup {NoTable}, prepared : BOOLEAN, used : [Drinks -> Quantity]]

TypeOK ==
  /\ dish \in [Dishes -> Dish]
  /\ stock \in [Drinks -> Stock]
  /\ ledger \in [Drinks -> Moves]
  /\ order \in [Orders -> Order]
  /\ tables \in SUBSET Tables

\* A new branch, with its floor plan: no menu, no stock, no order.
Init ==
  /\ dish = [d \in Dishes |-> NoDish]
  /\ stock = [d \in Drinks |-> NoStock]
  /\ ledger = [d \in Drinks |-> NoMoves]
  /\ order = [o \in Orders |-> NoOrder]
  /\ tables \in SUBSET Tables

-----------------------------------------------------------------------------
\* The menu.

MenuCreate(d, p, s) ==
  /\ d \notin Drinks
  /\ dish[d].state = "absent"
  /\ dish' = [dish EXCEPT ![d] = [state |-> s, price |-> p, version |-> 1]]
  /\ UNCHANGED <<stock, ledger, order, tables>>

\* stock_product_create: the drink, its stock row and the first delivery.
StockProductCreate(d, p, q) ==
  /\ dish[d].state = "absent"
  /\ dish' = [dish EXCEPT ![d] = [state |-> "active", price |-> p, version |-> 1]]
  /\ stock' = [stock EXCEPT ![d] = [pieces |-> q, active |-> TRUE,
                                    version |-> IF q > 0 THEN 2 ELSE 1]]
  /\ ledger' = [ledger EXCEPT ![d] = [NoMoves EXCEPT !.purchase = q]]
  /\ UNCHANGED <<order, tables>>

Known(d) == dish[d].state \in {"active", "inactive"} /\ dish[d].version < MaxEdits

DishSet(d, s, p) ==
  /\ dish' = [dish EXCEPT ![d] = [state |-> s, price |-> p, version |-> @.version + 1]]
  /\ UNCHANGED <<stock, ledger, order, tables>>

MenuUpdate(d, p, s) == Known(d) /\ DishSet(d, s, p)
\* recipe_set: the recipe itself no longer constrains an order.
RecipeSet(d) == Known(d) /\ DishSet(d, dish[d].state, dish[d].price)

OnOrder(o, d) == order[o].lines[d].quantity > 0
ServedBy(d) == {o \in Orders : order[o].status \in Active /\ OnOrder(o, d)}

MenuDelete(d) ==
  /\ Known(d)
  /\ ServedBy(d) = {}
  /\ DishSet(d, "deleted", dish[d].price)

-----------------------------------------------------------------------------
\* The stock.

\* inventory_record, which stock_receive and stock_remove call: a purchase or
\* an adjustment of n pieces, or a wastage of -n.
Amount_Raw(kind, n) == n
Amount(kind, n) == IF kind = "wastage" THEN -n ELSE n
StockMoved(d, kind, n) ==
  /\ stock' = [stock EXCEPT ![d] = [stock[d] EXCEPT !.pieces = @ + n, !.version = @ + 1]]
  /\ ledger' = [ledger EXCEPT ![d] = [ledger[d] EXCEPT ![kind] = @ + Amount(kind, n)]]
  /\ UNCHANGED <<dish, order, tables>>
Movable(d, n) == /\ stock[d].version \in 1..(MaxMoves - 1)
                 /\ stock[d].pieces + n \in 0..MaxStock
InventoryRecord(d, kind, n) ==
  /\ n # 0 /\ (kind = "purchase" => n > 0) /\ (kind = "wastage" => n < 0)
  /\ Movable(d, n)
  /\ StockMoved(d, kind, n)

IngredientUpdate(d, active) ==
  /\ stock[d].version \in 1..(MaxMoves - 1)
  /\ stock' = [stock EXCEPT ![d] = [stock[d] EXCEPT !.active = active, !.version = @ + 1]]
  /\ UNCHANGED <<dish, ledger, order, tables>>

-----------------------------------------------------------------------------
\* The orders.  A basket maps each dish to the quantity asked for.

Baskets == {b \in [Dishes -> Quantity] : \E d \in Dishes : b[d] > 0}
OnMenu(b) == \A d \in Dishes : b[d] > 0 => dish[d].state = "active"

\* set_order_items: a dish that was on the order keeps its price.
KeptPrice_Never(old, d) == dish[d].price
KeptPrice(old, d) == IF old[d].quantity > 0 THEN old[d].price ELSE dish[d].price
Lines(old, b) ==
  [d \in Dishes |-> IF b[d] > 0 THEN [quantity |-> b[d], price |-> KeptPrice(old, d)]
                                ELSE NoLine]

Placed(o, b, t) ==
  /\ order' = [order EXCEPT ![o] =
                 [status |-> "pending", version |-> 1, lines |-> Lines(NoOrder.lines, b),
                  table |-> t, takenAt |-> t, prepared |-> FALSE,
                  used |-> [d \in Drinks |-> 0]]]
  /\ UNCHANGED <<dish, stock, ledger, tables>>
\* A table is required as soon as the branch has one.
OrderCreate(o, b, t) ==
  /\ order[o].status = "absent"
  /\ t \in tables \/ (t = NoTable /\ tables = {})
  /\ OnMenu(b)
  /\ Placed(o, b, t)

\* Without a table in the request the order keeps the one it has; a request
\* without items does not exist (OrderUpdate in orders/schemas.py).
Edited(o, b, t) ==
  /\ order' = [order EXCEPT ![o] =
                 [order[o] EXCEPT !.version = @ + 1, !.lines = Lines(@, b),
                                  !.table = IF t = NoTable THEN @ ELSE t,
                                  !.takenAt = IF t = NoTable THEN @ ELSE t]]
  /\ UNCHANGED <<dish, stock, ledger, tables>>
Editable(o) == order[o].status = "pending"
OrderUpdate(o, b, t) ==
  /\ Editable(o)
  /\ order[o].version < MaxVersion
  /\ t \in tables \cup {NoTable}
  /\ OnMenu(b)
  /\ Edited(o, b, t)

Enough_AnyStock(o) == TRUE
Enough(o) ==
  \A d \in Drinks : OnOrder(o, d) =>
    stock[d].active /\ stock[d].pieces >= order[o].lines[d].quantity

\* unique(order_item_id, ingredient_id) of order_consumptions.
Unconsumed(o) == \A d \in Drinks : OnOrder(o, d) => order[o].used[d] = 0

Countable(o) == \A d \in Drinks : OnOrder(o, d) => stock[d].version < MaxMoves

\* order_transition to preparing takes the drinks out of the stock.
Prepared(o) ==
  /\ stock' = [d \in Drinks |-> IF OnOrder(o, d)
                 THEN [stock[d] EXCEPT !.pieces = @ - order[o].lines[d].quantity,
                                       !.version = @ + 1]
                 ELSE stock[d]]
  /\ ledger' = [d \in Drinks |->
                 [ledger[d] EXCEPT !.consumption = @ + order[o].lines[d].quantity]]
  /\ order' = [order EXCEPT ![o] =
                 [order[o] EXCEPT
                    !.status = "preparing", !.version = @ + 1, !.prepared = TRUE,
                    !.used = [d \in Drinks |-> @[d] + order[o].lines[d].quantity]]]
  /\ UNCHANGED <<dish, tables>>
Preparable(o) == order[o].status = "pending"
Prepare(o) ==
  /\ Preparable(o)
  /\ order[o].version < MaxVersion
  /\ Countable(o)
  /\ Enough(o)
  /\ Unconsumed(o)
  /\ Prepared(o)

MoveTo_Returned(o, s) ==
  /\ order' = [order EXCEPT ![o] =
                 [order[o] EXCEPT !.status = s, !.version = @ + 1]]
  /\ IF s = "cancelled"
     THEN /\ stock' = [d \in Drinks |->
                         [stock[d] EXCEPT !.pieces = @ + order[o].used[d]]]
          /\ ledger' = [d \in Drinks |->
                          [ledger[d] EXCEPT !.consumption = @ - order[o].used[d]]]
     ELSE UNCHANGED <<stock, ledger>>
  /\ UNCHANGED <<dish, tables>>
MoveTo(o, s) ==
  /\ order' = [order EXCEPT ![o] =
                 [order[o] EXCEPT !.status = s, !.version = @ + 1]]
  /\ UNCHANGED <<dish, stock, ledger, tables>>

\* The statuses from which order_transition, or order_pay, moves to s.
Before_AnyStatus(s) == Active \cup {"completed"}
Before(s) == CASE s = "ready" -> {"preparing"}
               [] s = "completed" -> {"ready"}
               [] s = "cancelled" -> Active
\* To completed the way is order_pay; its cash is in module Billing.  What a
\* cancelled order took out of the stock is lost.
Transition(o, s) ==
  /\ order[o].status \in Before(s)
  /\ order[o].version < MaxVersion
  /\ MoveTo(o, s)

\* table_delete; the foreign key of every order at the table becomes null, and
\* the snapshots stay.
SeatedAt_PendingOnly(t) == {o \in Orders : order[o].table = t /\ order[o].status = "pending"}
SeatedAt(t) == {o \in Orders : order[o].table = t /\ order[o].status \in Active}
TableGone(t) ==
  /\ tables' = tables \ {t}
  /\ order' = [o \in Orders |-> IF order[o].table = t
                 THEN [order[o] EXCEPT !.table = NoTable] ELSE order[o]]
  /\ UNCHANGED <<dish, stock, ledger>>
TableDelete(t) == t \in tables /\ SeatedAt(t) = {} /\ TableGone(t)

-----------------------------------------------------------------------------
DishStep(d) ==
  \/ \E p \in Prices, s \in {"active", "inactive"} :
       MenuCreate(d, p, s) \/ MenuUpdate(d, p, s)
  \/ RecipeSet(d)
  \/ MenuDelete(d)

StockStep(d) ==
  \/ \E p \in Prices, q \in 0..MaxStock : StockProductCreate(d, p, q)
  \/ \E kind \in {"purchase", "wastage", "adjustment"}, n \in -MaxQuantity..MaxQuantity :
       InventoryRecord(d, kind, n)
  \/ \E active \in BOOLEAN : IngredientUpdate(d, active)

OrderStep(o) ==
  \/ \E b \in Baskets, t \in Tables \cup {NoTable} : OrderCreate(o, b, t) \/ OrderUpdate(o, b, t)
  \/ Prepare(o)
  \/ \E s \in {"ready", "completed", "cancelled"} : Transition(o, s)

Next ==
  \/ \E d \in Dishes : DishStep(d)
  \/ \E d \in Drinks : StockStep(d)
  \/ \E o \in Orders : OrderStep(o)
  \/ \E t \in Tables : TableDelete(t)

Spec == Init /\ [][Next]_vars

-----------------------------------------------------------------------------
\* Properties.

\* What the kitchen and the cashier still have to work on exists: the dishes of
\* an active order are not deleted, and the order is still at the table it was
\* last taken at, which is on the floor plan, whatever order the menu, the floor
\* plan and the orders were edited in (menu_delete, table_delete,
\* set_order_items).  A deleted table would leave the snapshot without its table.
ActiveOrdersServable ==
  \A o \in Orders : order[o].status \in Active =>
    /\ \A d \in Dishes : OnOrder(o, d) => dish[d].state \in {"active", "inactive"}
    /\ order[o].table = order[o].takenAt
    /\ order[o].table \in tables \cup {NoTable}

\* The stock on hand is what the inventory transactions add up to: the stock
\* page of a manager shows both and they agree (read_core, stock_products).
StockIsLedger ==
  \A d \in Drinks :
    stock[d].pieces = ledger[d].purchase + ledger[d].adjustment
                      - ledger[d].consumption - ledger[d].wastage

\* Drinks leave the stock exactly once for an order, when it is prepared, and
\* for what is on it: not for a pending order, not again later, not returned on
\* cancellation.  The order's lines still say what was consumed, and what the
\* ledger has ever recorded as consumed is what the orders have used, together
\* (order_transition, docs/database.md:5).
UsedAsOrdered(o) ==
  \A d \in Drinks :
    order[o].used[d] = IF order[o].prepared THEN order[o].lines[d].quantity ELSE 0
LedgerIsUsed(d) ==
  ledger[d].consumption = SumFunction([o \in Orders |-> order[o].used[d]])
ConsumedOnce ==
  /\ \A o \in Orders : UsedAsOrdered(o)
  /\ \A d \in Drinks : LedgerIsUsed(d)

\* An order that is prepared stays what it was: its dishes, quantities, price
\* snapshots and consumption never change; and as long as an order is edited, a
\* dish that stays on it keeps the price it was ordered at (docs/cashier.md:9).
KeepsSnapshot(o) ==
  /\ order[o].status \notin {"absent", "pending"} =>
       order'[o].lines = order[o].lines /\ order'[o].used = order[o].used
  /\ \A d \in Dishes : OnOrder(o, d) /\ order'[o].lines[d].quantity > 0 =>
       order'[o].lines[d].price = order[o].lines[d].price
SnapshotsKept == [][\A o \in Orders : KeepsSnapshot(o)]_vars

\* A version names one state of an order that is still worked on: every change
\* that another station could have read takes the next version, so that a
\* command based on an older reading is refused (expect_version).
CountsChange(o) ==
  /\ order'[o].version \in {order[o].version, order[o].version + 1}
  /\ order[o].status \in Active /\ order'[o] # order[o] =>
       order'[o].version = order[o].version + 1
  /\ order[o].status \in {"completed", "cancelled"} =>
       order'[o].status = order[o].status
VersionsTell == [][\A o \in Orders : CountsChange(o)]_vars

=============================================================================
