--------------------------- MODULE OrderDeskProofs ---------------------------
(***************************************************************************)
(* Proofs about modules OrderBook and OrderDesk, for any menu, stock,      *)
(* floor plan, number of orders and number of sessions.                    *)
(*                                                                         *)
(* The first part is about the book alone.  Its inductive invariant adds   *)
(* to the properties what the status of an order says about the rest of    *)
(* it: an order that is not placed is blank, it has been prepared exactly  *)
(* from "preparing" on, and what is on it has been on the menu.            *)
(*                                                                         *)
(* The second part shows that the interleaved transactions of the desk     *)
(* implement the book.  Its inductive invariant says what a transaction    *)
(* that is still open may rely on: the locks it needs are held or still to *)
(* be taken, no two sessions hold conflicting ones, and whatever it has    *)
(* found under a lock it would find again.                                 *)
(*                                                                         *)
(* The last part adds up, over all the orders, what the ledger has         *)
(* recorded as consumed.                                                   *)
(***************************************************************************)
EXTENDS OrderDesk, TLAPS, FiniteSetTheorems

-----------------------------------------------------------------------------
\* The book.

StatusFits ==
  \A o \in Orders :
    /\ order[o].status = "absent" =>
         order[o].version = 0 /\ \A d \in Dishes : ~OnOrder(o, d)
    /\ order[o].status \in {"absent", "pending"} => ~order[o].prepared

DishesExist ==
  \A o \in Orders, d \in Dishes : OnOrder(o, d) => dish[d].state # "absent"

UsedFits == \A o \in Orders : UsedAsOrdered(o)

BookInv == /\ TypeOK /\ StatusFits /\ DishesExist
           /\ ActiveOrdersServable /\ StockIsLedger /\ UsedFits

\* The assumptions on the constants, together.
LEMMA BookConstants ==
  /\ Drinks \subseteq Dishes /\ Prices \subseteq Nat /\ NoTable \notin Tables
  /\ MaxQuantity \in Nat \ {0} /\ MaxStock \in Nat
  /\ MaxVersion \in Nat /\ MaxEdits \in Nat /\ MaxMoves \in Nat
BY DrinksAssumption, PricesAssumption, NoTableAssumption, BoundsAssumption

USE BookConstants

-----------------------------------------------------------------------------
\* The lines that set_order_items writes: well formed, and on the menu.
LEMMA LinesWritten ==
  ASSUME dish \in [Dishes -> Dish],
         NEW old \in [Dishes -> Line], NEW b \in Baskets
  PROVE  /\ Lines(old, b) \in [Dishes -> Line]
         /\ \A d \in Dishes : Lines(old, b)[d].quantity = b[d]
         /\ \A d \in Dishes : old[d].quantity > 0 /\ b[d] > 0 =>
              Lines(old, b)[d].price = old[d].price
<1>1. b \in [Dishes -> Quantity] BY DEF Baskets
<1>2. \A d \in Dishes : KeptPrice(old, d) \in Prices \cup {0}
  BY DEF KeptPrice, Dish, Line
<1>3. NoLine \in Line BY DEF NoLine, Line, Quantity
<1>4. ASSUME NEW d \in Dishes, b[d] > 0
      PROVE  /\ Lines(old, b)[d] = [quantity |-> b[d], price |-> KeptPrice(old, d)]
             /\ Lines(old, b)[d] \in Line
  BY <1>1, <1>2, <1>4 DEF Lines, Line
<1>5. ASSUME NEW d \in Dishes, ~(b[d] > 0)
      PROVE  /\ Lines(old, b)[d] = NoLine
             /\ Lines(old, b)[d] \in Line
             /\ b[d] = 0
  BY <1>1, <1>3, <1>5 DEF Lines, Quantity
<1>6. Lines(old, b) \in [Dishes -> Line] BY <1>4, <1>5 DEF Lines
<1> QED BY <1>4, <1>5, <1>6 DEF NoLine, KeptPrice

LEMMA InitBookInv == Init => BookInv
<1> SUFFICES ASSUME Init PROVE BookInv OBVIOUS
<1>1. NoDish \in Dish BY DEF NoDish, Dish
<1>2. NoStock \in Stock BY DEF NoStock, Stock
<1>3. NoMoves \in Moves BY DEF NoMoves, Moves
<1>4. [d \in Dishes |-> NoLine] \in [Dishes -> Line]
  BY DEF NoLine, Line, Quantity
<1>5. [d \in Drinks |-> 0] \in [Drinks -> Quantity] BY DEF Quantity
<1>6. NoOrder \in Order BY <1>4, <1>5 DEF NoOrder, Order
<1>7. TypeOK BY <1>1, <1>2, <1>3, <1>6 DEF Init, TypeOK
<1>8. \A o \in Orders : order[o] = NoOrder BY DEF Init
<1>9. StatusFits BY <1>8 DEF StatusFits, NoOrder, OnOrder, NoLine
<1>10. ActiveOrdersServable
  BY <1>8 DEF ActiveOrdersServable, NoOrder, Active
<1>11. StockIsLedger BY DEF Init, StockIsLedger, NoStock, NoMoves
<1>12. UsedFits BY <1>8 DEF UsedFits, UsedAsOrdered, NoOrder
<1>13. DishesExist BY <1>8 DEF DishesExist, NoOrder, OnOrder, NoLine
<1> QED BY <1>7, <1>9, <1>10, <1>11, <1>12, <1>13 DEF BookInv

-----------------------------------------------------------------------------
\* The menu: one row moves to a state that no active order objects to.
LEMMA DishStepBookInv ==
  ASSUME BookInv, NEW d \in Dishes, NEW row \in Dish,
         row.state # "absent",
         row.state \notin {"active", "inactive"} => ServedBy(d) = {},
         dish' = [dish EXCEPT ![d] = row], UNCHANGED <<stock, ledger, order, tables>>
  PROVE  BookInv'
<1>1. TypeOK' BY DEF BookInv, TypeOK
<1>2. ActiveOrdersServable'
  <2> SUFFICES ASSUME NEW o \in Orders, order[o].status \in Active,
                      NEW e \in Dishes, OnOrder(o, e)
               PROVE  dish'[e].state \in {"active", "inactive"}
    BY DEF ActiveOrdersServable, OnOrder, BookInv
  <2>1. o \in ServedBy(e) BY DEF ServedBy
  <2>2. dish[e].state \in {"active", "inactive"} BY DEF BookInv, ActiveOrdersServable
  <2> QED BY <2>1, <2>2 DEF BookInv, TypeOK
<1>3. DishesExist' BY DEF BookInv, TypeOK, DishesExist, OnOrder
<1> QED BY <1>1, <1>2, <1>3 DEF BookInv, StatusFits, OnOrder, StockIsLedger, UsedFits,
                                UsedAsOrdered

\* The stock: pieces and ledger of one drink move together.
LEMMA StockStepBookInv ==
  ASSUME BookInv, NEW d \in Drinks, NEW row \in Stock, NEW moves \in Moves,
         row.pieces = moves.purchase + moves.adjustment - moves.consumption - moves.wastage,
         stock' = [stock EXCEPT ![d] = row], ledger' = [ledger EXCEPT ![d] = moves],
         UNCHANGED <<dish, order, tables>>
  PROVE  BookInv'
<1>1. TypeOK' BY DEF BookInv, TypeOK
<1>2. StockIsLedger' BY DEF BookInv, TypeOK, StockIsLedger
<1> QED BY <1>1, <1>2 DEF BookInv, StatusFits, DishesExist, ActiveOrdersServable, OnOrder,
                          UsedFits, UsedAsOrdered

\* The orders: one row moves to another that the menu and the floor can serve.
LEMMA OrderStepBookInv ==
  ASSUME BookInv, NEW o \in Orders, NEW row \in Order,
         order' = [order EXCEPT ![o] = row], UNCHANGED <<dish, stock, ledger, tables>>,
         row.status # "absent",
         row.status = "pending" => ~row.prepared,
         \A d \in Drinks :
           row.used[d] = IF row.prepared THEN row.lines[d].quantity ELSE 0,
         \A d \in Dishes : row.lines[d].quantity > 0 => dish[d].state # "absent",
         row.status \in Active =>
           /\ \A d \in Dishes : row.lines[d].quantity > 0 =>
                dish[d].state \in {"active", "inactive"}
           /\ row.table = row.takenAt /\ row.table \in tables \cup {NoTable}
  PROVE  BookInv'
<1>1. order'[o] = row /\ \A p \in Orders \ {o} : order'[p] = order[p]
  BY DEF BookInv, TypeOK
<1>2. TypeOK' BY DEF BookInv, TypeOK
<1>3. StatusFits' BY <1>1 DEF BookInv, StatusFits, OnOrder
<1>4. ActiveOrdersServable'
  BY <1>1 DEF BookInv, ActiveOrdersServable, OnOrder
<1>5. UsedFits' BY <1>1 DEF BookInv, UsedFits, UsedAsOrdered
<1>6. DishesExist' BY <1>1 DEF BookInv, DishesExist, OnOrder
<1> QED BY <1>2, <1>3, <1>4, <1>5, <1>6 DEF BookInv, StockIsLedger

LEMMA PlacedBookInv ==
  ASSUME BookInv, NEW o \in Orders, NEW b \in Baskets,
         NEW t \in Tables \cup {NoTable},
         OrderCreate(o, b, t)
  PROVE  BookInv'
<1> DEFINE lines == Lines(NoOrder.lines, b)
           row == [status |-> "pending", version |-> 1, lines |-> lines, table |-> t,
                   takenAt |-> t, prepared |-> FALSE, used |-> [d \in Drinks |-> 0]]
<1>1. NoOrder.lines \in [Dishes -> Line]
  BY DEF NoOrder, NoLine, Line, Quantity
<1>2. lines \in [Dishes -> Line] /\ \A d \in Dishes : lines[d].quantity = b[d]
  BY <1>1, LinesWritten DEF BookInv, TypeOK
<1>3. order' = [order EXCEPT ![o] = row] /\ UNCHANGED <<dish, stock, ledger, tables>>
  BY DEF OrderCreate, Placed
<1>4. t \in tables \cup {NoTable} /\ \A d \in Dishes : b[d] > 0 => dish[d].state = "active"
  BY DEF OrderCreate, OnMenu
<1> HIDE DEF lines
<1>5. [d \in Drinks |-> 0] \in [Drinks -> Quantity] BY DEF Quantity
<1>6. row \in Order BY <1>2, <1>5 DEF Order, Active
<1>7. /\ row.status = "pending" /\ row.lines = lines /\ row.table = t /\ row.takenAt = t
      /\ row.prepared = FALSE /\ \A d \in Drinks : row.used[d] = 0
  OBVIOUS
<1> HIDE DEF row
<1> QED BY <1>2, <1>3, <1>4, <1>6, <1>7, OrderStepBookInv

LEMMA EditedBookInv ==
  ASSUME BookInv, NEW o \in Orders, NEW b \in Baskets,
         NEW t \in Tables \cup {NoTable},
         OrderUpdate(o, b, t)
  PROVE  BookInv'
<1> DEFINE lines == Lines(order[o].lines, b)
           table == IF t = NoTable THEN order[o].table ELSE t
           takenAt == IF t = NoTable THEN order[o].takenAt ELSE t
<1>1. order[o] \in Order /\ order[o].status = "pending" /\ ~order[o].prepared
  BY DEF OrderUpdate, Editable, BookInv, TypeOK, StatusFits
<1>2. lines \in [Dishes -> Line] /\ \A d \in Dishes : lines[d].quantity = b[d]
  BY <1>1, LinesWritten DEF BookInv, TypeOK, Order
<1>3. /\ table \in tables \cup {NoTable} /\ table \in Tables \cup {NoTable}
      /\ takenAt = table
  BY <1>1 DEF OrderUpdate, BookInv, ActiveOrdersServable, Active, TypeOK
<1> DEFINE row == [order[o] EXCEPT !.version = @ + 1, !.lines = lines, !.table = table,
                                   !.takenAt = takenAt]
<1>4. order' = [order EXCEPT ![o] = row] /\ UNCHANGED <<dish, stock, ledger, tables>>
  BY <1>1 DEF OrderUpdate, Edited, BookInv, TypeOK, Order
<1> HIDE DEF lines, table, takenAt
<1>5. order[o].version + 1 \in Nat /\ "pending" \in Active
  BY <1>1 DEF Order, Active
<1>6. row \in Order BY <1>1, <1>2, <1>3, <1>5, Zenon DEF Order
<1>7. \A d \in Drinks : row.used[d] = 0
  BY <1>1 DEF BookInv, UsedFits, UsedAsOrdered, Order
<1>8. \A d \in Dishes : b[d] > 0 => dish[d].state = "active"
  BY DEF OrderUpdate, OnMenu
<1>9. /\ row.status = "pending" /\ row.prepared = FALSE /\ row.lines = lines
      /\ row.table = table /\ row.takenAt = table
  BY <1>1, <1>3 DEF Order
<1> HIDE DEF row
<1> QED BY <1>2, <1>3, <1>4, <1>6, <1>7, <1>8, <1>9, OrderStepBookInv

LEMMA MovedBookInv ==
  ASSUME BookInv, NEW o \in Orders, NEW s \in {"ready", "completed", "cancelled"},
         Transition(o, s)
  PROVE  BookInv'
<1>1. order[o] \in Order /\ order[o].status \in Active
  BY DEF Transition, Before, Active, BookInv, TypeOK
<1> DEFINE row == [order[o] EXCEPT !.status = s, !.version = @ + 1]
<1>2. order' = [order EXCEPT ![o] = row] /\ UNCHANGED <<dish, stock, ledger, tables>>
  BY <1>1 DEF Transition, MoveTo, BookInv, TypeOK
<1>3. order[o].version + 1 \in Nat /\ s \in {"completed", "cancelled"} \cup Active
  BY <1>1 DEF Order, Active
<1>4. row \in Order BY <1>1, <1>3, Zenon DEF Order
<1>5. /\ row.status = s /\ row.prepared = order[o].prepared /\ row.lines = order[o].lines
      /\ row.table = order[o].table /\ row.takenAt = order[o].takenAt
      /\ row.used = order[o].used
  BY <1>1 DEF Order
<1> HIDE DEF row
<1>6. \A d \in Drinks :
        row.used[d] = IF row.prepared THEN row.lines[d].quantity ELSE 0
  BY <1>5 DEF BookInv, UsedFits, UsedAsOrdered
<1>7. /\ \A d \in Dishes : row.lines[d].quantity > 0 =>
           dish[d].state \in {"active", "inactive"}
      /\ row.table = row.takenAt /\ row.table \in tables \cup {NoTable}
  BY <1>1, <1>5 DEF BookInv, ActiveOrdersServable, OnOrder
<1>8. \A d \in Dishes : row.lines[d].quantity > 0 => dish[d].state # "absent"
  BY <1>5 DEF BookInv, DishesExist, OnOrder
<1> QED BY <1>2, <1>4, <1>5, <1>6, <1>7, <1>8, OrderStepBookInv

\* The drinks an order takes are those of its lines, and the stock holds them.
LEMMA PreparedBookInv ==
  ASSUME BookInv, NEW o \in Orders, Prepare(o)
  PROVE  BookInv'
<1> DEFINE used == [d \in Drinks |-> order[o].used[d] + order[o].lines[d].quantity]
           row == [order[o] EXCEPT !.status = "preparing", !.version = @ + 1,
                                   !.prepared = TRUE, !.used = used]
<1>1. /\ order[o] \in Order /\ order[o].status = "pending"
      /\ ~order[o].prepared /\ order[o].version + 1 \in Nat
      /\ \A d \in Dishes : order[o].lines[d].quantity \in Nat
  BY DEF Prepare, Preparable, BookInv, TypeOK, StatusFits, Order, Line, Quantity
<1>2. /\ order' = [order EXCEPT ![o] = row] /\ UNCHANGED <<dish, tables>>
      /\ stock' = [d \in Drinks |-> IF OnOrder(o, d)
                     THEN [stock[d] EXCEPT !.pieces = @ - order[o].lines[d].quantity,
                                           !.version = @ + 1]
                     ELSE stock[d]]
      /\ ledger' = [d \in Drinks |->
                     [ledger[d] EXCEPT !.consumption = @ + order[o].lines[d].quantity]]
  BY DEF Prepare, Prepared
<1>3. /\ used \in [Drinks -> Quantity]
      /\ \A d \in Drinks : used[d] = order[o].lines[d].quantity
  <2>1. \A d \in Drinks : order[o].used[d] = 0 BY <1>1 DEF BookInv, UsedFits, UsedAsOrdered
  <2>2. \A d \in Drinks : used[d] = order[o].lines[d].quantity BY <1>1, <2>1
  <2> QED BY <1>1, <2>2 DEF Order, Line
<1> HIDE DEF used
<1>4. row \in Order BY <1>1, <1>3, Zenon DEF Order, Active
<1>5. /\ row.status = "preparing" /\ row.prepared = TRUE /\ row.lines = order[o].lines
      /\ row.table = order[o].table /\ row.takenAt = order[o].takenAt /\ row.used = used
  BY <1>1 DEF Order
<1> HIDE DEF row
<1>6. order'[o] = row /\ \A p \in Orders \ {o} : order'[p] = order[p]
  BY <1>2 DEF BookInv, TypeOK
<1>7. \A d \in Drinks :
        /\ stock'[d] \in Stock /\ ledger'[d] \in Moves
        /\ stock'[d].pieces = ledger'[d].purchase + ledger'[d].adjustment
                              - ledger'[d].consumption - ledger'[d].wastage
  <2> SUFFICES ASSUME NEW d \in Drinks
               PROVE  /\ stock'[d] \in Stock /\ ledger'[d] \in Moves
                      /\ stock'[d].pieces = ledger'[d].purchase + ledger'[d].adjustment
                                            - ledger'[d].consumption - ledger'[d].wastage
    OBVIOUS
  <2> DEFINE n == order[o].lines[d].quantity
  <2>1. n \in Nat BY <1>1
  <2>2. OnOrder(o, d) <=> n > 0 BY DEF OnOrder
  <2>3. n > 0 => stock[d].pieces >= n BY <2>2 DEF Prepare, Enough
  <2>4. /\ stock'[d] = IF n > 0
                         THEN [stock[d] EXCEPT !.pieces = @ - n, !.version = @ + 1]
                         ELSE stock[d]
        /\ ledger'[d] = [ledger[d] EXCEPT !.consumption = @ + n]
    BY <1>2, <2>2
  <2> HIDE DEF n
  <2>5. stock[d] \in Stock /\ ledger[d] \in Moves BY DEF BookInv, TypeOK
  <2>6. stock[d].pieces = ledger[d].purchase + ledger[d].adjustment
                          - ledger[d].consumption - ledger[d].wastage
    BY DEF BookInv, StockIsLedger
  <2>7. ledger'[d] \in Moves BY <2>1, <2>4, <2>5 DEF Moves
  <2>8. /\ ledger'[d].consumption = ledger[d].consumption + n
        /\ ledger'[d].purchase = ledger[d].purchase
        /\ ledger'[d].adjustment = ledger[d].adjustment
        /\ ledger'[d].wastage = ledger[d].wastage
    BY <2>4, <2>5 DEF Moves
  <2>9. stock'[d] \in Stock /\ stock'[d].pieces = stock[d].pieces - n
    <3>1. CASE n > 0
      <4>1. stock[d].pieces - n \in Nat /\ stock[d].version + 1 \in Nat
        BY <2>1, <2>3, <2>5, <3>1 DEF Stock
      <4>2. stock'[d] = [stock[d] EXCEPT !.pieces = @ - n, !.version = @ + 1]
        BY <2>4, <3>1
      <4>3. stock'[d] \in Stock BY <2>5, <4>1, <4>2, Zenon DEF Stock
      <4>4. stock'[d].pieces = stock[d].pieces - n BY <2>5, <4>2 DEF Stock
      <4> QED BY <4>3, <4>4
    <3>2. CASE ~(n > 0)
      BY <2>1, <2>4, <2>5, <3>2 DEF Stock
    <3> QED BY <3>1, <3>2
  <2> QED BY <2>1, <2>5, <2>6, <2>7, <2>8, <2>9 DEF Stock, Moves
<1>8. TypeOK'
  <2>1. stock' \in [Drinks -> Stock] /\ ledger' \in [Drinks -> Moves]
    <3>1. stock' = [d \in Drinks |-> stock'[d]] /\ ledger' = [d \in Drinks |-> ledger'[d]]
      BY <1>2
    <3> QED BY <1>7, <3>1
  <2>2. order' \in [Orders -> Order] BY <1>2, <1>4 DEF BookInv, TypeOK
  <2> QED BY <1>2, <2>1, <2>2 DEF BookInv, TypeOK
<1>9. StatusFits' BY <1>5, <1>6 DEF BookInv, StatusFits, OnOrder
<1>10. \A p \in Orders :
         /\ order'[p].lines = order[p].lines /\ order'[p].table = order[p].table
         /\ order'[p].takenAt = order[p].takenAt
         /\ order'[p].status \in Active => order[p].status \in Active
  BY <1>1, <1>5, <1>6 DEF Active
<1>11. StockIsLedger' BY <1>7 DEF StockIsLedger
<1>12. UsedFits' BY <1>3, <1>5, <1>6 DEF BookInv, UsedFits, UsedAsOrdered
<1>13. DishesExist' BY <1>2, <1>10 DEF BookInv, DishesExist, OnOrder
<1>14. ActiveOrdersServable' BY <1>2, <1>10 DEF BookInv, ActiveOrdersServable, OnOrder
<1> QED BY <1>8, <1>9, <1>11, <1>12, <1>13, <1>14 DEF BookInv

\* A table goes when no active order has it; the past orders forget it.
LEMMA TableGoneBookInv ==
  ASSUME BookInv, NEW t \in Tables, TableDelete(t)
  PROVE  BookInv'
<1>1. /\ tables' = tables \ {t} /\ UNCHANGED <<dish, stock, ledger>>
      /\ order' = [o \in Orders |-> IF order[o].table = t
                     THEN [order[o] EXCEPT !.table = NoTable] ELSE order[o]]
  BY DEF TableDelete, TableGone
<1>2. \A o \in Orders :
        /\ order'[o] \in Order
        /\ order'[o].status = order[o].status /\ order'[o].version = order[o].version
        /\ order'[o].lines = order[o].lines /\ order'[o].used = order[o].used
        /\ order'[o].prepared = order[o].prepared
        /\ order'[o].takenAt = order[o].takenAt
        /\ order[o].table # t => order'[o].table = order[o].table
  <2> SUFFICES ASSUME NEW o \in Orders
               PROVE  /\ order'[o] \in Order
                      /\ order'[o].status = order[o].status
                      /\ order'[o].version = order[o].version
                      /\ order'[o].lines = order[o].lines /\ order'[o].used = order[o].used
                      /\ order'[o].prepared = order[o].prepared
                      /\ order'[o].takenAt = order[o].takenAt
                      /\ order[o].table # t => order'[o].table = order[o].table
    OBVIOUS
  <2>1. order[o] \in Order BY DEF BookInv, TypeOK
  <2>2. order'[o] = IF order[o].table = t
                      THEN [order[o] EXCEPT !.table = NoTable] ELSE order[o]
    BY <1>1
  <2> QED BY <2>1, <2>2 DEF Order
<1>3. \A o \in Orders : order[o].status \in Active => order[o].table # t
  BY DEF TableDelete, SeatedAt
<1>4. TypeOK'
  <2>1. order' = [o \in Orders |-> order'[o]] BY <1>1
  <2>2. order' \in [Orders -> Order] BY <1>2, <2>1
  <2> QED BY <1>1, <2>2 DEF BookInv, TypeOK
<1>5. StatusFits' BY <1>2 DEF BookInv, StatusFits, OnOrder
<1>6. ActiveOrdersServable'
  BY <1>1, <1>2, <1>3 DEF BookInv, ActiveOrdersServable, OnOrder
<1>7. StockIsLedger' BY <1>1 DEF BookInv, StockIsLedger
<1>8. UsedFits' BY <1>2 DEF BookInv, UsedFits, UsedAsOrdered
<1>9. DishesExist' BY <1>1, <1>2 DEF BookInv, DishesExist, OnOrder
<1> QED BY <1>4, <1>5, <1>6, <1>7, <1>8, <1>9 DEF BookInv

-----------------------------------------------------------------------------
LEMMA DishCommandBookInv ==
  ASSUME BookInv, NEW d \in Dishes, DishStep(d)
  PROVE  BookInv'
<1>1. /\ dish[d] \in Dish /\ dish[d].version + 1 \in Nat
      /\ dish[d].price \in Prices \cup {0}
  BY DEF BookInv, TypeOK, Dish
<1>2. ASSUME NEW s, NEW p, DishSet(d, s, p), p \in Prices \cup {0},
             s \in {"active", "inactive", "deleted"}, s = "deleted" => ServedBy(d) = {}
      PROVE  BookInv'
  <2> DEFINE row == [state |-> s, price |-> p, version |-> dish[d].version + 1]
  <2>1. row \in Dish /\ row.state = s BY <1>1, <1>2 DEF Dish
  <2>2. dish' = [dish EXCEPT ![d] = row] /\ UNCHANGED <<stock, ledger, order, tables>>
    BY <1>2 DEF DishSet
  <2> HIDE DEF row
  <2> QED BY <1>2, <2>1, <2>2, DishStepBookInv
<1>3. ASSUME NEW p \in Prices, NEW s \in {"active", "inactive"}, MenuCreate(d, p, s)
      PROVE  BookInv'
  <2> DEFINE row == [state |-> s, price |-> p, version |-> 1]
  <2>1. row \in Dish /\ row.state = s BY DEF Dish
  <2>2. dish' = [dish EXCEPT ![d] = row] /\ UNCHANGED <<stock, ledger, order, tables>>
    BY <1>3 DEF MenuCreate
  <2> HIDE DEF row
  <2> QED BY <2>1, <2>2, DishStepBookInv
<1>4. ASSUME NEW p \in Prices, NEW s \in {"active", "inactive"}, MenuUpdate(d, p, s)
      PROVE  BookInv'
  BY <1>2, <1>4 DEF MenuUpdate
<1>5. CASE RecipeSet(d) BY <1>1, <1>2, <1>5 DEF RecipeSet, Known
<1>6. CASE MenuDelete(d) BY <1>1, <1>2, <1>6 DEF MenuDelete
<1> QED BY <1>3, <1>4, <1>5, <1>6 DEF DishStep

\* stock_product_create is a step of the menu and a step of the stock at once.
LEMMA StockProductBookInv ==
  ASSUME BookInv, NEW d \in Drinks, NEW p \in Prices, NEW q \in 0..MaxStock,
         StockProductCreate(d, p, q)
  PROVE  BookInv'
<1> DEFINE dishRow == [state |-> "active", price |-> p, version |-> 1]
           stockRow == [pieces |-> q, active |-> TRUE, version |-> IF q > 0 THEN 2 ELSE 1]
           moves == [NoMoves EXCEPT !.purchase = q]
<1>1. /\ dish' = [dish EXCEPT ![d] = dishRow] /\ stock' = [stock EXCEPT ![d] = stockRow]
      /\ ledger' = [ledger EXCEPT ![d] = moves] /\ UNCHANGED <<order, tables>>
  BY DEF StockProductCreate
<1>2. dishRow \in Dish /\ stockRow \in Stock /\ moves \in Moves
  BY DEF Dish, Stock, NoMoves, Moves, Quantity
<1>3. /\ dishRow.state = "active" /\ stockRow.pieces = q /\ moves.purchase = q
      /\ moves.adjustment = 0 /\ moves.consumption = 0 /\ moves.wastage = 0
  BY DEF NoMoves
<1> HIDE DEF dishRow, stockRow, moves
<1>4. TypeOK' BY <1>1, <1>2 DEF BookInv, TypeOK
<1>5. ActiveOrdersServable'
  BY <1>1, <1>3 DEF BookInv, TypeOK, ActiveOrdersServable, OnOrder
<1>6. StockIsLedger'
  BY <1>1, <1>3 DEF BookInv, TypeOK, StockIsLedger
<1>7. DishesExist' BY <1>1, <1>3 DEF BookInv, TypeOK, DishesExist, OnOrder
<1> QED BY <1>1, <1>4, <1>5, <1>6, <1>7 DEF BookInv, StatusFits, OnOrder, UsedFits,
                                            UsedAsOrdered

LEMMA RecordedBookInv ==
  ASSUME BookInv, NEW d \in Drinks, NEW kind \in {"purchase", "wastage", "adjustment"},
         NEW n \in -MaxQuantity..MaxQuantity, InventoryRecord(d, kind, n)
  PROVE  BookInv'
<1> DEFINE stockRow == [stock[d] EXCEPT !.pieces = @ + n, !.version = @ + 1]
           moves == [ledger[d] EXCEPT ![kind] = @ + Amount(kind, n)]
<1>1. stock[d] \in Stock /\ ledger[d] \in Moves /\ n \in Int
  BY DEF BookInv, TypeOK
<1>2. stock[d].pieces + n \in Nat /\ stock[d].version + 1 \in Nat
  BY <1>1 DEF InventoryRecord, Movable, Stock
<1>3. /\ stock' = [stock EXCEPT ![d] = stockRow] /\ ledger' = [ledger EXCEPT ![d] = moves]
      /\ UNCHANGED <<dish, order, tables>>
  BY DEF InventoryRecord, StockMoved
<1>4. stockRow \in Stock BY <1>1, <1>2, Zenon DEF Stock
<1>5. stockRow.pieces = stock[d].pieces + n BY <1>1 DEF Stock
<1>6. stock[d].pieces = ledger[d].purchase + ledger[d].adjustment
                        - ledger[d].consumption - ledger[d].wastage
  BY DEF BookInv, StockIsLedger
<1>7. /\ moves \in Moves
      /\ stockRow.pieces = moves.purchase + moves.adjustment
                           - moves.consumption - moves.wastage
  <2> HIDE DEF stockRow
  <2>1. CASE kind = "purchase"
    <3>1. moves = [ledger[d] EXCEPT !.purchase = @ + n] BY <2>1 DEF Amount
    <3>2. n > 0 BY <2>1 DEF InventoryRecord
    <3> QED BY <1>1, <1>5, <1>6, <3>1, <3>2 DEF Moves
  <2>2. CASE kind = "adjustment"
    <3>1. moves = [ledger[d] EXCEPT !.adjustment = @ + n] BY <2>2 DEF Amount
    <3> QED BY <1>1, <1>5, <1>6, <3>1 DEF Moves
  <2>3. CASE kind = "wastage"
    <3>1. moves = [ledger[d] EXCEPT !.wastage = @ + (-n)] BY <2>3 DEF Amount
    <3>2. n < 0 BY <2>3 DEF InventoryRecord
    <3> QED BY <1>1, <1>5, <1>6, <3>1, <3>2 DEF Moves
  <2> QED BY <2>1, <2>2, <2>3
<1> HIDE DEF stockRow, moves
<1> QED BY <1>3, <1>4, <1>7, StockStepBookInv

LEMMA IngredientBookInv ==
  ASSUME BookInv, NEW d \in Drinks, NEW active \in BOOLEAN, IngredientUpdate(d, active)
  PROVE  BookInv'
<1> DEFINE row == [stock[d] EXCEPT !.active = active, !.version = @ + 1]
<1>1. stock[d] \in Stock /\ ledger[d] \in Moves BY DEF BookInv, TypeOK
<1>2. stock[d].version + 1 \in Nat BY <1>1 DEF Stock
<1>3. row \in Stock BY <1>1, <1>2, Zenon DEF Stock
<1>4. row.pieces = stock[d].pieces BY <1>1 DEF Stock
<1>5. stock' = [stock EXCEPT ![d] = row] /\ UNCHANGED <<dish, ledger, order, tables>>
  BY DEF IngredientUpdate
<1> HIDE DEF row
<1>6. ledger' = [ledger EXCEPT ![d] = ledger[d]] BY <1>5 DEF BookInv, TypeOK
<1>7. row.pieces = ledger[d].purchase + ledger[d].adjustment
                   - ledger[d].consumption - ledger[d].wastage
  BY <1>4 DEF BookInv, StockIsLedger
<1> QED BY <1>1, <1>3, <1>5, <1>6, <1>7, StockStepBookInv

LEMMA NextBookInv == BookInv /\ [Next]_vars => BookInv'
<1> SUFFICES ASSUME BookInv, [Next]_vars PROVE BookInv' OBVIOUS
<1>1. CASE UNCHANGED vars
  BY <1>1 DEF vars, BookInv, TypeOK, StatusFits, DishesExist, ActiveOrdersServable,
              StockIsLedger, UsedFits, UsedAsOrdered, OnOrder
<1>2. ASSUME NEW d \in Dishes, DishStep(d) PROVE BookInv' BY <1>2, DishCommandBookInv
<1>3. ASSUME NEW d \in Drinks, StockStep(d) PROVE BookInv'
  BY <1>3, StockProductBookInv, RecordedBookInv, IngredientBookInv DEF StockStep
<1>4. ASSUME NEW o \in Orders, OrderStep(o) PROVE BookInv'
  BY <1>4, PlacedBookInv, EditedBookInv, PreparedBookInv, MovedBookInv DEF OrderStep
<1>5. ASSUME NEW t \in Tables, TableDelete(t) PROVE BookInv'
  BY <1>5, TableGoneBookInv
<1> QED BY <1>1, <1>2, <1>3, <1>4, <1>5 DEF Next

-----------------------------------------------------------------------------
\* What a step may do to one order.
RowStep(o) == KeepsSnapshot(o) /\ CountsChange(o)

LEMMA UntouchedRow ==
  ASSUME NEW o \in Orders, order'[o] = order[o]
  PROVE  RowStep(o)
BY DEF RowStep, KeepsSnapshot, CountsChange

LEMMA OrderRowStep ==
  ASSUME BookInv, NEW o \in Orders, NEW p \in Orders, OrderStep(p)
  PROVE  RowStep(o)
<1>1. order \in [Orders -> Order] /\ order[p] \in Order
  BY DEF BookInv, TypeOK
<1>2. CASE o # p
  <2>1. order'[o] = order[o]
    BY <1>1, <1>2 DEF OrderStep, OrderCreate, Placed, OrderUpdate, Edited, Prepare,
                      Prepared, Transition, MoveTo
  <2> QED BY <2>1, UntouchedRow
<1>3. ASSUME o = p, NEW b \in Baskets, NEW t \in Tables \cup {NoTable},
             OrderCreate(o, b, t)
      PROVE  RowStep(o)
  <2>1. order'[o] = [status |-> "pending", version |-> 1,
                     lines |-> Lines(NoOrder.lines, b),
                     table |-> t, takenAt |-> t, prepared |-> FALSE,
                     used |-> [d \in Drinks |-> 0]]
    BY <1>1, <1>3 DEF OrderCreate, Placed
  <2>2. order'[o].version = 1 BY <2>1
  <2>3. /\ order[o].status = "absent" /\ order[o].version = 0
        /\ \A d \in Dishes : ~OnOrder(o, d)
    BY <1>3 DEF OrderCreate, BookInv, StatusFits
  <2> QED BY <2>2, <2>3 DEF RowStep, KeepsSnapshot, CountsChange, Active
<1>4. ASSUME o = p, NEW b \in Baskets, NEW t \in Tables \cup {NoTable},
             OrderUpdate(o, b, t)
      PROVE  RowStep(o)
  <2> DEFINE lines == Lines(order[o].lines, b)
  <2>1. order[o].status = "pending" /\ order[o].lines \in [Dishes -> Line]
    BY <1>1, <1>4 DEF OrderUpdate, Editable, Order
  <2>2. /\ \A d \in Dishes : lines[d].quantity = b[d]
        /\ \A d \in Dishes : order[o].lines[d].quantity > 0 /\ b[d] > 0 =>
             lines[d].price = order[o].lines[d].price
    BY <2>1, LinesWritten DEF BookInv, TypeOK
  <2>3. order'[o] = [order[o] EXCEPT !.version = @ + 1, !.lines = lines,
                                     !.table = IF t = NoTable THEN @ ELSE t,
                                     !.takenAt = IF t = NoTable THEN @ ELSE t]
    BY <1>1, <1>4 DEF OrderUpdate, Edited
  <2> HIDE DEF lines
  <2>4. order'[o].version = order[o].version + 1 /\ order'[o].lines = lines
    BY <1>1, <1>4, <2>3 DEF Order
  <2> QED BY <2>1, <2>2, <2>4 DEF RowStep, KeepsSnapshot, CountsChange, OnOrder, Active
<1>5. ASSUME o = p, Prepare(o) PROVE RowStep(o)
  <2>1. order[o].status = "pending" BY <1>5 DEF Prepare, Preparable
  <2>2. order'[o] = [order[o] EXCEPT
                       !.status = "preparing", !.version = @ + 1, !.prepared = TRUE,
                       !.used = [d \in Drinks |-> @[d] + order[o].lines[d].quantity]]
    BY <1>1, <1>5 DEF Prepare, Prepared
  <2>3. order'[o].version = order[o].version + 1 /\ order'[o].lines = order[o].lines
    BY <1>1, <1>5, <2>2 DEF Order
  <2> QED BY <2>1, <2>3 DEF RowStep, KeepsSnapshot, CountsChange, Active
<1>6. ASSUME o = p, NEW s \in {"ready", "completed", "cancelled"}, Transition(o, s)
      PROVE  RowStep(o)
  <2>1. order[o].status \in Active
    BY <1>6 DEF Transition, Before, Active
  <2>2. order'[o] = [order[o] EXCEPT !.status = s, !.version = @ + 1]
    BY <1>1, <1>6 DEF Transition, MoveTo
  <2>3. /\ order'[o].version = order[o].version + 1 /\ order'[o].lines = order[o].lines
        /\ order'[o].used = order[o].used
    BY <1>1, <1>6, <2>2 DEF Order
  <2> QED BY <2>1, <2>3 DEF RowStep, KeepsSnapshot, CountsChange, Active
<1> QED BY <1>2, <1>3, <1>4, <1>5, <1>6 DEF OrderStep

LEMMA NextRowStep ==
  ASSUME BookInv, [Next]_vars, NEW o \in Orders
  PROVE  RowStep(o)
<1>1. order \in [Orders -> Order] /\ order[o] \in Order
  BY DEF BookInv, TypeOK
<1>2. CASE UNCHANGED order BY <1>2, UntouchedRow
<1>3. ASSUME NEW p \in Orders, OrderStep(p) PROVE RowStep(o) BY <1>3, OrderRowStep
<1>4. ASSUME NEW t \in Tables, TableDelete(t) PROVE RowStep(o)
  <2>1. order'[o] = IF order[o].table = t THEN [order[o] EXCEPT !.table = NoTable]
                                          ELSE order[o]
    BY <1>4 DEF TableDelete, TableGone
  <2>2. order[o].status \in Active => order'[o] = order[o]
    BY <1>4, <2>1 DEF TableDelete, SeatedAt
  <2>3. /\ order'[o].version = order[o].version /\ order'[o].status = order[o].status
        /\ order'[o].lines = order[o].lines /\ order'[o].used = order[o].used
    BY <1>1, <2>1 DEF Order
  <2> QED BY <2>2, <2>3 DEF RowStep, KeepsSnapshot, CountsChange
<1>5. ASSUME NEW d \in Dishes, DishStep(d) PROVE UNCHANGED order
  BY <1>5 DEF DishStep, DishSet, MenuCreate, MenuUpdate, RecipeSet, MenuDelete
<1>6. ASSUME NEW d \in Drinks, StockStep(d) PROVE UNCHANGED order
  BY <1>6 DEF StockStep, StockProductCreate, InventoryRecord, StockMoved, IngredientUpdate
<1> QED BY <1>2, <1>3, <1>4, <1>5, <1>6 DEF Next, vars

-----------------------------------------------------------------------------
\* The commands of the book keep its inductive invariant (command_core).
THEOREM BookInvariant == Spec => []BookInv
BY InitBookInv, NextBookInv, PTL DEF Spec

\* Type correctness; with it no count of pieces is ever negative, whatever was
\* prepared, received, removed and counted (order_transition, inventory_record).
THEOREM BookTypes == Spec => []TypeOK
<1>1. BookInv => TypeOK BY DEF BookInv
<1> QED BY BookInvariant, <1>1, PTL

\* Every active order can be served: menu_delete never takes a dish from under
\* it, and it is still at the table it was taken at, because table_delete takes
\* none that has an active order.
THEOREM OrdersServable == Spec => []ActiveOrdersServable
<1>1. BookInv => ActiveOrdersServable BY DEF BookInv
<1> QED BY BookInvariant, <1>1, PTL

\* The pieces in stock are always the sum of the inventory transactions.
THEOREM StockReconciles == Spec => []StockIsLedger
<1>1. BookInv => StockIsLedger BY DEF BookInv
<1> QED BY BookInvariant, <1>1, PTL

\* The snapshots of a prepared order never change, and an edited line keeps the
\* price it was ordered at (set_order_items).
THEOREM SnapshotsStay == Spec => SnapshotsKept
<1>1. BookInv /\ [Next]_vars =>
        [\A o \in Orders : KeepsSnapshot(o)]_vars
  BY NextRowStep DEF RowStep
<1> QED BY BookInvariant, <1>1, PTL DEF Spec, SnapshotsKept

\* Two readings of an active order with the same version are the same reading,
\* so that expect_version refuses exactly the commands based on an older one.
THEOREM VersionsUnique == Spec => VersionsTell
<1>1. BookInv /\ [Next]_vars =>
        [\A o \in Orders : CountsChange(o)]_vars
  BY NextRowStep DEF RowStep
<1> QED BY BookInvariant, <1>1, PTL DEF Spec, VersionsTell

-----------------------------------------------------------------------------
\* The desk.  What is said of one session is said of its record x.

DishOps == {"menu_update", "recipe_set", "menu_delete"}
Reads == {"tables", "deleted", "served", "seated"}
Locks == [mode : {"key", "share", "update"},
          row : {"table", "order", "dish", "stock"} \X (Tables \cup Orders \cup Dishes)]
Statements == {Read(kind) : kind \in Reads} \cup Locks
Elements(q) == {q[i] : i \in DOMAIN q}
Ahead(x) == Elements(x.todo)

Working == [cmd : Commands, seen : Order \cup Dish \cup {[version |-> 0]},
            todo : Seq(Statements), held : SUBSET Locks]
DeskTypeOK == session \in [Sessions -> Working \cup {Idle}]

\* The statements a command runs.
Mine(c, st) ==
  \/ \E kind \in Reads : st = Read(kind)
  \/ /\ c.op \in {"order_create", "order_update"}
     /\ \/ c.table # NoTable /\ st = Share("table", c.table)
        \/ \E d \in Dishes : st = Share("dish", d)
  \/ c.op \in {"order_update", "order_transition"} /\ st = Update("order", c.id)
  \/ /\ c.op = "order_transition"
     /\ \/ \E d \in Dishes : st = Share("dish", d)
        \/ \E d \in Drinks : st = Update("stock", d)
  \/ c.op \in DishOps /\ st = Update("dish", c.id)
  \/ c.op = "recipe_set" /\ \E d \in Drinks : st = KeyShare(d)
  \/ c.op = "inventory_record" /\ st = Update("stock", c.id)
  \/ c.op = "table_delete" /\ st = Update("table", c.id)
OwnStatements(x) == \A st \in Ahead(x) \cup x.held : Mine(x.cmd, st)

\* The locks without which a command must not commit.
Needs(c, st) ==
  \/ /\ c.op \in {"order_create", "order_update"}
     /\ \/ c.table # NoTable /\ st = Share("table", c.table)
        \/ \E i \in DOMAIN c.cart : st = Share("dish", c.cart[i].dish)
  \/ c.op \in {"order_update", "order_transition"} /\ st = Update("order", c.id)
  \/ c.op \in DishOps /\ st = Update("dish", c.id)
  \/ c.op = "table_delete" /\ st = Update("table", c.id)
LocksTaken(x) == \A st \in Locks : Needs(x.cmd, st) => st \in x.held \cup Ahead(x)

\* What was found under a lock is still so: the row a command is about is the
\* one its caller has read.
StillFound(x) ==
  \A l \in x.held :
    /\ l.row[1] = "table" => l.row[2] \in tables
    /\ l.row[1] = "order" => order[x.cmd.id] = x.seen /\ StatusAllows(x.cmd)
    /\ l.row[1] = "dish" =>
         /\ x.cmd.op \in {"order_create", "order_update"} =>
              dish[l.row[2]].state = "active"
         /\ x.cmd.op \in DishOps => dish[x.cmd.id] = x.seen

\* So is what was read without a lock of its own.
StillRead(x) ==
  /\ x.cmd.op = "order_create" /\ x.cmd.table = NoTable =>
       Read("tables") \in Ahead(x) \/ tables = {}
  /\ x.cmd.op = "menu_delete" =>
       \/ x.todo = <<Update("dish", x.cmd.id), Read("served")>>
       \/ /\ Update("dish", x.cmd.id) \in x.held
          /\ \/ x.todo = <<Read("served")>>
             \/ x.todo = <<>> /\ ServedBy(x.cmd.id) = {}
  /\ x.cmd.op = "table_delete" =>
       \/ x.todo = <<Update("table", x.cmd.id), Read("seated")>>
       \/ /\ Update("table", x.cmd.id) \in x.held
          /\ \/ x.todo = <<Read("seated")>>
             \/ x.todo = <<>> /\ SeatedAt(x.cmd.id) = {}
  /\ x.cmd.op = "order_transition" /\ Update("order", x.cmd.id) \in Ahead(x) =>
       x.todo = <<Update("order", x.cmd.id)>> /\ x.held = {}

\* The row the caller has read is the one it finds, or an older version of it.
Aims(x) ==
  /\ x.cmd.op = "order_create" => order[x.cmd.id].status = "absent"
  /\ x.cmd.op \in {"order_update", "order_transition"} =>
       /\ x.seen \in Order /\ x.seen.status \in Active
       /\ x.seen.version < MaxVersion /\ x.seen.version <= order[x.cmd.id].version
       /\ x.seen.version = order[x.cmd.id].version => x.seen = order[x.cmd.id]
  /\ x.cmd.op \in DishOps =>
       /\ x.seen \in Dish /\ x.seen.state \in {"active", "inactive"}
       /\ x.seen.version < MaxEdits /\ x.seen.version <= dish[x.cmd.id].version
       /\ x.seen.version = dish[x.cmd.id].version => x.seen = dish[x.cmd.id]

OpenOK(x) == OwnStatements(x) /\ LocksTaken(x) /\ StillFound(x) /\ StillRead(x) /\ Aims(x)

\* No two sessions hold conflicting locks or create the same order.
Apart(x, y) ==
  /\ \A k \in x.held, l \in y.held : ~Conflict(k, l)
  /\ x.cmd.op = "order_create" /\ y.cmd.op = "order_create" => x.cmd.id # y.cmd.id

DeskInv ==
  /\ BookInv
  /\ DeskTypeOK
  /\ \A s \in Sessions, x \in Working : session[s] = x => OpenOK(x)
  /\ \A r, s \in Sessions : r # s => Apart(session[r], session[s])

\* The order in which all but recipe edits lock rows.
Level(l) == CASE l.row[1] = "table" -> 0
              [] l.row[1] = "order" -> 1
              [] l.row[1] = "dish" -> IF l.mode = "update" THEN 2 ELSE 3
              [] l.row[1] = "stock" -> 3 + Place(l.row[2])
Below(k, l) ==
  \/ Level(k) < Level(l)
  \/ "dish" = k.row[1] /\ "dish" = l.row[1] /\ "share" = k.mode /\ "share" = l.mode
Ascending(q) ==
  \A i, j \in DOMAIN q : i < j /\ "read" \notin {q[i].mode, q[j].mode} => Below(q[i], q[j])
InOrder(x) ==
  x.cmd.op # "recipe_set" =>
    /\ Ascending(x.todo)
    /\ \A k \in x.held : \A l \in Ahead(x) : l.mode # "read" => Below(k, l)
OrderInv == \A s \in Sessions, x \in Working : session[s] = x => InOrder(x)

-----------------------------------------------------------------------------
\* Lists of statements.

LEMMA Members ==
  ASSUME NEW S, NEW q \in Seq(S)
  PROVE  /\ \E n \in Nat : DOMAIN q = 1..n
         /\ \A i \in DOMAIN q : q[i] \in S
OBVIOUS

LEMMA HeadAndTail ==
  ASSUME NEW S, NEW q \in Seq(S), q # <<>>
  PROVE  /\ Head(q) \in S /\ Tail(q) \in Seq(S)
         /\ Elements(q) = {Head(q)} \cup Elements(Tail(q))
         /\ DOMAIN Tail(q) = 1..(Len(q) - 1)
         /\ \A i \in DOMAIN Tail(q) : i + 1 \in DOMAIN q /\ Tail(q)[i] = q[i + 1]
<1>1. PICK n \in Nat \ {0} : DOMAIN q = 1..n /\ Len(q) = n
  OBVIOUS
<1>2. Head(q) = q[1] /\ Head(q) \in S /\ Tail(q) \in Seq(S) OBVIOUS
<1>3. /\ DOMAIN Tail(q) = 1..(n - 1)
      /\ \A i \in DOMAIN Tail(q) : i + 1 \in DOMAIN q /\ Tail(q)[i] = q[i + 1]
  BY <1>1
<1>4. ASSUME NEW i \in 1..n, i # 1 PROVE i - 1 \in DOMAIN Tail(q) /\ q[i] = Tail(q)[i - 1]
  BY <1>1, <1>3, <1>4
<1>5. Elements(q) = {Head(q)} \cup Elements(Tail(q))
  <2>1. Elements(q) \subseteq {Head(q)} \cup Elements(Tail(q))
    <3>1. SUFFICES ASSUME NEW i \in 1..n PROVE q[i] \in {Head(q)} \cup Elements(Tail(q))
      BY <1>1 DEF Elements
    <3>2. ASSUME NEW t, NEW j \in DOMAIN t PROVE t[j] \in Elements(t) BY DEF Elements
    <3>3. CASE i = 1 BY <1>2, <3>3
    <3>4. CASE i # 1
      <4>1. Tail(q)[i - 1] \in Elements(Tail(q)) BY <1>4, <3>2, <3>4
      <4> QED BY <1>4, <3>4, <4>1
    <3> QED BY <3>3, <3>4
  <2>2. Head(q) \in Elements(q) BY <1>1, <1>2 DEF Elements
  <2>3. Elements(Tail(q)) \subseteq Elements(q) BY <1>3 DEF Elements
  <2> QED BY <2>1, <2>2, <2>3
<1> QED BY <1>1, <1>2, <1>3, <1>5

LEMMA Joined ==
  ASSUME NEW S, NEW p \in Seq(S), NEW q \in Seq(S)
  PROVE  /\ p \o q \in Seq(S)
         /\ Elements(p \o q) = Elements(p) \cup Elements(q)
<1>1. PICK m \in Nat : DOMAIN p = 1..m /\ Len(p) = m OBVIOUS
<1>2. PICK n \in Nat : DOMAIN q = 1..n /\ Len(q) = n OBVIOUS
<1>3. p \o q \in Seq(S) /\ DOMAIN (p \o q) = 1..(m + n) BY <1>1, <1>2
<1>4. \A i \in 1..m : i \in 1..(m + n) /\ (p \o q)[i] = p[i] BY <1>1, <1>2
<1>5. \A i \in 1..n : m + i \in 1..(m + n) /\ (p \o q)[m + i] = q[i] BY <1>1, <1>2
<1>6. ASSUME NEW i \in 1..(m + n), i \notin 1..m
      PROVE  i - m \in 1..n /\ (p \o q)[i] = q[i - m]
  BY <1>1, <1>2, <1>6
<1>7. Elements(p \o q) \subseteq Elements(p) \cup Elements(q)
  BY <1>1, <1>2, <1>3, <1>4, <1>6 DEF Elements
<1>8. Elements(p) \subseteq Elements(p \o q) BY <1>1, <1>3, <1>4 DEF Elements
<1>9. Elements(q) \subseteq Elements(p \o q) BY <1>2, <1>3, <1>5 DEF Elements
<1> QED BY <1>3, <1>7, <1>8, <1>9

\* A list made from another item by item.
LEMMA Listed ==
  ASSUME NEW S, NEW n \in Nat, NEW f, f = [i \in 1..n |-> f[i]], \A i \in 1..n : f[i] \in S
  PROVE  f \in Seq(S) /\ Elements(f) = {f[i] : i \in 1..n}
<1>1. DOMAIN f = 1..n OBVIOUS
<1>2. f \in [1..n -> S] OBVIOUS
<1> QED BY <1>1, <1>2 DEF Elements

LEMMA Short ==
  /\ Elements(<<>>) = {}
  /\ \A a : Elements(<<a>>) = {a}
  /\ \A a, b : Elements(<<a, b>>) = {a, b}
BY DEF Elements

-----------------------------------------------------------------------------
\* Commands.

LEMMA CommandFields ==
  ASSUME NEW c \in Commands
  PROVE  /\ c.op \in {"order_create", "order_update", "order_transition", "inventory_record",
                      "table_delete"} \cup DishOps
         /\ c.op \in {"order_create", "order_update"} =>
              c.id \in Orders /\ c.cart \in Carts /\ c.table \in Tables \cup {NoTable}
         /\ c.op = "order_transition" => c.id \in Orders /\ c.status \in Statuses
         /\ c.op \in DishOps => c.id \in Dishes
         /\ c.op = "menu_update" => c.price \in Prices /\ c.state \in {"active", "inactive"}
         /\ c.op = "recipe_set" => c.recipe \in Recipes
         /\ c.op = "inventory_record" => c.id \in Drinks /\ c.move \in Movements
         /\ c.op = "table_delete" => c.id \in Tables
         /\ c \in OrderCommand <=> c.op \in {"order_create", "order_update", "order_transition"}
         /\ c \in DishCommand <=> c.op \in DishOps
BY DEF Commands, OrderCommand, DishCommand, OtherCommand, DishOps

LEMMA RowRead ==
  ASSUME NEW c \in Commands
  PROVE  /\ c.op \in {"order_create", "order_update", "order_transition"} =>
              RowOf(c) = order[c.id]
         /\ c.op \in DishOps => RowOf(c) = dish[c.id]
         /\ c.op \in {"inventory_record", "table_delete"} => RowOf(c) = [version |-> 0]
BY CommandFields DEF RowOf, DishOps

-----------------------------------------------------------------------------
\* The dishes in the order of their ids.

LEMMA Places ==
  /\ DOMAIN ById \subseteq Nat \ {0} /\ IsFiniteSet(Dishes)
  /\ \A d \in Dishes : Place(d) \in DOMAIN ById /\ ById[Place(d)] = d
<1>1. PICK n \in Nat : DOMAIN ById = 1..n BY ByIdAssumption
<1>2. ById \in [1..n -> Dishes] BY <1>1, ByIdAssumption
<1>3. \A d \in Dishes : \E i \in 1..n : ById[i] = d BY <1>1, ByIdAssumption
<1>4. ById \in Surjection(1..n, Dishes) BY <1>2, <1>3 DEF Surjection
<1>5. IsFiniteSet(1..n) BY FS_Interval
<1>6. IsFiniteSet(Dishes) BY <1>4, <1>5, FS_Surjection
<1>7. \A d \in Dishes : Place(d) \in DOMAIN ById /\ ById[Place(d)] = d
  BY <1>1, <1>3 DEF Place
<1> QED BY <1>1, <1>6, <1>7

\* How many dishes of a set come up to one of them.
LEMMA Ranks ==
  ASSUME NEW S \in SUBSET Dishes
  PROVE  /\ IsFiniteSet(S) /\ Cardinality(S) \in Nat
         /\ \A d \in S : Cardinality(UpTo(S, d)) \in 1..Cardinality(S)
         /\ \A d, e \in S : Cardinality(UpTo(S, d)) < Cardinality(UpTo(S, e)) <=>
                              Place(d) < Place(e)
<1>1. IsFiniteSet(S) /\ Cardinality(S) \in Nat BY Places, FS_Subset, FS_CardinalityType
<1>2. \A d \in S : Place(d) \in Nat /\ ById[Place(d)] = d BY Places
<1>3. ASSUME NEW d \in S
      PROVE  /\ UpTo(S, d) \in SUBSET S /\ d \in UpTo(S, d)
             /\ IsFiniteSet(UpTo(S, d))
             /\ Cardinality(UpTo(S, d)) \in 1..Cardinality(S)
  <2>1. UpTo(S, d) \in SUBSET S /\ d \in UpTo(S, d) BY <1>2 DEF UpTo
  <2>2. IsFiniteSet(UpTo(S, d)) /\ Cardinality(UpTo(S, d)) <= Cardinality(S)
    BY <1>1, <2>1, FS_Subset
  <2>3. Cardinality(UpTo(S, d)) \in Nat BY <2>2, FS_CardinalityType
  <2>4. Cardinality(UpTo(S, d)) # 0 BY <2>1, <2>2, FS_EmptySet
  <2> QED BY <1>1, <2>1, <2>2, <2>3, <2>4
<1>4. ASSUME NEW d \in S, NEW e \in S, Place(d) <= Place(e)
      PROVE  Cardinality(UpTo(S, d)) <= Cardinality(UpTo(S, e))
  <2>1. UpTo(S, d) \in SUBSET UpTo(S, e)
    <3>1. \A f \in UpTo(S, d) : f \in S /\ Place(f) \in Nat /\ Place(f) <= Place(d)
      BY <1>2 DEF UpTo
    <3>2. \A f \in UpTo(S, d) : Place(f) <= Place(e) BY <1>2, <1>4, <3>1
    <3> QED BY <3>1, <3>2 DEF UpTo
  <2> QED BY <1>3, <2>1, FS_Subset
<1>5. ASSUME NEW d \in S, NEW e \in S, Place(d) < Place(e)
      PROVE  Cardinality(UpTo(S, d)) < Cardinality(UpTo(S, e))
  <2>1. UpTo(S, d) \in SUBSET UpTo(S, e)
    <3>1. \A f \in UpTo(S, d) : f \in S /\ Place(f) \in Nat /\ Place(f) <= Place(d)
      BY <1>2 DEF UpTo
    <3>2. \A f \in UpTo(S, d) : Place(f) <= Place(e) BY <1>2, <1>5, <3>1
    <3> QED BY <3>1, <3>2 DEF UpTo
  <2>2. e \notin UpTo(S, d) BY <1>2, <1>5 DEF UpTo
  <2>3. UpTo(S, d) # UpTo(S, e) BY <1>3, <2>2
  <2>4. Cardinality(UpTo(S, d)) # Cardinality(UpTo(S, e)) BY <1>3, <2>1, <2>3, FS_Subset
  <2>5. Cardinality(UpTo(S, d)) \in Nat /\ Cardinality(UpTo(S, e)) \in Nat BY <1>1, <1>3
  <2>6. Cardinality(UpTo(S, d)) <= Cardinality(UpTo(S, e)) BY <1>2, <1>4, <1>5
  <2> QED BY <2>4, <2>5, <2>6
<1>6. ASSUME NEW d \in S, NEW e \in S
      PROVE  Cardinality(UpTo(S, d)) < Cardinality(UpTo(S, e)) <=> Place(d) < Place(e)
  <2>1. Cardinality(UpTo(S, d)) \in Nat /\ Cardinality(UpTo(S, e)) \in Nat BY <1>1, <1>3
  <2>2. Place(d) \in Nat /\ Place(e) \in Nat BY <1>2
  <2>3. CASE Place(d) < Place(e) BY <1>5, <2>3
  <2>4. CASE ~(Place(d) < Place(e))
    <3>1. Place(e) <= Place(d) BY <2>2, <2>4
    <3>2. Cardinality(UpTo(S, e)) <= Cardinality(UpTo(S, d)) BY <1>4, <3>1
    <3> QED BY <2>1, <2>4, <3>2
  <2> QED BY <2>3, <2>4
<1> QED BY <1>1, <1>3, <1>6

\* ChosenIn lists dishes of the set, each after those of lower ids.
LEMMA Chosen ==
  ASSUME NEW S \in SUBSET Dishes
  PROVE  /\ DOMAIN ChosenIn(S) = 1..Cardinality(S) /\ Cardinality(S) \in Nat
         /\ \A i \in DOMAIN ChosenIn(S) : ChosenIn(S)[i] \in S
         /\ \A i, j \in DOMAIN ChosenIn(S) : i < j =>
              Place(ChosenIn(S)[i]) < Place(ChosenIn(S)[j])
<1> DEFINE n == Cardinality(S)
           rank == [d \in S |-> Cardinality(UpTo(S, d))]
<1>1. n \in Nat /\ IsFiniteSet(S) BY Ranks
<1>2. rank \in [S -> 1..n] BY Ranks
<1>3. ASSUME NEW d \in S, NEW e \in S, rank[d] = rank[e] PROVE d = e
  <2>1. Place(d) \in Nat /\ Place(e) \in Nat /\ ById[Place(d)] = d /\ ById[Place(e)] = e
    BY Places
  <2>2. Cardinality(UpTo(S, d)) = Cardinality(UpTo(S, e)) BY <1>3
  <2>3. Cardinality(UpTo(S, d)) \in Nat BY Ranks
  <2>4. ~(Place(d) < Place(e)) /\ ~(Place(e) < Place(d)) BY <2>2, <2>3, Ranks
  <2> QED BY <2>1, <2>4
<1>4. rank \in Injection(S, 1..n) BY <1>2, <1>3 DEF Injection, IsInjective
<1>5. IsFiniteSet(1..n) /\ Cardinality(1..n) = n BY <1>1, FS_Interval
<1>6. rank \in Surjection(S, 1..n) BY <1>4, <1>5, FS_Injection
<1>7. \A i \in 1..n : \E d \in S : Cardinality(UpTo(S, d)) = i BY <1>6 DEF Surjection
<1>8. /\ DOMAIN ChosenIn(S) = 1..n
      /\ \A i \in 1..n : ChosenIn(S)[i] \in S /\ Cardinality(UpTo(S, ChosenIn(S)[i])) = i
  BY <1>7 DEF ChosenIn
<1> HIDE DEF n, rank
<1>9. ASSUME NEW i \in 1..n, NEW j \in 1..n, i < j
      PROVE  Place(ChosenIn(S)[i]) < Place(ChosenIn(S)[j])
  BY <1>8, <1>9, Ranks
<1> QED BY <1>1, <1>8, <1>9 DEF n

-----------------------------------------------------------------------------
\* The statements of a command.

LEMMA LockTypes ==
  /\ \A d \in Dishes : Share("dish", d) \in Locks /\ Update("dish", d) \in Locks
  /\ \A d \in Drinks : Update("stock", d) \in Locks /\ KeyShare(d) \in Locks
  /\ \A t \in Tables : Share("table", t) \in Locks /\ Update("table", t) \in Locks
  /\ \A o \in Orders : Update("order", o) \in Locks
  /\ \A kind \in Reads : Read(kind) \in Statements /\ Read(kind) \notin Locks
  /\ Locks \subseteq Statements
BY BookConstants DEF Locks, Statements, Reads, Read, Share, Update, KeyShare

PreparationLock(st) ==
  \/ \E d \in Dishes : st = Share("dish", d)
  \/ \E d \in Drinks : st = Update("stock", d)

LEMMA PreparationLocks ==
  ASSUME NEW o
  PROVE  /\ PrepareLocks(o) \in Seq(Statements)
         /\ \A st \in Elements(PrepareLocks(o)) : PreparationLock(st)
<1> DEFINE dishes == {d \in Dishes : OnOrder(o, d)}
           drinks == {d \in Drinks : OnOrder(o, d)}
           shares == SharesOf("dish", ChosenIn(dishes))
           updates == UpdatesOf("stock", ChosenIn(drinks))
<1>1. dishes \in SUBSET Dishes /\ drinks \in SUBSET Dishes /\ drinks \in SUBSET Drinks
  BY BookConstants
<1> HIDE DEF dishes, drinks
<1>2. PICK m \in Nat : /\ DOMAIN ChosenIn(dishes) = 1..m
                       /\ \A i \in 1..m : ChosenIn(dishes)[i] \in dishes
  BY <1>1, Chosen
<1>3. PICK n \in Nat : /\ DOMAIN ChosenIn(drinks) = 1..n
                       /\ \A i \in 1..n : ChosenIn(drinks)[i] \in drinks
  BY <1>1, Chosen
<1>4. /\ DOMAIN shares = 1..m /\ shares = [i \in 1..m |-> shares[i]]
      /\ \A i \in 1..m : shares[i] = Share("dish", ChosenIn(dishes)[i])
  BY <1>2 DEF SharesOf
<1>5. /\ DOMAIN updates = 1..n /\ updates = [i \in 1..n |-> updates[i]]
      /\ \A i \in 1..n : updates[i] = Update("stock", ChosenIn(drinks)[i])
  BY <1>3 DEF UpdatesOf
<1> HIDE DEF shares, updates
<1>6. \A i \in 1..m : shares[i] \in Statements /\ PreparationLock(shares[i])
  BY <1>1, <1>2, <1>4, LockTypes DEF PreparationLock
<1>7. \A i \in 1..n : updates[i] \in Statements /\ PreparationLock(updates[i])
  BY <1>1, <1>3, <1>5, LockTypes DEF PreparationLock
<1>8. shares \in Seq(Statements) /\ Elements(shares) = {shares[i] : i \in 1..m}
  BY <1>4, <1>6, Listed
<1>9. updates \in Seq(Statements) /\ Elements(updates) = {updates[i] : i \in 1..n}
  BY <1>5, <1>7, Listed
<1>10. PrepareLocks(o) = shares \o updates
  BY DEF PrepareLocks, shares, updates, dishes, drinks
<1>11. /\ PrepareLocks(o) \in Seq(Statements)
       /\ Elements(PrepareLocks(o)) = Elements(shares) \cup Elements(updates)
  BY <1>8, <1>9, <1>10, Joined
<1> QED BY <1>6, <1>7, <1>8, <1>9, <1>11

LEMMA CartLocks ==
  ASSUME NEW cart \in Carts
  PROVE  /\ ItemLocks(cart) \in Seq(Statements)
         /\ Elements(ItemLocks(cart)) = {Share("dish", cart[i].dish) : i \in DOMAIN cart}
         /\ \A i \in DOMAIN cart : /\ cart[i].dish \in Dishes
                                   /\ cart[i].quantity \in 1..MaxQuantity
         /\ cart # <<>>
<1> DEFINE L == [dish : Dishes, quantity : 1..MaxQuantity]
<1>1. cart \in Seq(L) /\ cart # <<>>
  BY RequestsAssumption
<1>2. PICK n \in Nat : DOMAIN cart = 1..n BY <1>1
<1>3. \A i \in DOMAIN cart : cart[i] \in L
  <2> HIDE DEF L
  <2> QED BY <1>1, Members
<1>4. \A i \in DOMAIN cart : cart[i].dish \in Dishes /\ cart[i].quantity \in 1..MaxQuantity
  BY <1>3
<1> DEFINE q == ItemLocks(cart)
<1>5. /\ q = [i \in 1..n |-> q[i]]
      /\ \A i \in 1..n : q[i] = Share("dish", cart[i].dish)
  BY <1>2 DEF ItemLocks
<1> HIDE DEF q
<1>6. \A i \in 1..n : q[i] \in Statements BY <1>2, <1>4, <1>5, LockTypes
<1>7. q \in Seq(Statements) /\ Elements(q) = {q[i] : i \in 1..n} BY <1>5, <1>6, Listed
<1>8. Elements(q) = {Share("dish", cart[i].dish) : i \in DOMAIN cart}
  BY <1>2, <1>5, <1>7
<1> QED BY <1>1, <1>4, <1>7, <1>8 DEF q

LEMMA PlanLists ==
  ASSUME NEW c \in Commands
  PROVE  /\ c.op = "order_create" =>
              Plan(c) = (IF c.table = NoTable THEN <<Read("tables")>> ELSE TableLock(c.table))
                        \o ItemLocks(c.cart)
         /\ c.op = "order_update" =>
              Plan(c) = (TableLock(c.table) \o <<Update("order", c.id)>>) \o ItemLocks(c.cart)
         /\ c.op = "order_transition" => Plan(c) = <<Update("order", c.id)>>
         /\ c.op = "menu_update" => Plan(c) = <<Read("deleted"), Update("dish", c.id)>>
         /\ c.op = "recipe_set" =>
              Plan(c) = <<Read("deleted"), Update("dish", c.id)>>
                        \o [i \in DOMAIN c.recipe |-> KeyShare(c.recipe[i])]
         /\ c.op = "menu_delete" => Plan(c) = <<Update("dish", c.id), Read("served")>>
         /\ c.op = "inventory_record" => Plan(c) = <<Update("stock", c.id)>>
         /\ c.op = "table_delete" => Plan(c) = <<Update("table", c.id), Read("seated")>>
BY DEF Plan

LEMMA Pair ==
  ASSUME NEW a \in Statements, NEW b \in Statements
  PROVE  <<a>> \in Seq(Statements) /\ <<a, b>> \in Seq(Statements) /\ <<>> \in Seq(Statements)
OBVIOUS

LEMMA RecipeLocks ==
  ASSUME NEW recipe \in Recipes
  PROVE  LET q == [i \in DOMAIN recipe |-> KeyShare(recipe[i])]
         IN  /\ q \in Seq(Statements)
             /\ \A st \in Elements(q) : \E d \in Drinks : st = KeyShare(d)
<1> DEFINE q == [i \in DOMAIN recipe |-> KeyShare(recipe[i])]
<1>1. recipe \in Seq(Drinks) BY RequestsAssumption
<1>2. PICK n \in Nat : DOMAIN recipe = 1..n BY <1>1
<1>3. \A i \in 1..n : recipe[i] \in Drinks BY <1>1, <1>2
<1>4. q = [i \in 1..n |-> q[i]] /\ \A i \in 1..n : q[i] = KeyShare(recipe[i]) BY <1>2
<1> HIDE DEF q
<1>5. \A i \in 1..n : q[i] \in Statements BY <1>3, <1>4, LockTypes
<1>6. q \in Seq(Statements) /\ Elements(q) = {q[i] : i \in 1..n}
  <2>1. q = [i \in 1..n |-> q[i]] BY <1>4
  <2> QED BY <1>5, <2>1, Listed
<1>7. \A st \in Elements(q) : \E d \in Drinks : st = KeyShare(d) BY <1>3, <1>4, <1>6
<1> QED BY <1>6, <1>7 DEF q

\* A plan runs statements of its command, and takes every lock it needs.
LEMMA PlanOK ==
  ASSUME NEW c \in Commands
  PROVE  /\ Plan(c) \in Seq(Statements)
         /\ \A st \in Elements(Plan(c)) : Mine(c, st)
         /\ \A st \in Locks : Needs(c, st) => st \in Elements(Plan(c))
         /\ c.op = "order_create" /\ c.table = NoTable => Read("tables") \in Elements(Plan(c))
<1>1. \A kind \in Reads : Read(kind) \in Statements /\ Mine(c, Read(kind))
  BY LockTypes DEF Mine
<1>2. {"tables", "deleted", "served", "seated"} = Reads BY DEF Reads
<1>3. CASE c.op = "order_create"
  <2> DEFINE first == IF c.table = NoTable THEN <<Read("tables")>> ELSE TableLock(c.table)
  <2>1. c.cart \in Carts /\ c.table \in Tables \cup {NoTable} BY <1>3, CommandFields
  <2>2. /\ first \in Seq(Statements)
        /\ Elements(first) = IF c.table = NoTable THEN {Read("tables")}
                                                  ELSE {Share("table", c.table)}
    BY <1>1, <1>2, <2>1, Pair, Short, LockTypes DEF TableLock
  <2>3. Plan(c) = first \o ItemLocks(c.cart) BY <1>3, PlanLists
  <2> HIDE DEF first
  <2>4. /\ Plan(c) \in Seq(Statements)
        /\ Elements(Plan(c)) = Elements(first) \cup Elements(ItemLocks(c.cart))
    BY <2>1, <2>2, <2>3, CartLocks, Joined
  <2>5. \A st \in Elements(Plan(c)) : Mine(c, st)
    BY <1>1, <1>2, <1>3, <2>1, <2>2, <2>4, CartLocks DEF Mine
  <2>6. \A st \in Locks : Needs(c, st) => st \in Elements(Plan(c))
    BY <1>3, <2>1, <2>2, <2>4, CartLocks DEF Needs, DishOps
  <2> QED BY <2>2, <2>4, <2>5, <2>6
<1>4. CASE c.op = "order_update"
  <2>1. c.cart \in Carts /\ c.table \in Tables \cup {NoTable} /\ c.id \in Orders
    BY <1>4, CommandFields
  <2>2. /\ TableLock(c.table) \in Seq(Statements)
        /\ Elements(TableLock(c.table)) = IF c.table = NoTable THEN {}
                                                                ELSE {Share("table", c.table)}
    BY <1>1, <1>2, <2>1, Pair, Short, LockTypes DEF TableLock
  <2>3. /\ <<Update("order", c.id)>> \in Seq(Statements)
        /\ Elements(<<Update("order", c.id)>>) = {Update("order", c.id)}
    BY <2>1, Pair, Short, LockTypes
  <2> DEFINE table == TableLock(c.table)
             lock == <<Update("order", c.id)>>
             first == table \o lock
  <2>4. /\ first \in Seq(Statements)
        /\ Elements(first) = Elements(TableLock(c.table)) \cup {Update("order", c.id)}
    <3>1. table \in Seq(Statements) /\ lock \in Seq(Statements) BY <2>2, <2>3
    <3>2. Elements(first) = Elements(table) \cup Elements(lock) /\ first \in Seq(Statements)
      <4> HIDE DEF table, lock
      <4> QED BY <3>1, Joined
    <3> QED BY <2>3, <3>2
  <2>5. Plan(c) = first \o ItemLocks(c.cart) BY <1>4, PlanLists
  <2> HIDE DEF first
  <2>6. /\ Plan(c) \in Seq(Statements)
        /\ Elements(Plan(c)) = Elements(first) \cup Elements(ItemLocks(c.cart))
    BY <2>1, <2>4, <2>5, CartLocks, Joined
  <2>7. \A st \in Elements(Plan(c)) : Mine(c, st)
    BY <1>4, <2>1, <2>2, <2>4, <2>6, CartLocks DEF Mine
  <2>8. \A st \in Locks : Needs(c, st) => st \in Elements(Plan(c))
    BY <1>4, <2>1, <2>2, <2>4, <2>6, CartLocks DEF Needs, DishOps
  <2> QED BY <1>4, <2>6, <2>7, <2>8
<1>5. CASE c.op = "recipe_set"
  <2> DEFINE first == <<Read("deleted"), Update("dish", c.id)>>
             last == [i \in DOMAIN c.recipe |-> KeyShare(c.recipe[i])]
  <2>1. c.id \in Dishes /\ c.recipe \in Recipes BY <1>5, CommandFields DEF DishOps
  <2>2. /\ first \in Seq(Statements)
        /\ Elements(first) = {Read("deleted"), Update("dish", c.id)}
    BY <1>1, <1>2, <2>1, Pair, Short, LockTypes
  <2>3. /\ last \in Seq(Statements)
        /\ \A st \in Elements(last) : \E d \in Drinks : st = KeyShare(d)
    BY <2>1, RecipeLocks
  <2>4. Plan(c) = first \o last BY <1>5, PlanLists
  <2> HIDE DEF first, last
  <2>5. /\ Plan(c) \in Seq(Statements)
        /\ Elements(Plan(c)) = Elements(first) \cup Elements(last)
    BY <2>2, <2>3, <2>4, Joined
  <2>6. \A st \in Elements(Plan(c)) : Mine(c, st)
    BY <1>1, <1>2, <1>5, <2>2, <2>3, <2>5 DEF Mine, DishOps
  <2>7. \A st \in Locks : Needs(c, st) => st \in Elements(Plan(c))
    BY <1>5, <2>2, <2>5 DEF Needs
  <2> QED BY <1>5, <2>5, <2>6, <2>7
<1>6. CASE c.op \in {"order_transition", "inventory_record"}
  <2> DEFINE st == IF c.op = "order_transition" THEN Update("order", c.id)
                                                ELSE Update("stock", c.id)
  <2>1. st \in Statements /\ Mine(c, st) BY <1>6, CommandFields, LockTypes DEF Mine
  <2>2. Plan(c) = <<st>> BY <1>6, PlanLists
  <2>3. Plan(c) \in Seq(Statements) /\ Elements(Plan(c)) = {st} BY <2>1, <2>2, Pair, Short
  <2>4. \A l \in Locks : Needs(c, l) => l = st BY <1>6 DEF Needs, DishOps
  <2> HIDE DEF st
  <2> QED BY <1>6, <2>1, <2>3, <2>4
<1>7. CASE c.op \in {"menu_update", "menu_delete", "table_delete"}
  <2> DEFINE lock == IF c.op = "table_delete" THEN Update("table", c.id)
                                              ELSE Update("dish", c.id)
             kind == IF c.op = "table_delete" THEN "seated"
                     ELSE IF c.op = "menu_delete" THEN "served" ELSE "deleted"
  <2>1. lock \in Statements /\ Mine(c, lock)
    BY <1>7, CommandFields, LockTypes DEF Mine, DishOps
  <2>2. Read(kind) \in Statements /\ Mine(c, Read(kind)) BY <1>1, <1>2
  <2>3. Plan(c) = <<lock, Read(kind)>> \/ Plan(c) = <<Read(kind), lock>>
    BY <1>7, PlanLists
  <2>4. \A l \in Locks : Needs(c, l) => l = lock BY <1>7 DEF Needs, DishOps
  <2> HIDE DEF lock, kind
  <2>5. Plan(c) \in Seq(Statements) /\ Elements(Plan(c)) = {lock, Read(kind)}
    <3>1. /\ <<lock, Read(kind)>> \in Seq(Statements)
          /\ <<Read(kind), lock>> \in Seq(Statements)
      BY <2>1, <2>2, Pair
    <3>2. /\ Elements(<<lock, Read(kind)>>) = {lock, Read(kind)}
          /\ Elements(<<Read(kind), lock>>) = {lock, Read(kind)}
      BY Short
    <3>3. CASE Plan(c) = <<lock, Read(kind)>> BY <3>1, <3>2, <3>3
    <3>4. CASE Plan(c) = <<Read(kind), lock>> BY <3>1, <3>2, <3>4
    <3> QED BY <2>3, <3>3, <3>4
  <2> QED BY <1>7, <2>1, <2>2, <2>4, <2>5
<1> QED BY <1>3, <1>4, <1>5, <1>6, <1>7, CommandFields DEF DishOps

LEMMA FurtherOK ==
  ASSUME NEW c \in Commands, NEW st
  PROVE  /\ Further(c, st) \in Seq(Statements)
         /\ \A l \in Elements(Further(c, st)) :
              /\ c.op = "order_transition" /\ st.row[1] = "order" /\ c.status = "preparing"
              /\ Mine(c, l) /\ PreparationLock(l)
<1>1. CASE c.op = "order_transition" /\ st.row[1] = "order" /\ c.status = "preparing"
  <2>1. Further(c, st) = PrepareLocks(c.id) BY <1>1 DEF Further
  <2> QED BY <1>1, <2>1, PreparationLocks DEF Mine, PreparationLock
<1>2. CASE ~(c.op = "order_transition" /\ st.row[1] = "order" /\ c.status = "preparing")
  <2>1. Further(c, st) = <<>> BY <1>2 DEF Further
  <2> QED BY <2>1, Short
<1> QED BY <1>1, <1>2

LEMMA Passed ==
  ASSUME NEW c, NEW seen, NEW st, Passes(c, seen, st)
  PROVE  /\ st.row[1] = "table" => st.row[2] \in tables
         /\ st.row[1] = "order" => SameVersion(c, seen) /\ StatusAllows(c)
         /\ st.row[1] = "dish" =>
              /\ c.op \in {"order_create", "order_update"} => dish[st.row[2]].state = "active"
              /\ c.op \in {"menu_delete", "recipe_set"} => dish[c.id].state # "deleted"
              /\ c \in DishCommand => SameVersion(c, seen)
         /\ st = Read("tables") => tables = {}
         /\ st = Read("served") => ServedBy(c.id) = {}
         /\ st = Read("seated") => SeatedAt(c.id) = {}
<1>1. \A kind \in Reads : Read(kind).row[1] = kind BY DEF Read
<1>2. CASE st.row[1] = "table" BY <1>1, <1>2 DEF Passes, Reads
<1>3. CASE st.row[1] = "order" BY <1>1, <1>3 DEF Passes, Reads
<1>4. CASE st.row[1] = "dish" BY <1>1, <1>4 DEF Passes, Reads
<1>5. CASE st.row[1] = "tables" BY <1>1, <1>5 DEF Passes, Reads
<1>6. CASE st.row[1] = "served" BY <1>1, <1>6 DEF Passes, Reads
<1>7. CASE st.row[1] = "seated" BY <1>1, <1>7 DEF Passes, Reads
<1> QED BY <1>1, <1>2, <1>3, <1>4, <1>5, <1>6, <1>7 DEF Reads

\* What the row of a statement says about it.
LEMMA RowTells ==
  ASSUME NEW c \in Commands, NEW st, Mine(c, st)
  PROVE  /\ st \notin Locks <=> st.mode = "read"
         /\ st.row[1] = "order" =>
              st = Update("order", c.id) /\ c.op \in {"order_update", "order_transition"}
         /\ st.row[1] = "table" =>
              \/ /\ c.op \in {"order_create", "order_update"}
                 /\ st = Share("table", c.table)
              \/ c.op = "table_delete" /\ st = Update("table", c.id)
         /\ st.row[1] = "dish" =>
              \/ /\ c.op \in {"order_create", "order_update", "order_transition"}
                 /\ \E d \in Dishes : st = Share("dish", d)
              \/ c.op \in DishOps /\ st = Update("dish", c.id)
<1>1. CASE \E kind \in Reads : st = Read(kind)
  BY <1>1, LockTypes DEF Read, Reads
<1>2. CASE ~\E kind \in Reads : st = Read(kind)
  <2>1. st \in Locks
    BY <1>2, CommandFields, LockTypes DEF Mine, DishOps
  <2>2. st.mode # "read" BY <2>1 DEF Locks
  <2>3. /\ st.row[1] = "order" =>
              st = Update("order", c.id) /\ c.op \in {"order_update", "order_transition"}
        /\ st.row[1] = "table" =>
              \/ /\ c.op \in {"order_create", "order_update"}
                 /\ st = Share("table", c.table)
              \/ c.op = "table_delete" /\ st = Update("table", c.id)
        /\ st.row[1] = "dish" =>
              \/ /\ c.op \in {"order_create", "order_update", "order_transition"}
                 /\ \E d \in Dishes : st = Share("dish", d)
              \/ c.op \in DishOps /\ st = Update("dish", c.id)
    BY <1>2 DEF Mine, Share, Update, KeyShare
  <2> QED BY <2>1, <2>2, <2>3
<1> QED BY <1>1, <1>2

\* A statement that has run leaves the session in good order.
LEMMA StatementOpenOK ==
  ASSUME NEW x \in Working, OpenOK(x), x.todo # <<>>,
         NEW st, st = Head(x.todo), Passes(x.cmd, x.seen, st),
         NEW y, y = [x EXCEPT !.todo = Tail(x.todo) \o Further(x.cmd, st),
                              !.held = IF st.mode = "read" THEN x.held ELSE x.held \cup {st}]
  PROVE  y \in Working /\ OpenOK(y)
<1> DEFINE c == x.cmd
<1>1. /\ c \in Commands /\ x.todo \in Seq(Statements) /\ x.held \in SUBSET Locks
      /\ x.seen \in Order \cup Dish \cup {[version |-> 0]}
  BY DEF Working
<1>2. /\ st \in Statements /\ Tail(x.todo) \in Seq(Statements)
      /\ Ahead(x) = {st} \cup Elements(Tail(x.todo))
  BY <1>1, HeadAndTail DEF Ahead
<1>3. Mine(c, st) BY <1>2 DEF OpenOK, OwnStatements
<1>4. /\ y.cmd = c /\ y.seen = x.seen /\ y.todo = Tail(x.todo) \o Further(c, st)
      /\ y.held = IF st.mode = "read" THEN x.held ELSE x.held \cup {st}
      /\ y = [cmd |-> y.cmd, seen |-> y.seen, todo |-> y.todo, held |-> y.held]
  BY DEF Working
<1>5. /\ y.todo \in Seq(Statements)
      /\ Ahead(y) = Elements(Tail(x.todo)) \cup Elements(Further(c, st))
  <2> DEFINE tail == Tail(x.todo)
             more == Further(c, st)
  <2>1. tail \in Seq(Statements) /\ more \in Seq(Statements) /\ y.todo = tail \o more
    BY <1>1, <1>2, <1>4, FurtherOK
  <2> HIDE DEF tail, more
  <2>2. \A p, q \in Seq(Statements) :
          p \o q \in Seq(Statements) /\ Elements(p \o q) = Elements(p) \cup Elements(q)
    BY Joined
  <2> QED BY <2>1, <2>2, Zenon DEF Ahead, tail, more
<1>6. y.held \in SUBSET Locks /\ y.held \subseteq x.held \cup {st}
  BY <1>1, <1>3, <1>4, RowTells
<1>7. y \in Working BY <1>1, <1>4, <1>5, <1>6, Zenon DEF Working
<1> HIDE DEF c
<1>8. OwnStatements(y)
  BY <1>1, <1>2, <1>4, <1>5, <1>6, FurtherOK DEF OpenOK, OwnStatements, c
<1>9. LocksTaken(y)
  <2> SUFFICES ASSUME NEW l \in Locks, Needs(c, l) PROVE l \in y.held \cup Ahead(y)
    BY <1>4 DEF LocksTaken
  <2>1. l \in x.held \cup Ahead(x) BY DEF OpenOK, LocksTaken, c
  <2>2. l = st => st.mode # "read" BY <1>1, <1>3, RowTells
  <2> QED BY <1>2, <1>4, <1>5, <2>1, <2>2
<1>10. StillFound(y)
  <2>1. st.row[1] = "order" =>
          order[c.id] = x.seen /\ c.op \in {"order_update", "order_transition"}
    <3>1. SUFFICES ASSUME st.row[1] = "order"
                   PROVE  /\ order[c.id] = x.seen
                          /\ c.op \in {"order_update", "order_transition"}
      OBVIOUS
    <3>2. c.op \in {"order_update", "order_transition"}
      BY <1>1, <1>3, <3>1, RowTells DEF c
    <3>3. RowOf(c).version = x.seen.version BY <3>1, Passed DEF SameVersion, c
    <3>4. RowOf(c) = order[c.id] BY <1>1, <3>2, RowRead DEF c
    <3> QED BY <3>2, <3>3, <3>4 DEF OpenOK, Aims, c
  <2>2. st.row[1] = "dish" /\ c.op \in DishOps => dish[c.id] = x.seen
    <3>1. SUFFICES ASSUME st.row[1] = "dish", c.op \in DishOps PROVE dish[c.id] = x.seen
      OBVIOUS
    <3>2. c \in DishCommand BY <1>1, <3>1, CommandFields DEF c
    <3>3. RowOf(c).version = x.seen.version BY <3>1, <3>2, Passed DEF SameVersion, c
    <3>4. RowOf(c) = dish[c.id] BY <1>1, <3>1, RowRead DEF c
    <3> QED BY <3>1, <3>3, <3>4 DEF OpenOK, Aims, c
  <2>3. /\ st.row[1] = "table" => st.row[2] \in tables
        /\ st.row[1] = "order" => StatusAllows(c)
        /\ st.row[1] = "dish" /\ c.op \in {"order_create", "order_update"} =>
             dish[st.row[2]].state = "active"
    BY Passed DEF c
  <2> QED BY <1>4, <1>6, <2>1, <2>2, <2>3 DEF OpenOK, StillFound, c
<1>11. StillRead(y)
  <2>1. c.op # "order_transition" => Ahead(y) = Elements(Tail(x.todo)) /\ y.todo = Tail(x.todo)
    <3>1. ASSUME c.op # "order_transition" PROVE Further(c, st) = <<>>
      BY <3>1 DEF Further
    <3>2. \A q \in Seq(Statements) : q \o <<>> = q OBVIOUS
    <3> QED BY <1>2, <1>4, <1>5, <3>1, <3>2, Short
  <2>2. ASSUME c.op = "order_create", c.table = NoTable
        PROVE  Read("tables") \in Ahead(y) \/ tables = {}
    <3>1. Read("tables") \in Ahead(x) \/ tables = {}
      BY <2>2 DEF OpenOK, StillRead, c
    <3>2. CASE st = Read("tables") BY <3>2, Passed
    <3> QED BY <1>2, <2>1, <2>2, <3>1, <3>2
  <2>3. ASSUME NEW lock, NEW kind, x.todo = <<lock, kind>>, st.mode # "read",
               c.op # "order_transition"
        PROVE  lock \in y.held /\ y.todo = <<kind>>
    BY <1>4, <2>1, <2>3
  <2>4. ASSUME NEW kind, x.todo = <<kind>>, c.op # "order_transition"
        PROVE  y.todo = <<>> /\ x.held \subseteq y.held /\ st = kind
    BY <1>4, <2>1, <2>4
  <2>5. ASSUME c.op = "menu_delete"
        PROVE  \/ y.todo = <<Update("dish", c.id), Read("served")>>
               \/ /\ Update("dish", c.id) \in y.held
                  /\ \/ y.todo = <<Read("served")>>
                     \/ y.todo = <<>> /\ ServedBy(c.id) = {}
    <3>1. CASE x.todo = <<Update("dish", c.id), Read("served")>>
      <4>1. st.mode # "read" BY <3>1 DEF Update
      <4> QED BY <2>3, <2>5, <3>1, <4>1
    <3>2. CASE x.todo = <<Read("served")>> /\ Update("dish", c.id) \in x.held
      <4>1. y.todo = <<>> /\ x.held \subseteq y.held /\ st = Read("served")
        BY <2>4, <2>5, <3>2
      <4>2. ServedBy(c.id) = {} BY <4>1, Passed DEF c
      <4> QED BY <3>2, <4>1, <4>2
    <3> QED BY <2>5, <3>1, <3>2 DEF OpenOK, StillRead, c
  <2>6. ASSUME c.op = "table_delete"
        PROVE  \/ y.todo = <<Update("table", c.id), Read("seated")>>
               \/ /\ Update("table", c.id) \in y.held
                  /\ \/ y.todo = <<Read("seated")>>
                     \/ y.todo = <<>> /\ SeatedAt(c.id) = {}
    <3>1. CASE x.todo = <<Update("table", c.id), Read("seated")>>
      <4>1. st.mode # "read" BY <3>1 DEF Update
      <4> QED BY <2>3, <2>6, <3>1, <4>1
    <3>2. CASE x.todo = <<Read("seated")>> /\ Update("table", c.id) \in x.held
      <4>1. y.todo = <<>> /\ x.held \subseteq y.held /\ st = Read("seated")
        BY <2>4, <2>6, <3>2
      <4>2. SeatedAt(c.id) = {} BY <4>1, Passed DEF c
      <4> QED BY <3>2, <4>1, <4>2
    <3> QED BY <2>6, <3>1, <3>2 DEF OpenOK, StillRead, c
  <2>7. ASSUME c.op = "order_transition"
        PROVE  Update("order", c.id) \notin Ahead(y)
    <3>1. \A l \in Elements(Further(c, st)) : PreparationLock(l) /\ st.row[1] = "order"
      BY <1>1, FurtherOK DEF c
    <3>2. Update("order", c.id) \notin Elements(Further(c, st))
      BY <3>1 DEF PreparationLock, Update, Share
    <3>3. Update("order", c.id) \notin Elements(Tail(x.todo))
      <4>1. CASE x.todo = <<Update("order", c.id)>>
        <5>1. Tail(x.todo) = <<>> BY <4>1
        <5> QED BY <5>1, Short
      <4>2. CASE Update("order", c.id) \notin Ahead(x) BY <1>2, <4>2
      <4> QED BY <2>7, <4>1, <4>2 DEF OpenOK, StillRead, c
    <3> QED BY <1>5, <3>2, <3>3
  <2> QED BY <1>4, <2>2, <2>5, <2>6, <2>7 DEF StillRead
<1>12. Aims(y) BY <1>4 DEF OpenOK, Aims, c
<1> QED BY <1>7, <1>8, <1>9, <1>10, <1>11, <1>12 DEF OpenOK

-----------------------------------------------------------------------------
\* What a commit of the session x writes: only rows that it has locked, an
\* order that was not there, and the table of orders that are over.
Writes(x) ==
  /\ \A d \in Dishes : dish'[d] # dish[d] =>
       Update("dish", d) \in x.held /\ dish'[d].version = dish[d].version + 1
  /\ tables' \subseteq tables /\ \A t \in tables \ tables' : Update("table", t) \in x.held
  /\ \A o \in Orders : order'[o] # order[o] =>
       \/ Update("order", o) \in x.held
       \/ x.cmd.op = "order_create" /\ x.cmd.id = o /\ order[o].status = "absent"
       \/ order[o].status \notin Active /\ order'[o].status = order[o].status
  /\ \A d \in Dishes :
       Share("dish", d) \in x.held \/ ServedBy(d)' \subseteq ServedBy(d)
  /\ \A t \in Tables :
       Share("table", t) \in x.held \/ SeatedAt(t)' \subseteq SeatedAt(t)

LEMMA Exclusive ==
  ASSUME NEW x \in Working, NEW y \in Working, Apart(x, y), NEW kind, NEW id
  PROVE  /\ Update(kind, id) \in x.held => \A l \in y.held : l.row # <<kind, id>>
         /\ Update(kind, id) \in y.held => \A l \in x.held : l.row # <<kind, id>>
<1>1. x.held \subseteq Locks /\ y.held \subseteq Locks BY DEF Working
<1>2. \A l \in Locks : l.mode # "read" BY DEF Locks
<1> QED BY <1>1, <1>2 DEF Apart, Conflict, Update

LEMMA CloseUnchanged ==
  ASSUME NEW y \in Working, OpenOK(y)
  PROVE  OwnStatements(y)' /\ LocksTaken(y)'
BY DEF OpenOK, OwnStatements, LocksTaken, Ahead, Elements, Mine, Needs, Reads, Locks,
       DishOps, Read, Share, Update, KeyShare

LEMMA OthersUndisturbed ==
  ASSUME BookInv, NEW x \in Working, NEW y \in Working, OpenOK(x), OpenOK(y), Apart(x, y),
         Writes(x), \A o \in Orders : RowStep(o)
  PROVE  OpenOK(y)'
<1> DEFINE c == y.cmd
<1>1. c \in Commands /\ y.held \subseteq Locks /\ x.cmd \in Commands BY DEF Working
<1>2. \A l \in y.held : Mine(c, l) BY DEF OpenOK, OwnStatements
<1>3. \A l \in x.held : Mine(x.cmd, l) BY DEF OpenOK, OwnStatements
<1>4. /\ dish \in [Dishes -> Dish] /\ order \in [Orders -> Order]
      /\ \A d \in Dishes : dish[d].version \in Nat
      /\ \A o \in Orders : order[o].version \in Nat
  BY DEF BookInv, TypeOK, Dish, Order
<1> HIDE DEF c
<1>5. \A l \in y.held : l.row[1] = "order" =>
        order'[c.id] = order[c.id] /\ order[c.id] = y.seen
  <2> SUFFICES ASSUME NEW l \in y.held, l.row[1] = "order"
               PROVE  order'[c.id] = order[c.id] /\ order[c.id] = y.seen
    OBVIOUS
  <2>1. /\ l = Update("order", c.id) /\ c.op \in {"order_update", "order_transition"}
        /\ c.id \in Orders
    BY <1>1, <1>2, RowTells, CommandFields
  <2>2. order[c.id] = y.seen /\ y.seen.status \in Active
    BY <2>1 DEF OpenOK, StillFound, Aims, c
  <2>3. Update("order", c.id) \notin x.held BY <2>1, Exclusive DEF Update
  <2>4. order[c.id].status # "absent" BY <2>2 DEF Active
  <2> QED BY <2>1, <2>2, <2>3, <2>4 DEF Writes
<1>6. \A l \in y.held, d \in Dishes : l.row = <<"dish", d>> => dish'[d] = dish[d]
  BY Exclusive DEF Writes
<1>7. \A l \in y.held, t \in Tables : l.row = <<"table", t>> /\ t \in tables => t \in tables'
  BY Exclusive DEF Writes
<1>8. StillFound(y)'
  <2> SUFFICES ASSUME NEW l \in y.held
               PROVE  /\ l.row[1] = "table" => l.row[2] \in tables'
                      /\ l.row[1] = "order" => order'[c.id] = y.seen /\ StatusAllows(c)'
                      /\ l.row[1] = "dish" =>
                           /\ c.op \in {"order_create", "order_update"} =>
                                dish'[l.row[2]].state = "active"
                           /\ c.op \in DishOps => dish'[c.id] = y.seen
    BY DEF StillFound, DishOps, c
  <2>1. /\ l.row[1] = "table" => l.row[2] \in tables
        /\ l.row[1] = "order" => StatusAllows(c)
        /\ l.row[1] = "dish" =>
             /\ c.op \in {"order_create", "order_update"} => dish[l.row[2]].state = "active"
             /\ c.op \in DishOps => dish[c.id] = y.seen
    BY DEF OpenOK, StillFound, c
  <2>2. CASE l.row[1] = "table"
    <3>1. \E t \in Tables : l.row = <<"table", t>>
      <4>1. l.row[2] \in Tables BY <2>1, <2>2 DEF BookInv, TypeOK
      <4>2. l.row = <<"table", l.row[2]>>
        BY <1>1, <1>2, <2>2, RowTells DEF Share, Update
      <4> QED BY <4>1, <4>2
    <3> QED BY <1>7, <2>1, <2>2, <3>1
  <2>3. CASE l.row[1] = "order"
    <3>1. order'[c.id] = order[c.id] /\ order[c.id] = y.seen BY <1>5, <2>3
    <3>2. StatusAllows(c)'
      BY <2>1, <2>3, <3>1 DEF StatusAllows, Editable, Preparable, Before, Active
    <3> QED BY <2>3, <3>1, <3>2
  <2>4. CASE l.row[1] = "dish"
    <3>1. \E d \in Dishes : l.row = <<"dish", d>> /\ (c.op \in DishOps => d = c.id)
      BY <1>1, <1>2, <2>4, RowTells, CommandFields DEF Share, Update, DishOps
    <3> QED BY <1>6, <2>1, <2>4, <3>1
  <2> QED BY <2>2, <2>3, <2>4
<1>9. StillRead(y)'
  <2>1. ASSUME c.op = "order_create", c.table = NoTable
        PROVE  Read("tables") \in Ahead(y) \/ tables' = {}
    BY <2>1 DEF OpenOK, StillRead, Writes, c
  <2>2. ASSUME Update("dish", c.id) \in y.held, c.op = "menu_delete",
               ServedBy(c.id) = {}
        PROVE  ServedBy(c.id)' = {}
    <3>1. c.id \in Dishes BY <1>1, <2>2, CommandFields DEF DishOps
    <3>2. Share("dish", c.id) \notin x.held BY <2>2, Exclusive DEF Share
    <3> QED BY <2>2, <3>1, <3>2 DEF Writes
  <2>3. ASSUME Update("table", c.id) \in y.held, c.op = "table_delete",
               SeatedAt(c.id) = {}
        PROVE  SeatedAt(c.id)' = {}
    <3>1. c.id \in Tables BY <1>1, <2>3, CommandFields
    <3>2. Share("table", c.id) \notin x.held BY <2>3, Exclusive DEF Share
    <3> QED BY <2>3, <3>1, <3>2 DEF Writes
  <2> QED BY <2>1, <2>2, <2>3 DEF OpenOK, StillRead, Ahead, Elements, Read, Update, c
<1>10. Aims(y)'
  <2>1. ASSUME c.op = "order_create" PROVE order'[c.id].status = "absent"
    <3>1. c.id \in Orders /\ order[c.id].status = "absent"
      BY <1>1, <2>1, CommandFields DEF OpenOK, Aims, c
    <3>2. Update("order", c.id) \notin x.held
      <4>1. SUFFICES ASSUME Update("order", c.id) \in x.held PROVE FALSE OBVIOUS
      <4>2. Update("order", c.id).row = <<"order", c.id>> BY DEF Update
      <4>3. /\ Update("order", c.id) = Update("order", x.cmd.id)
            /\ x.cmd.op \in {"order_update", "order_transition"}
        BY <1>1, <1>3, <4>1, <4>2, RowTells
      <4>4. x.cmd.id = c.id BY <4>3 DEF Update
      <4>5. order[x.cmd.id] = x.seen /\ x.seen.status \in Active
        BY <4>1, <4>2, <4>3 DEF OpenOK, StillFound, Aims
      <4> QED BY <3>1, <4>4, <4>5 DEF Active
    <3>3. ~(x.cmd.op = "order_create" /\ x.cmd.id = c.id) BY <2>1 DEF Apart, c
    <3> QED BY <3>1, <3>2, <3>3 DEF Writes
  <2>2. ASSUME c.op \in {"order_update", "order_transition"}
        PROVE  /\ y.seen.version <= order'[c.id].version
               /\ y.seen.version = order'[c.id].version => y.seen = order'[c.id]
    <3>1. c.id \in Orders BY <1>1, <2>2, CommandFields
    <3>2. /\ y.seen.version \in Nat /\ y.seen.status \in Active
          /\ y.seen.version <= order[c.id].version
          /\ y.seen.version = order[c.id].version => y.seen = order[c.id]
      BY <2>2 DEF OpenOK, Aims, Order, c
    <3>3. /\ order'[c.id].version \in {order[c.id].version, order[c.id].version + 1}
          /\ order[c.id].status \in Active /\ order'[c.id] # order[c.id] =>
               order'[c.id].version = order[c.id].version + 1
      BY <3>1 DEF RowStep, CountsChange
    <3>4. order[c.id].version \in Nat BY <1>4, <3>1
    <3> QED BY <3>2, <3>3, <3>4
  <2>3. ASSUME c.op \in DishOps
        PROVE  /\ y.seen.version <= dish'[c.id].version
               /\ y.seen.version = dish'[c.id].version => y.seen = dish'[c.id]
    <3>1. c.id \in Dishes BY <1>1, <2>3, CommandFields
    <3>2. /\ y.seen.version \in Nat
          /\ y.seen.version <= dish[c.id].version
          /\ y.seen.version = dish[c.id].version => y.seen = dish[c.id]
      BY <2>3 DEF OpenOK, Aims, Dish, c
    <3>3. dish'[c.id] # dish[c.id] => dish'[c.id].version = dish[c.id].version + 1
      BY <3>1 DEF Writes
    <3>4. dish[c.id].version \in Nat BY <1>4, <3>1
    <3> QED BY <3>2, <3>3, <3>4
  <2> QED BY <2>1, <2>2, <2>3 DEF OpenOK, Aims, DishOps, Order, Dish, Line, Quantity,
                                  Active, c
<1> QED BY <1>8, <1>9, <1>10, CloseUnchanged DEF OpenOK

-----------------------------------------------------------------------------
\* A transaction that commits is a command of the book, on the rows as they are.

LEMMA NothingAhead ==
  ASSUME NEW x \in Working, OpenOK(x), x.todo = <<>>
  PROVE  /\ \A l \in Locks : Needs(x.cmd, l) => l \in x.held
         /\ \A kind : Read(kind) \notin Ahead(x)
BY Short DEF OpenOK, LocksTaken, Ahead

LEMMA AskedBasket ==
  ASSUME NEW cart \in Carts
  PROVE  /\ Asked(cart) \in Baskets
         /\ \A d \in Dishes : Asked(cart)[d] > 0 => \E i \in DOMAIN cart : cart[i].dish = d
<1>1. ASSUME NEW d \in Dishes, NEW i \in DOMAIN cart, cart[i].dish = d
      PROVE  Asked(cart)[d] \in 1..MaxQuantity
  <2> DEFINE line == CHOOSE l \in {cart[j] : j \in DOMAIN cart} : l.dish = d
  <2>1. line \in {cart[j] : j \in DOMAIN cart} BY <1>1
  <2>2. line.quantity \in 1..MaxQuantity BY <2>1, CartLocks
  <2>3. Asked(cart)[d] = line.quantity BY <1>1 DEF Asked
  <2> QED BY <2>2, <2>3
<1>2. ASSUME NEW d \in Dishes, \A i \in DOMAIN cart : cart[i].dish # d
      PROVE  Asked(cart)[d] = 0
  BY <1>2 DEF Asked
<1>3. Asked(cart) \in [Dishes -> Quantity]
  <2>1. Asked(cart) = [d \in Dishes |-> Asked(cart)[d]] BY DEF Asked
  <2>2. \A d \in Dishes : Asked(cart)[d] \in Quantity
    BY <1>1, <1>2, BookConstants DEF Quantity
  <2> QED BY <2>1, <2>2
<1>4. \E i \in DOMAIN cart : cart[i].dish \in Dishes
  <2>1. cart \in Seq([dish : Dishes, quantity : 1..MaxQuantity]) /\ cart # <<>>
    BY RequestsAssumption
  <2>2. 1 \in DOMAIN cart BY <2>1
  <2> QED BY <2>2, CartLocks
<1>5. \E d \in Dishes : Asked(cart)[d] > 0
  <2>1. PICK i \in DOMAIN cart : cart[i].dish \in Dishes BY <1>4
  <2>2. Asked(cart)[cart[i].dish] \in 1..MaxQuantity BY <1>1, <2>1
  <2> QED BY <2>1, <2>2
<1> QED BY <1>1, <1>2, <1>3, <1>5 DEF Baskets

\* The dishes of a cart are locked, and on the menu.
LEMMA CartHeld ==
  ASSUME NEW x \in Working, OpenOK(x), x.todo = <<>>,
         x.cmd.op \in {"order_create", "order_update"}
  PROVE  /\ OnMenu(Asked(x.cmd.cart))
         /\ \A d \in Dishes : Asked(x.cmd.cart)[d] > 0 => Share("dish", d) \in x.held
         /\ x.cmd.table # NoTable => Share("table", x.cmd.table) \in x.held
                                     /\ x.cmd.table \in tables
<1>1. x.cmd \in Commands BY DEF Working
<1>2. x.cmd.cart \in Carts /\ x.cmd.table \in Tables \cup {NoTable} BY <1>1, CommandFields
<1>3. \A d \in Dishes : Asked(x.cmd.cart)[d] > 0 => Share("dish", d) \in x.held
  <2> SUFFICES ASSUME NEW d \in Dishes, Asked(x.cmd.cart)[d] > 0
               PROVE  Share("dish", d) \in x.held
    OBVIOUS
  <2>1. Needs(x.cmd, Share("dish", d)) BY <1>2, AskedBasket DEF Needs
  <2> QED BY <2>1, NothingAhead, LockTypes
<1>4. \A d \in Dishes : Share("dish", d) \in x.held => dish[d].state = "active"
  BY DEF Share, OpenOK, StillFound
<1>5. ASSUME x.cmd.table # NoTable
      PROVE  Share("table", x.cmd.table) \in x.held /\ x.cmd.table \in tables
  <2>1. Share("table", x.cmd.table) \in x.held
    BY <1>2, <1>5, NothingAhead, LockTypes DEF Needs
  <2> QED BY <2>1 DEF Share, OpenOK, StillFound
<1> QED BY <1>3, <1>4, <1>5 DEF OnMenu

LEMMA CreateCommits ==
  ASSUME BookInv, NEW x \in Working, OpenOK(x), x.todo = <<>>, x.cmd.op = "order_create",
         Placed(x.cmd.id, Asked(x.cmd.cart), x.cmd.table)
  PROVE  Next /\ Writes(x)
<1> DEFINE o == x.cmd.id
           b == Asked(x.cmd.cart)
           t == x.cmd.table
           lines == Lines(NoOrder.lines, b)
<1>1. x.cmd \in Commands BY DEF Working
<1>2. o \in Orders /\ t \in Tables \cup {NoTable} /\ b \in Baskets
  BY <1>1, CommandFields, AskedBasket
<1>3. order[o].status = "absent" BY DEF OpenOK, Aims
<1>4. t \in tables \/ (t = NoTable /\ tables = {})
  BY CartHeld, NothingAhead DEF OpenOK, StillRead
<1>5. OrderCreate(o, b, t) BY <1>3, <1>4, CartHeld DEF OrderCreate
<1>6. Next BY <1>2, <1>5 DEF Next, OrderStep
<1>7. \A d \in Dishes : lines[d].quantity = b[d]
  <2>1. NoOrder.lines \in [Dishes -> Line]
    BY BookConstants DEF NoOrder, NoLine, Line, Quantity
  <2> QED BY <1>2, <2>1, LinesWritten DEF BookInv, TypeOK
<1>8. /\ order'[o].lines = lines /\ order'[o].table = t
      /\ \A p \in Orders \ {o} : order'[p] = order[p]
      /\ UNCHANGED <<dish, stock, ledger, tables>>
  BY <1>2 DEF Placed, BookInv, TypeOK
<1>9. ASSUME NEW d \in Dishes, Share("dish", d) \notin x.held
      PROVE  ServedBy(d)' \subseteq ServedBy(d)
  <2>1. ~(b[d] > 0) BY <1>9, CartHeld
  <2>2. ~OnOrder(o, d)' BY <1>7, <1>8, <2>1 DEF OnOrder
  <2> QED BY <1>8, <2>2 DEF ServedBy, OnOrder, Active
<1>10. ASSUME NEW u \in Tables, Share("table", u) \notin x.held
       PROVE  SeatedAt(u)' \subseteq SeatedAt(u)
  <2>1. t # u BY <1>10, CartHeld, BookConstants
  <2> QED BY <1>8, <2>1 DEF SeatedAt, Active
<1> HIDE DEF o
<1>11. \A p \in Orders : order'[p] # order[p] => p = o BY <1>8
<1> QED BY <1>3, <1>6, <1>8, <1>9, <1>10, <1>11 DEF Writes, o

LEMMA OrderHeld ==
  ASSUME NEW x \in Working, OpenOK(x), x.todo = <<>>,
         x.cmd.op \in {"order_update", "order_transition"}
  PROVE  /\ x.cmd.id \in Orders /\ Update("order", x.cmd.id) \in x.held
         /\ order[x.cmd.id] = x.seen /\ StatusAllows(x.cmd)
         /\ x.seen.status \in Active /\ x.seen.version < MaxVersion
<1>1. x.cmd \in Commands /\ x.cmd.id \in Orders BY CommandFields DEF Working
<1>2. Update("order", x.cmd.id) \in x.held
  BY <1>1, NothingAhead, LockTypes DEF Needs
<1>3. order[x.cmd.id] = x.seen /\ StatusAllows(x.cmd)
  BY <1>2 DEF Update, OpenOK, StillFound
<1> QED BY <1>1, <1>2, <1>3 DEF OpenOK, Aims

LEMMA UpdateCommits ==
  ASSUME BookInv, NEW x \in Working, OpenOK(x), x.todo = <<>>, x.cmd.op = "order_update",
         Edited(x.cmd.id, Asked(x.cmd.cart), x.cmd.table)
  PROVE  Next /\ Writes(x)
<1> DEFINE o == x.cmd.id
           b == Asked(x.cmd.cart)
           t == x.cmd.table
           lines == Lines(order[o].lines, b)
<1>1. x.cmd \in Commands BY DEF Working
<1>2. o \in Orders /\ t \in Tables \cup {NoTable} /\ b \in Baskets
  BY <1>1, CommandFields, AskedBasket
<1>3. order[o].status = "pending" /\ order[o].version < MaxVersion
  BY OrderHeld DEF StatusAllows, Editable, Preparable
<1>4. t \in tables \cup {NoTable} BY CartHeld
<1>5. OrderUpdate(o, b, t)
  BY <1>3, <1>4, CartHeld DEF OrderUpdate, Editable
<1>6. Next BY <1>2, <1>5 DEF Next, OrderStep
<1>7. order[o] \in Order BY <1>2 DEF BookInv, TypeOK
<1>8. \A d \in Dishes : lines[d].quantity = b[d]
  <2>1. order[o].lines \in [Dishes -> Line] BY <1>7 DEF Order
  <2> QED BY <1>2, <2>1, LinesWritten DEF BookInv, TypeOK
<1>9. /\ order'[o].lines = lines
      /\ order'[o].table = IF t = NoTable THEN order[o].table ELSE t
      /\ \A p \in Orders \ {o} : order'[p] = order[p]
      /\ UNCHANGED <<dish, stock, ledger, tables>>
  <2>1. order'[o] = [order[o] EXCEPT !.version = @ + 1, !.lines = lines,
                                     !.table = IF t = NoTable THEN @ ELSE t,
                                     !.takenAt = IF t = NoTable THEN @ ELSE t]
    BY <1>2 DEF Edited, BookInv, TypeOK
  <2> HIDE DEF lines, o, t
  <2>2. order'[o].lines = lines /\ order'[o].table = IF t = NoTable THEN order[o].table ELSE t
    BY <1>7, <2>1 DEF Order
  <2> QED BY <2>2 DEF Edited, BookInv, TypeOK, o
<1>10. ASSUME NEW d \in Dishes, Share("dish", d) \notin x.held
       PROVE  ServedBy(d)' \subseteq ServedBy(d)
  <2>1. ~(b[d] > 0) BY <1>10, CartHeld
  <2>2. ~OnOrder(o, d)' BY <1>8, <1>9, <2>1 DEF OnOrder
  <2> QED BY <1>9, <2>2 DEF ServedBy, OnOrder, Active
<1>11. ASSUME NEW u \in Tables, Share("table", u) \notin x.held
       PROVE  SeatedAt(u)' \subseteq SeatedAt(u)
  <2>1. t # NoTable => t # u BY <1>11, CartHeld
  <2> HIDE DEF o, t, b, lines
  <2>2. order'[o].table = u => order[o].table = u BY <1>9, <2>1
  <2> QED BY <1>3, <1>9, <2>2 DEF SeatedAt, Active
<1> HIDE DEF o
<1>12. \A p \in Orders : order'[p] # order[p] => p = o BY <1>9
<1> QED BY <1>6, <1>9, <1>10, <1>11, <1>12, OrderHeld DEF Writes, o

\* A transition leaves the dishes and the table of the order as they are.
LEMMA MoveCommits ==
  ASSUME BookInv, NEW x \in Working, OpenOK(x), x.todo = <<>>,
         x.cmd.op = "order_transition", Feasible(x.cmd), Effect(x.cmd)
  PROVE  Next /\ Writes(x)
<1> DEFINE o == x.cmd.id
<1>1. x.cmd \in Commands /\ x.cmd.status \in Statuses BY CommandFields DEF Working
<1>2. /\ o \in Orders /\ Update("order", o) \in x.held /\ StatusAllows(x.cmd)
      /\ order[o].status \in Active /\ order[o].version < MaxVersion
  BY OrderHeld
<1>3. order[o] \in Order BY <1>2 DEF BookInv, TypeOK
<1>4. /\ Next
      /\ order'[o].lines = order[o].lines /\ order'[o].table = order[o].table
      /\ \A p \in Orders \ {o} : order'[p] = order[p]
      /\ UNCHANGED <<dish, tables>>
  <2>1. CASE x.cmd.status = "preparing"
    <3>1. Prepared(o) /\ Enough(o) /\ Countable(o) /\ Unconsumed(o) /\ Preparable(o)
      BY <1>2, <2>1 DEF Effect, Feasible, StatusAllows
    <3>2. Prepare(o) BY <1>2, <3>1 DEF Prepare
    <3>3. Next BY <1>2, <3>2 DEF Next, OrderStep
    <3>4. /\ order'[o] = [order[o] EXCEPT
                            !.status = "preparing", !.version = @ + 1, !.prepared = TRUE,
                            !.used = [d \in Drinks |-> @[d] + order[o].lines[d].quantity]]
          /\ \A p \in Orders \ {o} : order'[p] = order[p]
          /\ UNCHANGED <<dish, tables>>
      BY <1>2, <3>1 DEF Prepared, BookInv, TypeOK
    <3> HIDE DEF o
    <3>5. order'[o].lines = order[o].lines /\ order'[o].table = order[o].table
      BY <1>3, <3>4 DEF Order
    <3> QED BY <3>3, <3>4, <3>5
  <2>2. CASE x.cmd.status # "preparing"
    <3>1. x.cmd.status \in {"ready", "completed", "cancelled"} BY <1>1, <2>2 DEF Statuses
    <3>2. MoveTo(o, x.cmd.status) BY <2>2 DEF Effect
    <3>3. order[o].status \in Before(x.cmd.status) BY <1>2, <2>2 DEF StatusAllows
    <3>4. Transition(o, x.cmd.status) BY <1>2, <3>2, <3>3 DEF Transition
    <3>5. Next BY <1>2, <3>1, <3>4 DEF Next, OrderStep
    <3>6. /\ order'[o] = [order[o] EXCEPT !.status = x.cmd.status, !.version = @ + 1]
          /\ \A p \in Orders \ {o} : order'[p] = order[p]
          /\ UNCHANGED <<dish, tables>>
      BY <1>2, <3>2 DEF MoveTo, BookInv, TypeOK
    <3> HIDE DEF o
    <3>7. order'[o].lines = order[o].lines /\ order'[o].table = order[o].table
      BY <1>3, <3>6 DEF Order
    <3> QED BY <3>5, <3>6, <3>7
  <2> QED BY <2>1, <2>2
<1> HIDE DEF o
<1>5. \A p \in Orders : order'[p] # order[p] => p = o BY <1>4
<1>6. \A d \in Dishes : ServedBy(d)' \subseteq ServedBy(d)
  BY <1>2, <1>4, <1>5 DEF ServedBy, OnOrder, Active
<1>7. \A t \in Tables : SeatedAt(t)' \subseteq SeatedAt(t)
  BY <1>2, <1>4, <1>5 DEF SeatedAt, Active
<1> QED BY <1>2, <1>4, <1>5, <1>6, <1>7 DEF Writes

LEMMA DishCommits ==
  ASSUME BookInv, NEW x \in Working, OpenOK(x), x.todo = <<>>, x.cmd.op \in DishOps,
         Effect(x.cmd)
  PROVE  Next /\ Writes(x)
<1> DEFINE d == x.cmd.id
<1>1. x.cmd \in Commands /\ d \in Dishes BY CommandFields DEF Working
<1>2. Update("dish", d) \in x.held BY <1>1, NothingAhead, LockTypes DEF Needs
<1>3. dish[d] = x.seen BY <1>2 DEF Update, OpenOK, StillFound
<1>4. Known(d) BY <1>3 DEF Known, OpenOK, Aims
<1>5. PICK s, p : DishSet(d, s, p)
  BY DEF Effect, DishOps
<1>6. /\ \A e \in Dishes : dish'[e] # dish[e] => e = d /\ dish'[d].version = dish[d].version + 1
      /\ UNCHANGED <<stock, ledger, order, tables>>
  BY <1>1, <1>5 DEF DishSet, BookInv, TypeOK
<1>7. DishStep(d)
  <2>1. CASE x.cmd.op = "menu_update"
    <3>1. MenuUpdate(d, x.cmd.price, x.cmd.state)
      BY <1>4, <2>1 DEF MenuUpdate, Effect
    <3> QED BY <1>1, <2>1, <3>1, CommandFields DEF DishStep
  <2>2. CASE x.cmd.op = "recipe_set"
    BY <1>4, <2>2 DEF DishStep, RecipeSet, Effect
  <2>3. CASE x.cmd.op = "menu_delete"
    <3>1. ServedBy(d) = {} BY <2>3 DEF OpenOK, StillRead
    <3> QED BY <1>4, <2>3, <3>1 DEF DishStep, MenuDelete, Effect
  <2> QED BY <2>1, <2>2, <2>3 DEF DishOps
<1>8. Next BY <1>1, <1>7 DEF Next
<1> HIDE DEF d
<1>9. \A e \in Dishes : ServedBy(e)' = ServedBy(e)
  BY <1>6 DEF ServedBy, OnOrder, Active
<1>10. \A t \in Tables : SeatedAt(t)' = SeatedAt(t)
  BY <1>6 DEF SeatedAt, Active
<1> QED BY <1>2, <1>6, <1>8, <1>9, <1>10 DEF Writes

LEMMA MovementCommits ==
  ASSUME BookInv, NEW x \in Working, OpenOK(x), x.cmd.op = "inventory_record",
         Feasible(x.cmd), Effect(x.cmd)
  PROVE  Next /\ Writes(x)
<1> DEFINE d == x.cmd.id
           kind == x.cmd.move.kind
           n == x.cmd.move.pieces
<1>1. x.cmd \in Commands /\ d \in Drinks /\ x.cmd.move \in Movements
  BY CommandFields DEF Working
<1>2. /\ kind \in {"purchase", "wastage", "adjustment"}
      /\ n \in -MaxQuantity..MaxQuantity /\ n # 0
      /\ (kind = "purchase" => n > 0) /\ (kind = "wastage" => n < 0)
  BY <1>1, RequestsAssumption
<1>3. Movable(d, n) /\ StockMoved(d, kind, n) BY DEF Feasible, Effect
<1>4. InventoryRecord(d, kind, n) BY <1>2, <1>3 DEF InventoryRecord
<1>5. Next BY <1>1, <1>2, <1>4 DEF Next, StockStep
<1>6. UNCHANGED <<dish, order, tables>> BY <1>3 DEF StockMoved
<1> QED BY <1>5, <1>6 DEF Writes, ServedBy, SeatedAt, OnOrder, Active

LEMMA TableCommits ==
  ASSUME BookInv, NEW x \in Working, OpenOK(x), x.todo = <<>>, x.cmd.op = "table_delete",
         TableGone(x.cmd.id)
  PROVE  Next /\ Writes(x)
<1> DEFINE t == x.cmd.id
<1>1. x.cmd \in Commands /\ t \in Tables BY CommandFields DEF Working
<1>2. Update("table", t) \in x.held BY <1>1, NothingAhead, LockTypes DEF Needs
<1>3. t \in tables BY <1>2 DEF Update, OpenOK, StillFound
<1>4. SeatedAt(t) = {} BY DEF OpenOK, StillRead
<1>5. TableDelete(t) BY <1>3, <1>4 DEF TableDelete
<1>6. Next BY <1>1, <1>5 DEF Next
<1> HIDE DEF t
<1>7. /\ tables' = tables \ {t} /\ UNCHANGED <<dish, stock, ledger>>
      /\ \A o \in Orders : order'[o] = IF order[o].table = t
                             THEN [order[o] EXCEPT !.table = NoTable] ELSE order[o]
  BY DEF TableGone, t
<1>8. ASSUME NEW o \in Orders
      PROVE  /\ order'[o] # order[o] => order[o].status \notin Active
             /\ order'[o].status = order[o].status /\ order'[o].lines = order[o].lines
             /\ order'[o].table \in {order[o].table, NoTable}
  <2>1. order[o] \in Order BY DEF BookInv, TypeOK
  <2>2. order[o].table = t => order[o].status \notin Active BY <1>4 DEF SeatedAt
  <2> QED BY <1>7, <2>1, <2>2 DEF Order
<1>9. \A d \in Dishes : ServedBy(d)' \subseteq ServedBy(d)
  BY <1>8 DEF ServedBy, OnOrder, Active
<1>10. \A u \in Tables : SeatedAt(u)' \subseteq SeatedAt(u)
  BY <1>8, BookConstants DEF SeatedAt, Active
<1> QED BY <1>2, <1>6, <1>7, <1>8, <1>9, <1>10 DEF Writes

LEMMA CommitIsCommand ==
  ASSUME BookInv, NEW x \in Working, OpenOK(x), x.todo = <<>>,
         Feasible(x.cmd), Effect(x.cmd)
  PROVE  Next /\ Writes(x)
<1>1. x.cmd \in Commands BY DEF Working
<1>2. CASE x.cmd.op = "order_create" BY <1>2, CreateCommits DEF Effect
<1>3. CASE x.cmd.op = "order_update" BY <1>3, UpdateCommits DEF Effect
<1>4. CASE x.cmd.op = "order_transition" BY <1>4, MoveCommits
<1>5. CASE x.cmd.op \in DishOps BY <1>5, DishCommits
<1>6. CASE x.cmd.op = "inventory_record" BY <1>6, MovementCommits
<1>7. CASE x.cmd.op = "table_delete" BY <1>7, TableCommits DEF Effect
<1> QED BY <1>1, <1>2, <1>3, <1>4, <1>5, <1>6, <1>7, CommandFields

-----------------------------------------------------------------------------
\* The sessions.

LEMMA IdleApart ==
  ASSUME NEW x
  PROVE  Apart(Idle, x) /\ Apart(x, Idle) /\ Idle \notin Working
<1>1. \A y \in Working : y.cmd.op # "none" BY CommandFields DEF Working, DishOps
<1> QED BY <1>1 DEF Apart, Idle

LEMMA OpenSession ==
  ASSUME DeskTypeOK, NEW s \in Sessions
  PROVE  /\ Open(s) <=> session[s] \in Working
         /\ ~Open(s) <=> session[s] = Idle
         /\ session[s].todo # <<>> => session[s] \in Working
<1>1. session[s] \in Working \cup {Idle} BY DEF DeskTypeOK
<1>2. \A x \in Working : x.cmd.op # "none" BY CommandFields DEF Working, DishOps
<1>3. Idle.cmd.op = "none" /\ Idle.todo = <<>> BY DEF Idle
<1> QED BY <1>1, <1>2, <1>3 DEF Open

\* The session s becomes y and disturbs no other.
LEMMA SessionBecomes ==
  ASSUME DeskInv, NEW s \in Sessions, NEW y \in Working \cup {Idle},
         session' = [session EXCEPT ![s] = y], BookInv',
         y \in Working => OpenOK(y)',
         \A r \in Sessions \ {s} : \A x \in Working : session[r] = x => OpenOK(x)',
         \A r \in Sessions \ {s} : Apart(y, session[r]) /\ Apart(session[r], y)
  PROVE  DeskInv'
<1>1. session' \in [Sessions -> Working \cup {Idle}] BY DEF DeskInv, DeskTypeOK
<1>2. DeskTypeOK' BY <1>1 DEF DeskTypeOK
<1>3. session'[s] = y /\ \A r \in Sessions \ {s} : session'[r] = session[r]
  BY DEF DeskInv, DeskTypeOK
<1>4. \A r \in Sessions, x \in Working : session'[r] = x => OpenOK(x)' BY <1>3
<1>5. ASSUME NEW q \in Sessions, NEW r \in Sessions, q # r
      PROVE  Apart(session[q], session[r])'
  <2>1. Apart(session'[q], session'[r]) BY <1>3, <1>5 DEF DeskInv
  <2> QED BY <2>1 DEF Apart, Conflict
<1> QED BY <1>2, <1>4, <1>5 DEF DeskInv

LEMMA SessionEnds ==
  ASSUME DeskInv, NEW s \in Sessions, session' = [session EXCEPT ![s] = Idle], BookInv',
         \A r \in Sessions \ {s} : \A x \in Working : session[r] = x => OpenOK(x)'
  PROVE  DeskInv'
BY IdleApart, SessionBecomes

\* While the rows stay nothing that was found changes.
LEMMA RowsStay ==
  ASSUME UNCHANGED vars, BookInv
  PROVE  BookInv' /\ \A x \in Working : OpenOK(x) => OpenOK(x)'
<1>1. /\ dish' = dish /\ stock' = stock /\ ledger' = ledger /\ order' = order
      /\ tables' = tables
  BY DEF vars
<1>2. ASSUME NEW x \in Working, OpenOK(x) PROVE OpenOK(x)'
  <2>1. StillFound(x)'
    BY <1>1, <1>2 DEF OpenOK, StillFound, StatusAllows, DishOps, Editable, Preparable,
                      Before, Active
  <2>2. StillRead(x)'
    BY <1>1, <1>2 DEF OpenOK, StillRead, Ahead, Elements, Read, Update, ServedBy,
                      SeatedAt, OnOrder, Active
  <2>3. Aims(x)'
    BY <1>1, <1>2 DEF OpenOK, Aims, DishOps, Order, Dish, Line, Quantity, Active
  <2> QED BY <1>2, <2>1, <2>2, <2>3, CloseUnchanged DEF OpenOK
<1> QED BY <1>1, <1>2, NextBookInv

LEMMA RollbackStep ==
  ASSUME DeskInv, NEW s \in Sessions, Rollback(s)
  PROVE  DeskInv' /\ UNCHANGED vars
BY SessionEnds, RowsStay DEF Rollback, DeskInv

LEMMA BeginStep ==
  ASSUME DeskInv, NEW s \in Sessions, NEW c \in Commands, Begin(s, c)
  PROVE  DeskInv' /\ UNCHANGED vars
<1> DEFINE y == [cmd |-> c, seen |-> RowOf(c), todo |-> Plan(c), held |-> {}]
<1>1. /\ session' = [session EXCEPT ![s] = y] /\ UNCHANGED vars
      /\ Sensible(c) /\ InBounds(c)
  BY DEF Begin
<1>2. /\ y.cmd = c /\ y.seen = RowOf(c) /\ y.todo = Plan(c) /\ y.held = {}
      /\ y = [cmd |-> y.cmd, seen |-> y.seen, todo |-> y.todo, held |-> y.held]
  OBVIOUS
<1>3. /\ order \in [Orders -> Order] /\ dish \in [Dishes -> Dish]
      /\ \A o \in Orders : order[o].version \in Nat
      /\ \A d \in Dishes : dish[d].version \in Nat
  BY DEF DeskInv, BookInv, TypeOK, Order, Dish
<1> HIDE DEF y
<1>4. RowOf(c) \in Order \cup Dish \cup {[version |-> 0]}
  BY <1>3, CommandFields, RowRead DEF DishOps
<1>5. y \in Working
  <2>1. Plan(c) \in Seq(Statements) BY PlanOK
  <2>2. {} \in SUBSET Locks OBVIOUS
  <2> QED BY <1>2, <1>4, <2>1, <2>2, Zenon DEF Working
<1>6. OwnStatements(y) /\ LocksTaken(y) /\ StillFound(y)
  BY <1>2, PlanOK DEF OwnStatements, LocksTaken, StillFound, Ahead
<1>7. StillRead(y)
  BY <1>2, PlanOK, PlanLists DEF StillRead, Ahead
<1>8. Aims(y)
  <2>1. ASSUME c.op = "order_create" PROVE order[c.id].status = "absent"
    BY <1>1, <2>1, CommandFields DEF Sensible, DishOps
  <2>2. ASSUME c.op \in {"order_update", "order_transition"}
        PROVE  /\ RowOf(c) \in Order /\ RowOf(c).status \in Active
               /\ RowOf(c).version < MaxVersion
               /\ RowOf(c) = order[c.id] /\ order[c.id].version \in Nat
    <3>1. c.id \in Orders /\ RowOf(c) = order[c.id] BY <2>2, CommandFields, RowRead
    <3>2. order[c.id].version < MaxVersion BY <1>1, <2>2 DEF InBounds
    <3>3. order[c.id].status \in Active
      <4>1. CASE c.op = "order_update"
        BY <1>1, <4>1, CommandFields DEF Sensible, Active, DishOps
      <4>2. CASE c.op = "order_transition"
        BY <1>1, <4>2, CommandFields DEF Sensible, Active, Before, Statuses, DishOps
      <4> QED BY <2>2, <4>1, <4>2
    <3> QED BY <1>3, <3>1, <3>2, <3>3
  <2>3. ASSUME c.op \in DishOps
        PROVE  /\ RowOf(c) \in Dish /\ RowOf(c).state \in {"active", "inactive"}
               /\ RowOf(c).version < MaxEdits
               /\ RowOf(c) = dish[c.id] /\ dish[c.id].version \in Nat
    <3>1. c.id \in Dishes /\ RowOf(c) = dish[c.id] /\ c \in DishCommand
      BY <2>3, CommandFields, RowRead
    <3>2. dish[c.id].version < MaxEdits BY <1>1, <3>1 DEF InBounds
    <3>3. dish[c.id].state \in {"active", "inactive"}
      BY <1>1, <2>3, <3>1 DEF Sensible, DishOps
    <3> QED BY <1>3, <3>1, <3>2, <3>3
  <2> QED BY <1>2, <2>1, <2>2, <2>3 DEF Aims
<1>9. \A r \in Sessions \ {s} : Apart(y, session[r]) /\ Apart(session[r], y)
  BY <1>1, <1>2, CommandFields DEF Apart, Sensible, DishOps
<1>10. OpenOK(y) BY <1>6, <1>7, <1>8 DEF OpenOK
<1> QED BY <1>1, <1>5, <1>9, <1>10, RowsStay, SessionBecomes DEF DeskInv

LEMMA StatementStep ==
  ASSUME DeskInv, NEW s \in Sessions, Statement(s)
  PROVE  DeskInv' /\ UNCHANGED vars
<1> DEFINE st == Head(session[s].todo)
<1>1. session[s].todo # <<>> /\ Blockers(s) = {} BY DEF Statement
<1>2. PICK x \in Working : session[s] = x BY <1>1, OpenSession DEF DeskInv
<1>3. OpenOK(x) BY <1>2 DEF DeskInv
<1>4. CASE ~Passes(x.cmd, x.seen, st) BY <1>2, <1>4, RollbackStep DEF Statement
<1>5. CASE Passes(x.cmd, x.seen, st)
  <2> DEFINE y == [x EXCEPT !.todo = Tail(x.todo) \o Further(x.cmd, st),
                            !.held = IF st.mode = "read" THEN x.held ELSE x.held \cup {st}]
  <2>1. session' = [session EXCEPT ![s] = y] /\ UNCHANGED vars
    <3>1. /\ session' = [session EXCEPT
                ![s].todo = Tail(@) \o Further(session[s].cmd, st),
                ![s].held = IF st.mode = "read" THEN @ ELSE @ \cup {st}]
          /\ UNCHANGED vars
      BY <1>2, <1>5 DEF Statement
    <3> QED BY <1>2, <3>1 DEF DeskInv, DeskTypeOK
  <2>2. y \in Working /\ OpenOK(y) BY <1>1, <1>2, <1>3, <1>5, StatementOpenOK
  <2>3. y.cmd = x.cmd /\ y.held \subseteq x.held \cup {st}
        /\ (st \in y.held /\ st \notin x.held => st.mode # "read")
    BY DEF Working
  <2> HIDE DEF y, st
  <2>4. ASSUME NEW r \in Sessions \ {s}
        PROVE  Apart(y, session[r]) /\ Apart(session[r], y)
    <3>1. Apart(x, session[r]) /\ Apart(session[r], x) BY <1>2 DEF DeskInv
    <3>2. \A l \in session[r].held : ~Conflict(st, l) BY <1>1 DEF Blockers, st
    <3>3. \A l \in session[r].held : l.mode # "read"
      <4>1. session[r] \in Working \cup {Idle} BY DEF DeskInv, DeskTypeOK
      <4>2. session[r].held \subseteq Locks BY <4>1 DEF Working, Idle
      <4> QED BY <4>2 DEF Locks
    <3>4. \A l \in session[r].held : st \in y.held /\ st \notin x.held => ~Conflict(l, st)
      BY <2>3, <3>2, <3>3 DEF Conflict
    <3> QED BY <2>3, <3>1, <3>2, <3>4 DEF Apart
  <2> QED BY <2>1, <2>2, <2>4, RowsStay, SessionBecomes DEF DeskInv
<1> QED BY <1>4, <1>5

LEMMA CommitStep ==
  ASSUME DeskInv, NEW s \in Sessions, Commit(s)
  PROVE  DeskInv' /\ [Next]_vars
<1>1. PICK x \in Working : session[s] = x BY OpenSession DEF DeskInv, Commit
<1>2. OpenOK(x) /\ x.todo = <<>> BY <1>1 DEF DeskInv, Commit
<1>3. CASE ~Feasible(x.cmd) BY <1>1, <1>3, RollbackStep DEF Commit
<1>4. CASE Feasible(x.cmd)
  <2>1. Effect(x.cmd) /\ session' = [session EXCEPT ![s] = Idle]
    BY <1>1, <1>4 DEF Commit
  <2>2. Next /\ Writes(x) BY <1>2, <1>4, <2>1, CommitIsCommand DEF DeskInv
  <2>3. BookInv' BY <2>2, NextBookInv DEF DeskInv
  <2>4. \A o \in Orders : RowStep(o) BY <2>2, NextRowStep DEF DeskInv
  <2>5. ASSUME NEW r \in Sessions \ {s}, NEW y \in Working, session[r] = y
        PROVE  OpenOK(y)'
    <3>1. OpenOK(y) /\ Apart(x, y) BY <1>1, <2>5 DEF DeskInv
    <3> QED BY <1>2, <2>2, <2>4, <3>1, OthersUndisturbed DEF DeskInv
  <2> QED BY <2>1, <2>2, <2>3, <2>5, SessionEnds
<1> QED BY <1>3, <1>4

LEMMA SetupStep ==
  ASSUME DeskInv, Setup
  PROVE  DeskInv' /\ Next
<1>1. Next
  <2>1. ASSUME NEW d \in Dishes, NEW p \in Prices, MenuCreate(d, p, "active")
        PROVE  Next
    BY <2>1 DEF Next, DishStep
  <2>2. ASSUME NEW d \in Drinks, NEW p \in Prices, StockProductCreate(d, p, MaxStock)
        PROVE  Next
    <3>1. MaxStock \in 0..MaxStock BY BookConstants
    <3> QED BY <2>2, <3>1 DEF Next, StockStep
  <2> QED BY <2>1, <2>2 DEF Setup
<1>2. BookInv' BY <1>1, NextBookInv DEF DeskInv
<1>3. session' = session /\ \A s \in Sessions : session[s] = Idle
  BY OpenSession DEF Setup, DeskInv
<1>4. DeskTypeOK' BY <1>3 DEF DeskInv, DeskTypeOK
<1>5. \A s \in Sessions, x \in Working : session'[s] # x BY <1>3, IdleApart
<1>6. \A r, s \in Sessions : Apart(session[r], session[s])'
  BY <1>3 DEF Apart, Idle
<1> QED BY <1>1, <1>2, <1>4, <1>5, <1>6 DEF DeskInv

LEMMA InitDesk == DeskInit => DeskInv
<1> SUFFICES ASSUME DeskInit PROVE DeskInv OBVIOUS
<1>1. BookInv BY InitBookInv DEF DeskInit
<1>2. \A s \in Sessions : session[s] = Idle BY DEF DeskInit
<1>3. DeskTypeOK BY DEF DeskInit, DeskTypeOK
<1> QED BY <1>1, <1>2, <1>3, IdleApart DEF DeskInv

LEMMA NextDesk ==
  ASSUME DeskInv, [DeskNext]_deskVars
  PROVE  DeskInv' /\ [Next]_vars
<1>1. CASE Setup BY <1>1, SetupStep
<1>2. ASSUME NEW s \in Sessions, NEW c \in Commands, Begin(s, c)
      PROVE  DeskInv' /\ [Next]_vars
  BY <1>2, BeginStep
<1>3. ASSUME NEW s \in Sessions, Statement(s) PROVE DeskInv' /\ [Next]_vars
  BY <1>3, StatementStep
<1>4. ASSUME NEW s \in Sessions, Commit(s) PROVE DeskInv' /\ [Next]_vars
  BY <1>4, CommitStep
<1>5. ASSUME NEW s \in Sessions, Victim(s) PROVE DeskInv' /\ [Next]_vars
  BY <1>5, RollbackStep DEF Victim
<1>6. CASE UNCHANGED deskVars
  <2>1. UNCHANGED vars /\ session' = session BY <1>6 DEF deskVars
  <2>2. BookInv' /\ \A x \in Working : OpenOK(x) => OpenOK(x)'
    BY <2>1, RowsStay DEF DeskInv
  <2>3. DeskTypeOK' BY <2>1 DEF DeskInv, DeskTypeOK
  <2>4. \A r, s \in Sessions : r # s => Apart(session[r], session[s])'
    BY <2>1 DEF DeskInv, Apart, Conflict
  <2> QED BY <2>1, <2>2, <2>3, <2>4 DEF DeskInv
<1> QED BY <1>1, <1>2, <1>3, <1>4, <1>5, <1>6 DEF DeskNext

\* Whatever transactions are open, each may rely on what it has found
\* (command_core's FOR UPDATE and FOR SHARE, held to the commit by _rpc).
THEOREM DeskInvariant == DeskSpec => []DeskInv
BY InitDesk, NextDesk, PTL DEF DeskSpec

\* The interleaved transactions have exactly the effects of commands that run
\* one at a time (private.command_core).
THEOREM Serializable == DeskSpec => ImplementsOrderBook
<1>1. DeskInit => Init BY DEF DeskInit
<1>2. DeskInv /\ [DeskNext]_deskVars => [Next]_vars BY NextDesk
<1> QED BY DeskInvariant, <1>1, <1>2, PTL DEF DeskSpec, ImplementsOrderBook, Spec

\* A command about an order is carried out only on the order its caller had on
\* the screen: expect_version looks under the row's lock, and the lock keeps it.
THEOREM ActedOnLatest == DeskSpec => []DecidedOnLatest
<1>1. ASSUME DeskInv PROVE DecidedOnLatest
  <2> SUFFICES ASSUME NEW s \in Sessions,
                      session[s].cmd.op \in {"order_update", "order_transition"},
                      NEW l \in session[s].held, l.row[1] = "order"
               PROVE  session[s].seen = order[session[s].cmd.id]
    BY DEF DecidedOnLatest
  <2>1. session[s] \in Working BY <1>1, OpenSession DEF Open, DeskInv
  <2> QED BY <1>1, <2>1 DEF DeskInv, OpenOK, StillFound
<1> QED BY DeskInvariant, <1>1, PTL

-----------------------------------------------------------------------------
\* The order in which rows are locked.

LEMMA Levels ==
  /\ \A t \in Tables : Level(Share("table", t)) = 0 /\ Level(Update("table", t)) = 0
  /\ \A o \in Orders : Level(Update("order", o)) = 1
  /\ \A d \in Dishes : Level(Share("dish", d)) = 3 /\ Level(Update("dish", d)) = 2
  /\ \A d \in Drinks : Level(Update("stock", d)) = 3 + Place(d)
  /\ \A d \in Dishes : Place(d) \in Nat \ {0}
BY Places, BookConstants DEF Level, Share, Update

LEMMA AscendingTail ==
  ASSUME NEW q \in Seq(Statements), q # <<>>, Ascending(q)
  PROVE  /\ Ascending(Tail(q))
         /\ Head(q).mode # "read" =>
              \A l \in Elements(Tail(q)) : l.mode # "read" => Below(Head(q), l)
<1>1. PICK n \in Nat : DOMAIN q = 1..n /\ Len(q) = n OBVIOUS
<1>2. /\ DOMAIN Tail(q) = 1..(n - 1)
      /\ \A i \in DOMAIN Tail(q) : i + 1 \in DOMAIN q /\ Tail(q)[i] = q[i + 1]
  BY <1>1, HeadAndTail
<1>3. Head(q) = q[1] /\ 1 \in DOMAIN q BY <1>1
<1> DEFINE t == Tail(q)
<1> HIDE DEF t
<1>4. \A i, j \in DOMAIN t : i < j /\ "read" \notin {t[i].mode, t[j].mode} => Below(t[i], t[j])
  BY <1>2 DEF Ascending, t
<1>5. \A i \in DOMAIN t : 1 < i + 1 /\ i + 1 \in DOMAIN q /\ t[i] = q[i + 1]
  BY <1>2 DEF t
<1>6. ASSUME Head(q).mode # "read", NEW i \in DOMAIN t, t[i].mode # "read"
      PROVE  Below(Head(q), t[i])
  BY <1>3, <1>5, <1>6 DEF Ascending
<1> QED BY <1>4, <1>6 DEF Ascending, Elements, t

LEMMA AscendingJoin ==
  ASSUME NEW p \in Seq(Statements), NEW q \in Seq(Statements), Ascending(p), Ascending(q),
         \A k \in Elements(p), l \in Elements(q) :
           "read" \notin {k.mode, l.mode} => Below(k, l)
  PROVE  Ascending(p \o q)
<1>1. PICK m \in Nat : DOMAIN p = 1..m /\ Len(p) = m OBVIOUS
<1>2. PICK n \in Nat : DOMAIN q = 1..n /\ Len(q) = n OBVIOUS
<1>3. DOMAIN (p \o q) = 1..(m + n) BY <1>1, <1>2
<1>4. \A i \in 1..m : (p \o q)[i] = p[i] /\ p[i] \in Elements(p)
  BY <1>1, <1>2 DEF Elements
<1>5. ASSUME NEW i \in 1..(m + n), i \notin 1..m
      PROVE  i - m \in 1..n /\ (p \o q)[i] = q[i - m] /\ q[i - m] \in Elements(q)
  BY <1>1, <1>2, <1>5 DEF Elements
<1> DEFINE r == p \o q
<1>6. DOMAIN r = 1..(m + n) BY <1>3
<1>7. \A i \in 1..m : r[i] = p[i] BY <1>4
<1>8. \A i \in 1..(m + n) : i \notin 1..m => r[i] = q[i - m] BY <1>5
<1> HIDE DEF r
<1>9. ASSUME NEW i \in 1..(m + n), NEW j \in 1..(m + n), i < j,
             "read" \notin {r[i].mode, r[j].mode}
      PROVE  Below(r[i], r[j])
  <2>1. CASE j \in 1..m
    <3>1. i \in 1..m BY <1>9, <2>1
    <3> QED BY <1>1, <1>7, <1>9, <2>1, <3>1 DEF Ascending
  <2>2. CASE i \in 1..m /\ j \notin 1..m
    <3>1. /\ r[i] = p[i] /\ p[i] \in Elements(p)
          /\ r[j] = q[j - m] /\ q[j - m] \in Elements(q)
      BY <1>4, <1>5, <1>7, <1>8, <2>2
    <3> QED BY <1>9, <3>1
  <2>3. CASE i \notin 1..m
    <3>1. j \notin 1..m BY <1>9, <2>3
    <3>2. i - m \in DOMAIN q /\ j - m \in DOMAIN q BY <1>2, <1>5, <2>3, <3>1
    <3>3. i - m < j - m BY <1>9
    <3>4. r[i] = q[i - m] /\ r[j] = q[j - m] BY <1>8, <2>3, <3>1
    <3> QED BY <1>9, <3>2, <3>3, <3>4 DEF Ascending
  <2> QED BY <2>1, <2>2, <2>3
<1> QED BY <1>6, <1>9 DEF Ascending, r

LEMMA AscendingShort ==
  ASSUME NEW a, NEW b
  PROVE  /\ Ascending(<<>>) /\ Ascending(<<a>>)
         /\ "read" \in {a.mode, b.mode} => Ascending(<<a, b>>)
BY DEF Ascending

LEMMA AscendingShares ==
  ASSUME NEW q, \A i \in DOMAIN q : \E d \in Dishes : q[i] = Share("dish", d)
  PROVE  Ascending(q)
BY DEF Ascending, Below, Share

LEMMA AscendingPreparation ==
  ASSUME NEW o
  PROVE  Ascending(PrepareLocks(o))
<1> DEFINE dishes == {d \in Dishes : OnOrder(o, d)}
           drinks == {d \in Drinks : OnOrder(o, d)}
           shares == SharesOf("dish", ChosenIn(dishes))
           updates == UpdatesOf("stock", ChosenIn(drinks))
<1>1. dishes \in SUBSET Dishes /\ drinks \in SUBSET Dishes /\ drinks \in SUBSET Drinks
  BY BookConstants
<1> HIDE DEF dishes, drinks
<1>2. PICK m \in Nat : /\ DOMAIN ChosenIn(dishes) = 1..m
                       /\ \A i \in 1..m : ChosenIn(dishes)[i] \in dishes
  BY <1>1, Chosen
<1>3. PICK n \in Nat : /\ DOMAIN ChosenIn(drinks) = 1..n
                       /\ \A i \in 1..n : ChosenIn(drinks)[i] \in drinks
                       /\ \A i, j \in 1..n : i < j =>
                            Place(ChosenIn(drinks)[i]) < Place(ChosenIn(drinks)[j])
  BY <1>1, Chosen
<1>4. /\ DOMAIN shares = 1..m /\ shares = [i \in 1..m |-> shares[i]]
      /\ \A i \in 1..m : shares[i] = Share("dish", ChosenIn(dishes)[i])
  BY <1>2 DEF SharesOf
<1>5. /\ DOMAIN updates = 1..n /\ updates = [i \in 1..n |-> updates[i]]
      /\ \A i \in 1..n : updates[i] = Update("stock", ChosenIn(drinks)[i])
  BY <1>3 DEF UpdatesOf
<1> HIDE DEF shares, updates
<1>6. /\ \A i \in 1..m : shares[i] \in Statements
      /\ \A i \in 1..m : \E d \in Dishes : shares[i] = Share("dish", d)
  BY <1>1, <1>2, <1>4, LockTypes
<1>7. /\ \A i \in 1..n : updates[i] \in Statements
      /\ \A i \in 1..n : \E d \in Drinks : updates[i] = Update("stock", d)
  BY <1>1, <1>3, <1>5, LockTypes
<1>8. shares \in Seq(Statements) /\ Elements(shares) = {shares[i] : i \in 1..m}
  BY <1>2, <1>4, <1>6, Listed
<1>9. updates \in Seq(Statements) /\ Elements(updates) = {updates[i] : i \in 1..n}
  BY <1>3, <1>5, <1>7, Listed
<1>10. Ascending(shares) BY <1>4, <1>6, AscendingShares
<1>11. Ascending(updates)
  <2> SUFFICES ASSUME NEW i \in 1..n, NEW j \in 1..n, i < j PROVE Below(updates[i], updates[j])
    BY <1>5 DEF Ascending
  <2> DEFINE d == ChosenIn(drinks)[i]
             e == ChosenIn(drinks)[j]
  <2>1. d \in Drinks /\ e \in Drinks /\ Place(d) < Place(e) BY <1>1, <1>3
  <2>2. updates[i] = Update("stock", d) /\ updates[j] = Update("stock", e) BY <1>5
  <2> HIDE DEF d, e
  <2>3. Place(d) \in Nat /\ Place(e) \in Nat BY <2>1, Levels, BookConstants
  <2> QED BY <2>1, <2>2, <2>3, Levels DEF Below
<1>12. \A k \in Elements(shares), l \in Elements(updates) : Below(k, l)
  <2> SUFFICES ASSUME NEW k \in Elements(shares), NEW l \in Elements(updates) PROVE Below(k, l)
    OBVIOUS
  <2>1. PICK d \in Dishes : k = Share("dish", d) BY <1>6, <1>8
  <2>2. PICK e \in Drinks : l = Update("stock", e) BY <1>7, <1>9
  <2>3. Place(e) \in Nat \ {0} BY Levels, BookConstants
  <2> QED BY <2>1, <2>2, <2>3, Levels DEF Below
<1>13. PrepareLocks(o) = shares \o updates
  BY DEF PrepareLocks, shares, updates, dishes, drinks
<1> QED BY <1>8, <1>9, <1>10, <1>11, <1>12, <1>13, AscendingJoin

LEMMA AscendingPlan ==
  ASSUME NEW c \in Commands, c.op # "recipe_set"
  PROVE  Ascending(Plan(c))
<1>1. CASE c.op \in {"order_transition", "inventory_record"}
  BY <1>1, PlanLists, AscendingShort
<1>2. CASE c.op \in {"menu_update", "menu_delete", "table_delete"}
  <2>1. \A kind : Read(kind).mode = "read" BY DEF Read
  <2> QED BY <1>2, <2>1, PlanLists, AscendingShort
<1>3. CASE c.op \in {"order_create", "order_update"}
  <2>1. c.cart \in Carts /\ c.table \in Tables \cup {NoTable} BY <1>3, CommandFields
  <2>2. /\ ItemLocks(c.cart) \in Seq(Statements)
        /\ \A i \in DOMAIN ItemLocks(c.cart) :
             \E d \in Dishes : ItemLocks(c.cart)[i] = Share("dish", d)
        /\ \A l \in Elements(ItemLocks(c.cart)) : \E d \in Dishes : l = Share("dish", d)
    BY <2>1, CartLocks DEF ItemLocks
  <2>3. Ascending(ItemLocks(c.cart)) BY <2>2, AscendingShares
  <2>4. /\ TableLock(c.table) \in Seq(Statements) /\ Ascending(TableLock(c.table))
        /\ \A l \in Elements(TableLock(c.table)) :
             \E t \in Tables : l = Share("table", t)
    <3> DEFINE q == TableLock(c.table)
    <3>1. q = <<>> \/ \E t \in Tables : q = <<Share("table", t)>>
      BY <2>1 DEF TableLock
    <3>2. \A t \in Tables : Share("table", t) \in Statements BY LockTypes
    <3> HIDE DEF q
    <3>3. q \in Seq(Statements)
      <4>1. \A a \in Statements : <<a>> \in Seq(Statements) BY Pair
      <4>2. <<>> \in Seq(Statements) OBVIOUS
      <4> QED BY <3>1, <3>2, <4>1, <4>2
    <3>4. Ascending(q) BY <3>1, AscendingShort
    <3>5. \A l \in Elements(q) : \E t \in Tables : l = Share("table", t)
      BY <3>1, Short
    <3> QED BY <3>3, <3>4, <3>5 DEF q
  <2>5. CASE c.op = "order_create"
    <3> DEFINE first == IF c.table = NoTable THEN <<Read("tables")>>
                                             ELSE TableLock(c.table)
    <3>1. /\ first \in Seq(Statements) /\ Ascending(first)
          /\ \A l \in Elements(first) :
               l = Read("tables") \/ \E t \in Tables : l = Share("table", t)
      BY <2>4, AscendingShort, Pair, Short, LockTypes DEF Reads
    <3>2. Plan(c) = first \o ItemLocks(c.cart) BY <2>5, PlanLists
    <3> HIDE DEF first
    <3>3. \A k \in Elements(first), l \in Elements(ItemLocks(c.cart)) :
            "read" \notin {k.mode, l.mode} => Below(k, l)
      BY <2>2, <3>1, Levels DEF Below, Read
    <3> QED BY <2>2, <2>3, <3>1, <3>2, <3>3, AscendingJoin
  <2>6. CASE c.op = "order_update"
    <3> DEFINE table == TableLock(c.table)
               lock == <<Update("order", c.id)>>
               first == table \o lock
    <3>1. /\ lock \in Seq(Statements) /\ Ascending(lock) /\ c.id \in Orders
          /\ Elements(lock) = {Update("order", c.id)}
      BY <2>6, AscendingShort, Pair, Short, LockTypes, CommandFields
    <3>2. \A k \in Elements(table), l \in Elements(lock) : Below(k, l)
      BY <2>4, <3>1, Levels DEF Below
    <3>3. table \in Seq(Statements) /\ Ascending(table) BY <2>4
    <3>4. Plan(c) = first \o ItemLocks(c.cart) BY <2>6, PlanLists
    <3>5. /\ first \in Seq(Statements) /\ Ascending(first)
          /\ Elements(first) = Elements(table) \cup Elements(lock)
      <4> HIDE DEF table, lock
      <4> QED BY <3>1, <3>2, <3>3, AscendingJoin, Joined
    <3>6. \A l \in Elements(first) :
            l = Update("order", c.id) \/ \E t \in Tables : l = Share("table", t)
      BY <2>4, <3>1, <3>5
    <3> HIDE DEF first
    <3>7. \A k \in Elements(first), l \in Elements(ItemLocks(c.cart)) : Below(k, l)
      BY <2>2, <3>1, <3>6, Levels DEF Below
    <3> QED BY <2>2, <2>3, <3>4, <3>5, <3>7, AscendingJoin
  <2> QED BY <1>3, <2>5, <2>6
<1> QED BY <1>1, <1>2, <1>3, CommandFields DEF DishOps

LEMMA StatementInOrder ==
  ASSUME NEW x \in Working, OpenOK(x), InOrder(x), x.todo # <<>>,
         NEW st, st = Head(x.todo),
         NEW y, y = [x EXCEPT !.todo = Tail(x.todo) \o Further(x.cmd, st),
                              !.held = IF st.mode = "read" THEN x.held ELSE x.held \cup {st}]
  PROVE  InOrder(y)
<1> DEFINE c == x.cmd
<1>1. /\ c \in Commands /\ x.todo \in Seq(Statements) BY DEF Working
<1>2. /\ y.cmd = c /\ y.todo = Tail(x.todo) \o Further(c, st)
      /\ y.held = IF st.mode = "read" THEN x.held ELSE x.held \cup {st}
  BY DEF Working
<1>3. /\ Tail(x.todo) \in Seq(Statements) /\ Ahead(x) = {st} \cup Elements(Tail(x.todo))
  BY <1>1, HeadAndTail DEF Ahead
<1> HIDE DEF c
<1>4. CASE c.op = "recipe_set" BY <1>2, <1>4 DEF InOrder
<1>5. CASE c.op # "recipe_set" /\ Further(c, st) = <<>>
  <2>1. y.todo = Tail(x.todo) /\ Ahead(y) = Elements(Tail(x.todo))
    <3>1. \A q \in Seq(Statements) : q \o <<>> = q OBVIOUS
    <3> QED BY <1>2, <1>3, <1>5, <3>1 DEF Ahead
  <2>2. /\ Ascending(x.todo)
        /\ \A k \in x.held : \A l \in Ahead(x) : l.mode # "read" => Below(k, l)
    BY <1>5 DEF InOrder, c
  <2>3. /\ Ascending(Tail(x.todo))
        /\ st.mode # "read" =>
             \A l \in Elements(Tail(x.todo)) : l.mode # "read" => Below(st, l)
    BY <1>1, <2>2, AscendingTail
  <2>4. Ascending(y.todo) BY <2>1, <2>3
  <2>5. \A k \in y.held : \A l \in Ahead(y) : l.mode # "read" => Below(k, l)
    BY <1>2, <1>3, <2>1, <2>2, <2>3
  <2> QED BY <2>4, <2>5 DEF InOrder
<1>6. CASE Further(c, st) # <<>>
  <2>1. c.op = "order_transition" /\ st.row[1] = "order" /\ Further(c, st) = PrepareLocks(c.id)
    BY <1>6 DEF Further
  <2>2. c.id \in Orders BY <1>1, <2>1, CommandFields
  <2>3. st = Update("order", c.id)
    <3>1. Mine(c, st) BY <1>3 DEF OpenOK, OwnStatements, c
    <3> QED BY <1>1, <2>1, <3>1, RowTells
  <2>4. x.todo = <<Update("order", c.id)>> /\ x.held = {}
    BY <1>3, <2>1, <2>3 DEF OpenOK, StillRead, c
  <2>5. Tail(x.todo) = <<>> BY <2>4
  <2>6. PrepareLocks(c.id) \in Seq(Statements)
        /\ \A l \in Elements(PrepareLocks(c.id)) : PreparationLock(l)
    BY PreparationLocks
  <2>7. y.todo = PrepareLocks(c.id) /\ Ahead(y) = Elements(PrepareLocks(c.id))
    <3>1. \A q \in Seq(Statements) : <<>> \o q = q OBVIOUS
    <3> QED BY <1>2, <2>1, <2>5, <2>6, <3>1 DEF Ahead
  <2>8. y.held = {Update("order", c.id)} BY <1>2, <2>3, <2>4 DEF Update
  <2>9. \A l \in Ahead(y) : Below(Update("order", c.id), l)
    <3> SUFFICES ASSUME NEW l \in Ahead(y) PROVE Below(Update("order", c.id), l)
      OBVIOUS
    <3>1. PreparationLock(l) BY <2>6, <2>7
    <3>2. Level(l) > 1
      BY <3>1, Levels, BookConstants DEF PreparationLock
    <3> QED BY <2>2, <3>2, Levels DEF Below
  <2>10. Ascending(y.todo) BY <2>7, AscendingPreparation
  <2> QED BY <2>8, <2>9, <2>10 DEF InOrder
<1> QED BY <1>4, <1>5, <1>6


LEMMA InOrderStays ==
  ASSUME NEW x
  PROVE  InOrder(x)' <=> InOrder(x)
BY DEF InOrder, Ascending, Below, Level, Place, Ahead, Elements

\* The session s becomes y.
LEMMA OrderKept ==
  ASSUME DeskInv, OrderInv, NEW s \in Sessions, NEW y,
         session' = [session EXCEPT ![s] = y], y \in Working => InOrder(y)
  PROVE  OrderInv'
<1>1. session'[s] = y /\ \A r \in Sessions \ {s} : session'[r] = session[r]
  BY DEF DeskInv, DeskTypeOK
<1>2. \A r \in Sessions, x \in Working : session'[r] = x => InOrder(x)
  BY <1>1 DEF OrderInv
<1> QED BY <1>2, InOrderStays DEF OrderInv

LEMMA NextOrder ==
  ASSUME DeskInv, OrderInv, [DeskNext]_deskVars
  PROVE  OrderInv'
<1>1. ASSUME UNCHANGED session PROVE OrderInv'
  BY <1>1, InOrderStays DEF OrderInv
<1>2. ASSUME NEW s \in Sessions, session' = [session EXCEPT ![s] = Idle] PROVE OrderInv'
  BY <1>2, OrderKept, IdleApart
<1>3. ASSUME NEW s \in Sessions, NEW c \in Commands, Begin(s, c) PROVE OrderInv'
  <2> DEFINE y == [cmd |-> c, seen |-> RowOf(c), todo |-> Plan(c), held |-> {}]
  <2>1. session' = [session EXCEPT ![s] = y] BY <1>3 DEF Begin
  <2>2. y.cmd = c /\ y.todo = Plan(c) /\ y.held = {} OBVIOUS
  <2> HIDE DEF y
  <2>3. InOrder(y) BY <2>2, AscendingPlan DEF InOrder
  <2> QED BY <2>1, <2>3, OrderKept
<1>4. ASSUME NEW s \in Sessions, Statement(s) PROVE OrderInv'
  <2> DEFINE st == Head(session[s].todo)
  <2>1. session[s].todo # <<>> BY <1>4 DEF Statement
  <2>2. PICK x \in Working : session[s] = x BY <2>1, OpenSession DEF DeskInv
  <2>3. OpenOK(x) /\ InOrder(x) BY <2>2 DEF DeskInv, OrderInv
  <2>4. CASE ~Passes(x.cmd, x.seen, st)
    BY <1>2, <1>4, <2>2, <2>4 DEF Statement, Rollback
  <2>5. CASE Passes(x.cmd, x.seen, st)
    <3> DEFINE y == [x EXCEPT !.todo = Tail(x.todo) \o Further(x.cmd, st),
                              !.held = IF st.mode = "read" THEN x.held ELSE x.held \cup {st}]
    <3>1. session' = [session EXCEPT
                ![s].todo = Tail(@) \o Further(session[s].cmd, st),
                ![s].held = IF st.mode = "read" THEN @ ELSE @ \cup {st}]
      BY <1>4, <2>2, <2>5 DEF Statement
    <3>2. session' = [session EXCEPT ![s] = y] BY <2>2, <3>1 DEF DeskInv, DeskTypeOK
    <3>3. InOrder(y) BY <2>1, <2>2, <2>3, StatementInOrder
    <3> HIDE DEF y
    <3> QED BY <3>2, <3>3, OrderKept
  <2> QED BY <2>4, <2>5
<1>5. ASSUME NEW s \in Sessions, Commit(s) PROVE OrderInv'
  BY <1>2, <1>5 DEF Commit, Rollback
<1>6. ASSUME NEW s \in Sessions, Victim(s) PROVE OrderInv'
  BY <1>2, <1>6 DEF Victim, Rollback
<1> QED BY <1>1, <1>3, <1>4, <1>5, <1>6 DEF DeskNext, Setup, deskVars

\* A transaction only waits for a row that comes after those it holds, in the
\* order table, order, dish, stock by id; except an edit of a recipe (set_recipe).
THEOREM LockedInOrder == DeskSpec => [](DeskInv /\ OrderInv)
<1>1. DeskInit => OrderInv
  <2> SUFFICES ASSUME DeskInit PROVE OrderInv OBVIOUS
  <2>1. \A s \in Sessions : session[s] = Idle BY DEF DeskInit
  <2> QED BY <2>1, IdleApart DEF OrderInv
<1>2. DeskInv /\ OrderInv /\ [DeskNext]_deskVars => OrderInv' BY NextOrder
<1> QED BY DeskInvariant, <1>1, <1>2, PTL DEF DeskSpec

-----------------------------------------------------------------------------
\* Who waits for a session that waits.

Ordered(s) == session[s].cmd.op # "recipe_set"
Rank(s) == Level(Head(session[s].todo))

LEMMA Waiting ==
  ASSUME DeskInv, OrderInv, NEW s \in Sessions, Blockers(s) # {}, Ordered(s)
  PROVE  /\ session[s] \in Working /\ session[s].todo # <<>>
         /\ Mine(session[s].cmd, Head(session[s].todo))
         /\ Head(session[s].todo) \in Locks
         /\ \A l \in session[s].held : Below(l, Head(session[s].todo))
         /\ \A l \in session[s].held : Mine(session[s].cmd, l) /\ l \in Locks
<1>1. session[s].todo # <<>> /\ Head(session[s].todo).mode # "read"
  BY DEF Blockers, Conflict
<1>2. PICK x \in Working : session[s] = x BY <1>1, OpenSession DEF DeskInv
<1>3. OpenOK(x) /\ InOrder(x) BY <1>2 DEF DeskInv, OrderInv
<1>4. x.cmd \in Commands /\ x.todo \in Seq(Statements) /\ x.held \subseteq Locks
  BY DEF Working
<1>5. Head(x.todo) \in Ahead(x) BY <1>1, <1>2, <1>4, HeadAndTail DEF Ahead
<1>6. Mine(x.cmd, Head(x.todo)) /\ \A l \in x.held : Mine(x.cmd, l)
  BY <1>3, <1>5 DEF OpenOK, OwnStatements
<1>7. Head(x.todo) \in Locks BY <1>1, <1>2, <1>4, <1>6, RowTells
<1>8. \A l \in x.held : Below(l, Head(x.todo))
  BY <1>1, <1>2, <1>3, <1>5 DEF InOrder, Ordered
<1> QED BY <1>1, <1>2, <1>4, <1>6, <1>7, <1>8

LEMMA LockLevels ==
  ASSUME NEW c \in Commands, NEW l \in Locks, Mine(c, l)
  PROVE  /\ l.row[1] \in {"table", "order", "dish", "stock"}
         /\ Level(l) \in Nat
         /\ l.row[1] = "dish" => /\ l.mode = "share" => Level(l) = 3
                                 /\ l.mode = "update" => Level(l) = 2
                                 /\ l.mode \in {"share", "update"}
         /\ l.row[1] = "dish" /\ l.mode = "update" /\ c.op # "recipe_set" =>
              \A k \in Locks : Mine(c, k) => k.mode = "update" /\ k.row[1] = "dish"
<1>1. l.row[1] \in {"table", "order", "dish", "stock"} BY DEF Locks
<1>2. l.row[1] = "stock" => \E d \in Drinks : l.row[2] = d
  BY CommandFields, <1>1, LockTypes DEF Mine, Share, Update, KeyShare, DishOps
<1>3. Level(l) \in Nat
  BY <1>1, <1>2, Levels, BookConstants DEF Level
<1>4. l.row[1] = "dish" => l.mode \in {"share", "update"}
  BY RowTells DEF Share, Update
<1>5. l.row[1] = "dish" => /\ l.mode = "share" => Level(l) = 3
                           /\ l.mode = "update" => Level(l) = 2
  BY DEF Level
<1>6. ASSUME l.row[1] = "dish", l.mode = "update", c.op # "recipe_set",
             NEW k \in Locks, Mine(c, k)
      PROVE  k.mode = "update" /\ k.row[1] = "dish"
  <2>1. c.op \in DishOps /\ c.op # "recipe_set" BY <1>6, RowTells DEF Share
  <2> QED BY <1>6, <2>1, LockTypes DEF Mine, Update, DishOps
<1> QED BY <1>1, <1>3, <1>4, <1>5, <1>6

\* A session waits for sessions that wait for a later row.
LEMMA Climbs ==
  ASSUME DeskInv, OrderInv, NEW r \in Sessions, NEW q \in Blockers(r),
         Ordered(r), Ordered(q), Blockers(q) # {}
  PROVE  Rank(r) < Rank(q)
<1>1. q \in Sessions BY DEF Blockers
<1> DEFINE a == Head(session[r].todo)
           b == Head(session[q].todo)
           c == session[q].cmd
<1>2. PICK l \in session[q].held : Conflict(a, l) BY DEF Blockers
<1>3. /\ session[r] \in Working /\ session[r].cmd \in Commands
      /\ Mine(session[r].cmd, a) /\ a \in Locks
  BY Waiting DEF Working
<1>4. /\ c \in Commands /\ Mine(c, b) /\ b \in Locks
      /\ Mine(c, l) /\ l \in Locks /\ Below(l, b)
  BY <1>1, Waiting DEF Working
<1>5. c.op # "recipe_set" BY DEF Ordered
<1>6. Rank(r) = Level(a) /\ Rank(q) = Level(b) BY DEF Rank
<1>7. a.mode # "read" /\ a.row = l.row /\ "update" \in {a.mode, l.mode}
  BY <1>2 DEF Conflict
<1> HIDE DEF a, b, c
<1>8. Level(a) \in Nat /\ Level(b) \in Nat /\ Level(l) \in Nat
  BY <1>3, <1>4, LockLevels
<1>9. CASE l.row[1] # "dish"
  <2>1. Level(a) = Level(l) BY <1>7, <1>9 DEF Level
  <2> QED BY <1>4, <1>6, <1>8, <1>9, <2>1 DEF Below
<1>10. CASE l.row[1] = "dish" /\ l.mode = "share"
  <2>1. a.mode = "update" /\ Level(a) = 2 /\ Level(l) = 3
    BY <1>3, <1>4, <1>7, <1>10, LockLevels
  <2>2. Level(b) >= 3
    BY <1>4, <1>8, <2>1, LockLevels DEF Below
  <2> QED BY <1>6, <1>8, <2>1, <2>2
<1>11. CASE l.row[1] = "dish" /\ l.mode = "update"
  <2>1. b.mode = "update" /\ b.row[1] = "dish" BY <1>4, <1>5, <1>11, LockLevels
  <2>2. Level(b) = 2 /\ Level(l) = 2 BY <1>4, <1>11, <2>1, LockLevels
  <2> QED BY <1>4, <2>1, <2>2 DEF Below
<1> QED BY <1>4, <1>9, <1>10, <1>11, LockLevels

LEMMA Reachable ==
  ASSUME NEW s \in Sessions
  PROVE  /\ s \in Reach({s}) /\ Reach({s}) \subseteq Sessions
         /\ \A r \in Reach({s}) : Blockers(r) \subseteq Reach({s})
<1>1. \A r \in Sessions : Blockers(r) \subseteq Sessions BY DEF Blockers
<1>2. ASSUME NEW r \in Reach({s}), NEW q \in Blockers(r) PROVE q \in Reach({s})
  BY <1>1, <1>2 DEF Reach
<1> QED BY <1>2 DEF Reach

\* Were all the sessions that s waits for, directly or not, ordered, those that
\* wait for a later row than s or for none would be all it waits for.
LEMMA OrderedNeverCircular ==
  ASSUME DeskInv, OrderInv, NEW s \in Sessions,
         \A r \in Reach({s}) : Ordered(r)
  PROVE  ~Deadlocked(s)
<1> DEFINE later(r) == Blockers(r) = {} \/ Rank(s) < Rank(r)
           T == {r \in Reach({s}) \ {s} : later(r)}
<1>1. CASE Blockers(s) = {}
  <2>1. s \notin {} /\ {} \in SUBSET Sessions OBVIOUS
  <2> QED BY <1>1, <2>1 DEF Deadlocked, Reach
<1>2. CASE Blockers(s) # {}
  <2>1. \A r \in Reach({s}) : Blockers(r) # {} => Rank(r) \in Nat
    <3> SUFFICES ASSUME NEW r \in Reach({s}), Blockers(r) # {} PROVE Rank(r) \in Nat
      OBVIOUS
    <3>1. r \in Sessions /\ Ordered(r) BY Reachable
    <3>2. /\ session[r].cmd \in Commands /\ Head(session[r].todo) \in Locks
          /\ Mine(session[r].cmd, Head(session[r].todo))
      BY <3>1, Waiting DEF Working
    <3> QED BY <3>2, LockLevels DEF Rank
  <2>2. ASSUME NEW r \in Reach({s}), NEW q \in Blockers(r), r = s \/ r \in T
        PROVE  q \in T
    <3>1. /\ r \in Sessions /\ q \in Sessions /\ q \in Reach({s})
          /\ Ordered(r) /\ Ordered(q)
      BY Reachable
    <3>2. r = s \/ Rank(s) < Rank(r) BY <2>2
    <3>3. CASE Blockers(q) = {} BY <1>2, <3>1, <3>3
    <3>4. CASE Blockers(q) # {}
      <4>1. Rank(r) < Rank(q) BY <3>1, <3>4, Climbs
      <4>2. Rank(s) \in Nat /\ Rank(r) \in Nat /\ Rank(q) \in Nat
        BY <1>2, <2>1, <3>1, <3>4, Reachable
      <4>3. Rank(s) < Rank(q) BY <3>2, <4>1, <4>2
      <4> QED BY <1>2, <3>1, <4>2, <4>3
    <3> QED BY <3>3, <3>4
  <2>3. T \in SUBSET Sessions /\ s \notin T BY Reachable
  <2>4. Blockers(s) \subseteq T /\ \A r \in T : Blockers(r) \subseteq T
    BY <2>2, Reachable
  <2> HIDE DEF T
  <2> QED BY <2>3, <2>4 DEF Deadlocked, Reach
<1> QED BY <1>1, <1>2

\* Order entry, preparation and stock movements never wait for each other in a
\* cycle; only an edit of a recipe closes one (docs/database.md:5).
THEOREM OnlyRecipesCircular == DeskSpec => []OnlyRecipesDeadlock
<1>1. DeskInv /\ OrderInv => OnlyRecipesDeadlock
  BY OrderedNeverCircular, Reachable DEF OnlyRecipesDeadlock, Ordered
<1> QED BY LockedInOrder, <1>1, PTL

-----------------------------------------------------------------------------
\* The ledger's consumption is what the orders have used, together.  Sums over
\* a finite set, and what they are, are those of module BillingProofs.

Money == INSTANCE BillingProofs WITH
  Items <- {}, Amounts <- {}, Rates <- {}, Taxes <- {}, Discounts <- {}, Fees <- {},
  Percents <- {}, TiesLost <- {}, Cash <- {}, Roles <- {}, Cashiers <- {}, MaxVersion <- 1,
  rate <- 0, bill <- 0, screen <- 0

\* The assumptions of module Billing hold of these values.
LEMMA MoneyConstants ==
  /\ \A S : Money!IsFiniteSet(S) <=> IsFiniteSet(S)
  /\ Money!IsFiniteSet({}) /\ 1 \in Nat \ {0}
  /\ {} \subseteq Nat \ {0} /\ {} \subseteq 0..100 /\ {} \subseteq Money!Hundredths
  /\ {} \subseteq Nat /\ \A t \in {} : Money!Tie(t[1], t[2])
BY FS_EmptySet DEF Money!IsFiniteSet, IsFiniteSet

LEMMA SumIs ==
  ASSUME NEW f, NEW S
  PROVE  Money!SumFunctionOnSet(f, S) = SumFunctionOnSet(f, S)
<1> DEFINE iter(g) == g = [s \in SUBSET S |->
                             IF s = {} THEN 0
                             ELSE LET x == CHOOSE y \in s : TRUE IN f[x] + g[s \ {x}]]
<1>1. SumFunctionOnSet(f, S) = (CHOOSE g : iter(g))[S]
  BY DEF SumFunctionOnSet, FoldFunctionOnSet, MapThenFoldSet
<1>2. Money!SumFunctionOnSet(f, S) = (CHOOSE g : iter(g))[S]
  BY DEF Money!SumFunctionOnSet, Money!FoldFunctionOnSet, Money!MapThenFoldSet
<1> HIDE DEF iter
<1> QED BY <1>1, <1>2

\* One order's number may be taken out of the sum.
LEMMA TakeOne ==
  ASSUME NEW f \in [Orders -> Nat], NEW o \in Orders
  PROVE  SumFunction(f) = f[o] + SumFunctionOnSet(f, Orders \ {o})
<1>1. \A I : \A g \in [I -> Nat] : \A S \in SUBSET I :
        Money!IsFiniteSet(S) =>
          \A x \in S : Money!SumFunctionOnSet(g, S)
                       = g[x] + Money!SumFunctionOnSet(g, S \ {x})
  BY MoneyConstants, Money!SumTake, Zenon
<1>2. Money!SumFunctionOnSet(f, Orders)
      = f[o] + Money!SumFunctionOnSet(f, Orders \ {o})
  BY <1>1, MoneyConstants, OrdersAssumption
<1>3. DOMAIN f = Orders OBVIOUS
<1> QED BY <1>2, <1>3, SumIs DEF SumFunction

LEMMA SameRest ==
  ASSUME NEW f, NEW g, NEW S \in SUBSET Orders, \A x \in S : f[x] = g[x]
  PROVE  SumFunctionOnSet(f, S) = SumFunctionOnSet(g, S)
<1>1. \A T : Money!IsFiniteSet(T) =>
        \A h : \A k : (\A x \in T : h[x] = k[x]) =>
          Money!SumFunctionOnSet(h, T) = Money!SumFunctionOnSet(k, T)
  BY MoneyConstants, Money!SumSame, Zenon
<1>2. Money!IsFiniteSet(S) BY MoneyConstants, OrdersAssumption, FS_Subset
<1>3. Money!SumFunctionOnSet(f, S) = Money!SumFunctionOnSet(g, S) BY <1>1, <1>2
<1> QED BY <1>3, SumIs

LEMMA RestIsNat ==
  ASSUME NEW f \in [Orders -> Nat], NEW S \in SUBSET Orders
  PROVE  SumFunctionOnSet(f, S) \in Nat
<1>1. \A I : \A g \in [I -> Nat] : \A T \in SUBSET I :
        Money!IsFiniteSet(T) => Money!SumFunctionOnSet(g, T) \in Nat
  BY MoneyConstants, Money!SumNat, Zenon
<1>2. Money!IsFiniteSet(S) BY MoneyConstants, OrdersAssumption, FS_Subset
<1>3. Money!SumFunctionOnSet(f, S) \in Nat BY <1>1, <1>2
<1> QED BY <1>3, SumIs

\* Zeros add up to no more than zero.
LEMMA NothingUsed ==
  ASSUME NEW f \in [Orders -> Nat], \A o \in Orders : f[o] = 0
  PROVE  SumFunction(f) = 0
<1>1. \A I : \A g \in [I -> Nat] : \A a \in [I -> Nat] : \A A \in Nat : \A sum \in Nat :
        (\A x \in I : g[x] * A <= sum * a[x]) =>
          \A S \in SUBSET I :
            Money!IsFiniteSet(S) =>
              Money!SumFunctionOnSet(g, S) * A <= sum * Money!SumFunctionOnSet(a, S)
  BY MoneyConstants, Money!SumFloors, Zenon
<1>2. \A x \in Orders : f[x] * 1 <= 0 * f[x] OBVIOUS
<1>3. Money!IsFiniteSet(Orders) /\ 0 \in Nat /\ 1 \in Nat
  BY MoneyConstants, OrdersAssumption
<1> DEFINE sum == Money!SumFunctionOnSet(f, Orders)
<1>4. sum * 1 <= 0 * sum BY <1>1, <1>2, <1>3
<1>5. sum = SumFunctionOnSet(f, Orders) BY SumIs
<1> HIDE DEF sum
<1>6. sum \in Nat BY <1>5, RestIsNat
<1>7. sum = 0 BY <1>4, <1>6
<1> QED BY <1>5, <1>7 DEF SumFunction

UsedOf(d) == [o \in Orders |-> order[o].used[d]]
LedgerTied == \A d \in Drinks : LedgerIsUsed(d)

LEMMA UsedIsNat ==
  ASSUME TypeOK, NEW d \in Drinks
  PROVE  UsedOf(d) \in [Orders -> Nat]
BY DEF TypeOK, Order, Quantity, UsedOf

LEMMA InitTied == BookInv /\ Init => LedgerTied
<1> SUFFICES ASSUME BookInv, Init, NEW d \in Drinks PROVE LedgerIsUsed(d) BY DEF LedgerTied
<1>1. \A o \in Orders : UsedOf(d)[o] = 0 BY DEF Init, NoOrder, UsedOf
<1>2. SumFunction(UsedOf(d)) = 0 BY <1>1, UsedIsNat, NothingUsed DEF BookInv
<1>3. ledger[d].consumption = 0 BY DEF Init, NoMoves
<1> QED BY <1>2, <1>3 DEF LedgerIsUsed, UsedOf

\* Most steps consume nothing.
LEMMA NothingConsumed ==
  ASSUME LedgerTied,
         \A o \in Orders, d \in Drinks : order'[o].used[d] = order[o].used[d],
         \A d \in Drinks : ledger'[d].consumption = ledger[d].consumption
  PROVE  LedgerTied'
<1> SUFFICES ASSUME NEW d \in Drinks PROVE LedgerIsUsed(d)' BY DEF LedgerTied
<1>1. UsedOf(d)' = UsedOf(d) BY DEF UsedOf
<1>2. ledger[d].consumption = SumFunction(UsedOf(d))
  BY DEF LedgerTied, LedgerIsUsed, UsedOf
<1>3. ledger'[d].consumption = SumFunction(UsedOf(d)') BY <1>1, <1>2
<1> QED BY <1>3 DEF LedgerIsUsed, UsedOf

\* A preparation adds to the ledger what it adds to the order.
LEMMA PreparedTied ==
  ASSUME BookInv, BookInv', LedgerTied, NEW o \in Orders, Prepare(o)
  PROVE  LedgerTied'
<1> SUFFICES ASSUME NEW d \in Drinks PROVE LedgerIsUsed(d)' BY DEF LedgerTied
<1> DEFINE n == order[o].lines[d].quantity
           f == UsedOf(d)
           g == UsedOf(d)'
           rest(h) == SumFunctionOnSet(h, Orders \ {o})
<1>1. /\ order[o] \in Order /\ ledger[d] \in Moves /\ n \in Nat
  BY DEF BookInv, TypeOK, Order, Line, Quantity
<1>2. /\ order' = [order EXCEPT ![o] = [order[o] EXCEPT
                    !.status = "preparing", !.version = @ + 1, !.prepared = TRUE,
                    !.used = [e \in Drinks |-> @[e] + order[o].lines[e].quantity]]]
      /\ ledger' = [e \in Drinks |->
                      [ledger[e] EXCEPT !.consumption = @ + order[o].lines[e].quantity]]
  BY DEF Prepare, Prepared
<1>3. /\ order'[o].used = [e \in Drinks |-> order[o].used[e] + order[o].lines[e].quantity]
      /\ \A p \in Orders \ {o} : order'[p] = order[p]
  BY <1>1, <1>2 DEF BookInv, TypeOK, Order
<1>4. ledger'[d].consumption = ledger[d].consumption + n BY <1>1, <1>2 DEF Moves
<1>5. f \in [Orders -> Nat] /\ g \in [Orders -> Nat]
  <2>1. TypeOK /\ TypeOK' BY DEF BookInv
  <2>2. g \in [Orders -> Nat] BY <2>1 DEF TypeOK, Order, Quantity, UsedOf
  <2> QED BY <2>1, <2>2, UsedIsNat
<1>6. g[o] = f[o] + n /\ \A p \in Orders \ {o} : g[p] = f[p]
  BY <1>3 DEF UsedOf
<1>7. ledger[d].consumption = SumFunction(f) BY DEF LedgerTied, LedgerIsUsed, UsedOf
<1> HIDE DEF f, g, n
<1>8. rest(g) = rest(f) /\ rest(f) \in Nat
  <2>1. Orders \ {o} \in SUBSET Orders OBVIOUS
  <2> QED BY <1>5, <1>6, <2>1, SameRest, RestIsNat
<1>9. SumFunction(f) = f[o] + rest(f) /\ SumFunction(g) = g[o] + rest(g)
  BY <1>5, TakeOne
<1>10. f[o] \in Nat BY <1>5
<1> HIDE DEF rest
<1>11. ledger'[d].consumption = SumFunction(g)
  BY <1>1, <1>4, <1>6, <1>7, <1>8, <1>9, <1>10
<1> QED BY <1>11 DEF LedgerIsUsed, UsedOf, g

\* A drink that is not on the menu yet is on no order, so nothing was used of it.
LEMMA StockProductTied ==
  ASSUME BookInv, LedgerTied, NEW d \in Drinks, NEW p, NEW q, StockProductCreate(d, p, q)
  PROVE  LedgerTied'
<1>1. \A o \in Orders : UsedOf(d)[o] = 0
  <2> SUFFICES ASSUME NEW o \in Orders PROVE order[o].used[d] = 0 BY DEF UsedOf
  <2>1. ~OnOrder(o, d) BY DEF BookInv, DishesExist, StockProductCreate
  <2>2. order[o].lines[d].quantity = 0
    BY <2>1 DEF OnOrder, BookInv, TypeOK, Order, Line, Quantity
  <2> QED BY <2>2 DEF BookInv, UsedFits, UsedAsOrdered
<1>2. SumFunction(UsedOf(d)) = 0 BY <1>1, UsedIsNat, NothingUsed DEF BookInv
<1>3. ledger[d].consumption = 0 BY <1>2 DEF LedgerTied, LedgerIsUsed, UsedOf
<1>4. ledger' = [ledger EXCEPT ![d] = [NoMoves EXCEPT !.purchase = q]] /\ UNCHANGED order
  BY DEF StockProductCreate
<1>5. \A e \in Drinks : ledger'[e].consumption = ledger[e].consumption
  BY <1>3, <1>4 DEF BookInv, TypeOK, NoMoves
<1> QED BY <1>4, <1>5, NothingConsumed

LEMMA OrderStepTied ==
  ASSUME BookInv, BookInv', LedgerTied, NEW o \in Orders, OrderStep(o)
  PROVE  LedgerTied'
<1>1. order \in [Orders -> Order] /\ order[o] \in Order BY DEF BookInv, TypeOK
<1>2. ASSUME UNCHANGED ledger, \A p \in Orders \ {o} : order'[p] = order[p],
             \A d \in Drinks : order'[o].used[d] = order[o].used[d]
      PROVE  LedgerTied'
  BY <1>2, NothingConsumed
<1>3. ASSUME NEW b \in Baskets, NEW t \in Tables \cup {NoTable}, OrderCreate(o, b, t)
      PROVE  LedgerTied'
  <2>1. \A d \in Drinks : order[o].used[d] = 0
    BY <1>3 DEF OrderCreate, BookInv, StatusFits, UsedFits, UsedAsOrdered
  <2>2. \A d \in Drinks : order'[o].used[d] = 0 BY <1>1, <1>3 DEF OrderCreate, Placed
  <2> QED BY <1>1, <1>2, <1>3, <2>1, <2>2 DEF OrderCreate, Placed
<1>4. ASSUME NEW b \in Baskets, NEW t \in Tables \cup {NoTable}, OrderUpdate(o, b, t)
      PROVE  LedgerTied'
  <2> DEFINE lines == Lines(order[o].lines, b)
  <2>1. /\ order' = [order EXCEPT ![o] =
                       [order[o] EXCEPT !.version = @ + 1, !.lines = lines,
                                        !.table = IF t = NoTable THEN @ ELSE t,
                                        !.takenAt = IF t = NoTable THEN @ ELSE t]]
        /\ UNCHANGED ledger
    BY <1>1, <1>4 DEF OrderUpdate, Edited
  <2> HIDE DEF lines
  <2>2. order'[o].used = order[o].used /\ \A p \in Orders \ {o} : order'[p] = order[p]
    BY <1>1, <2>1 DEF Order
  <2> QED BY <1>2, <2>1, <2>2
<1>5. CASE Prepare(o) BY <1>5, PreparedTied
<1>6. ASSUME NEW s \in {"ready", "completed", "cancelled"}, Transition(o, s)
      PROVE  LedgerTied'
  <2>1. /\ order' = [order EXCEPT ![o] = [order[o] EXCEPT !.status = s, !.version = @ + 1]]
        /\ UNCHANGED ledger
    BY <1>6 DEF Transition, MoveTo
  <2>2. order'[o].used = order[o].used /\ \A p \in Orders \ {o} : order'[p] = order[p]
    BY <1>1, <2>1 DEF Order
  <2> QED BY <1>2, <2>1, <2>2
<1> QED BY <1>3, <1>4, <1>5, <1>6 DEF OrderStep

LEMMA NextTied ==
  ASSUME BookInv, BookInv', LedgerTied, [Next]_vars
  PROVE  LedgerTied'
<1>1. ASSUME UNCHANGED <<order, ledger>> PROVE LedgerTied' BY <1>1, NothingConsumed
<1>2. ASSUME NEW d \in Dishes, DishStep(d) PROVE UNCHANGED <<order, ledger>>
  BY <1>2 DEF DishStep, DishSet, MenuCreate, MenuUpdate, RecipeSet, MenuDelete
<1>3. ASSUME NEW d \in Drinks, NEW kind \in {"purchase", "wastage", "adjustment"},
             NEW n, InventoryRecord(d, kind, n)
      PROVE  LedgerTied'
  <2>1. /\ ledger' = [ledger EXCEPT ![d] = [ledger[d] EXCEPT ![kind] = @ + Amount(kind, n)]]
        /\ UNCHANGED order
    BY <1>3 DEF InventoryRecord, StockMoved
  <2>2. \A e \in Drinks : ledger'[e].consumption = ledger[e].consumption
    BY <2>1 DEF BookInv, TypeOK, Moves
  <2> QED BY <2>1, <2>2, NothingConsumed
<1>4. ASSUME NEW d \in Drinks, StockStep(d) PROVE LedgerTied'
  BY <1>1, <1>3, <1>4, StockProductTied DEF StockStep, IngredientUpdate
<1>5. ASSUME NEW t \in Tables, TableDelete(t) PROVE LedgerTied'
  <2>1. /\ order' = [o \in Orders |-> IF order[o].table = t
                       THEN [order[o] EXCEPT !.table = NoTable] ELSE order[o]]
        /\ UNCHANGED ledger
    BY <1>5 DEF TableDelete, TableGone
  <2>2. \A o \in Orders : order'[o].used = order[o].used
    BY <2>1 DEF BookInv, TypeOK, Order
  <2> QED BY <2>1, <2>2, NothingConsumed
<1> QED BY <1>1, <1>2, <1>4, <1>5, OrderStepTied DEF Next, vars

\* The drinks of an order are taken once, when it is prepared, in the
\* quantities that stay on it; and all that the ledger records as consumed was
\* used by an order, however many there are (order_transition).
THEOREM ConsumedExactlyOnce == Spec => []ConsumedOnce
<1>1. Init => BookInv /\ LedgerTied BY InitBookInv, InitTied
<1>2. BookInv /\ LedgerTied /\ [Next]_vars => (BookInv /\ LedgerTied)'
  BY NextBookInv, NextTied
<1>3. BookInv /\ LedgerTied => ConsumedOnce
  BY DEF BookInv, UsedFits, LedgerTied, ConsumedOnce
<1> QED BY <1>1, <1>2, <1>3, PTL DEF Spec

\* At many stations as at one: the dishes and the table of an active order are
\* there, the stock is the sum of its movements, and what the ledger records as
\* consumed is what each order took, once (the locks of command_core).
THEOREM DeskKeepsBook ==
  DeskSpec => [](ActiveOrdersServable /\ StockIsLedger /\ ConsumedOnce)
<1>1. DeskSpec => Spec BY Serializable DEF ImplementsOrderBook
<1> QED BY <1>1, OrdersServable, StockReconciles, ConsumedExactlyOnce, PTL

=============================================================================
