------------------------------ MODULE OrderDesk ------------------------------
(***************************************************************************)
(* The commands of module OrderBook as the database runs them: sessions    *)
(* of many stations at once, each command a transaction that locks rows    *)
(* one by one at isolation level READ COMMITTED.                           *)
(*                                                                         *)
(* A session has a list of statements to run: to lock a row or only to     *)
(* read.  A locking statement waits for the conflicting locks of other     *)
(* sessions and then sees the row as it is committed; when the row does    *)
(* not satisfy the command the transaction is rolled back.  The writes of  *)
(* a transaction are to rows it has locked, and all become visible when it *)
(* commits, so they are one step; a value read under a lock is the same at *)
(* the commit.  Locks end with the transaction.                            *)
(***************************************************************************)
EXTENDS OrderBook, Sequences

CONSTANTS
  Sessions,  \* transactions that may run at the same time
  ById,      \* the dishes in the order of their ids
  Carts,     \* the item lists a waiter sends: sequences of [dish, quantity]
  Movements, \* the stock movements sent: records [kind, pieces]
  Recipes,   \* the ingredient lists a manager sends: sequences of drinks
  Sent       \* the operations that are sent

VARIABLE session \* the open transactions; the variables of OrderBook are committed

deskVars == <<vars, session>>

ASSUME ByIdAssumption ==
  /\ ById \in Seq(Dishes) /\ {ById[i] : i \in DOMAIN ById} = Dishes
  /\ \A i, j \in DOMAIN ById : ById[i] = ById[j] => i = j
ASSUME RequestsAssumption ==
  /\ Carts \subseteq Seq([dish : Dishes, quantity : 1..MaxQuantity]) \ {<<>>}
  /\ \A m \in Movements :
       /\ m.kind \in {"purchase", "wastage", "adjustment"}
       /\ m.pieces \in (-MaxQuantity..MaxQuantity) \ {0}
       /\ (m.kind = "purchase" => m.pieces > 0) /\ (m.kind = "wastage" => m.pieces < 0)
  /\ Recipes \subseteq Seq(Drinks)

-----------------------------------------------------------------------------
\* Commands.  "id" names the row a command is about.

Statuses == {"preparing", "ready", "completed", "cancelled"}
OrderCommand ==
  [op : {"order_create", "order_update"}, id : Orders, cart : Carts,
   table : Tables \cup {NoTable}]
  \cup [op : {"order_transition"}, id : Orders, status : Statuses]
DishCommand ==
  [op : {"menu_update"}, id : Dishes, price : Prices, state : {"active", "inactive"}]
  \cup [op : {"recipe_set"}, id : Dishes, recipe : Recipes]
  \cup [op : {"menu_delete"}, id : Dishes]
OtherCommand ==
  [op : {"inventory_record"}, id : Drinks, move : Movements]
  \cup [op : {"table_delete"}, id : Tables]

Commands == {c \in OrderCommand \cup DishCommand \cup OtherCommand : c.op \in Sent}

Asked(cart) ==
  [d \in Dishes |-> IF \E i \in DOMAIN cart : cart[i].dish = d
    THEN (CHOOSE l \in {cart[i] : i \in DOMAIN cart} : l.dish = d).quantity ELSE 0]

\* The row a caller has read before it sends the command; its version is the
\* expected_version of the command.
RowOf(c) == CASE c \in OrderCommand -> order[c.id]
              [] c \in DishCommand -> dish[c.id]
              [] OTHER -> [version |-> 0]

\* What a caller may ask for, given what it has read.
Sensible(c) ==
  \/ /\ c.op = "order_create"
     /\ order[c.id].status = "absent"
     /\ \A s \in Sessions : session[s].cmd.op = "order_create" =>
          session[s].cmd.id # c.id
  \/ c.op = "order_update" /\ order[c.id].status = "pending"
  \/ /\ c.op = "order_transition"
     /\ IF c.status = "preparing" THEN order[c.id].status = "pending"
                                  ELSE order[c.id].status \in Before(c.status)
  \/ c \in DishCommand /\ dish[c.id].state \in {"active", "inactive"}
  \/ c.op = "inventory_record" /\ stock[c.id].version > 0
  \/ c.op = "table_delete" /\ c.id \in tables

InBounds(c) == /\ c.op \in {"order_update", "order_transition"} =>
                    order[c.id].version < MaxVersion
               /\ c \in DishCommand => dish[c.id].version < MaxEdits

-----------------------------------------------------------------------------
\* Statements and locks.

Read(kind) == [mode |-> "read", row |-> <<kind>>]
KeyShare(d) == [mode |-> "key", row |-> <<"stock", d>>]
Share(kind, id) == [mode |-> "share", row |-> <<kind, id>>]
Update(kind, id) == [mode |-> "update", row |-> <<kind, id>>]

\* Reads take no lock; only FOR UPDATE conflicts, with every other lock.
Conflict(st, lock) == /\ st.mode # "read" /\ st.row = lock.row
                      /\ "update" \in {st.mode, lock.mode}
Blockers(s) ==
  {r \in Sessions \ {s} : session[s].todo # <<>> /\
     \E lock \in session[r].held : Conflict(Head(session[s].todo), lock)}

\* The dishes of S in the order of their ids.
Place(d) == CHOOSE i \in DOMAIN ById : ById[i] = d
UpTo(S, d) == {e \in S : Place(e) <= Place(d)}
ChosenIn(S) ==
  [i \in 1..Cardinality(S) |-> CHOOSE d \in S : Cardinality(UpTo(S, d)) = i]

SharesOf(kind, ids) == [i \in DOMAIN ids |-> Share(kind, ids[i])]
UpdatesOf(kind, ids) == [i \in DOMAIN ids |-> Update(kind, ids[i])]

\* set_order_items locks the menu items in the order of the request.
ItemLocks_None(cart) ==
  [i \in DOMAIN cart |-> [mode |-> "read", row |-> <<"dish", cart[i].dish>>]]
ItemLocks(cart) == [i \in DOMAIN cart |-> Share("dish", cart[i].dish)]
TableLock(t) == IF t = NoTable THEN <<>> ELSE <<Share("table", t)>>

Plan(c) ==
  CASE c.op = "order_create" ->
         (IF c.table = NoTable THEN <<Read("tables")>> ELSE TableLock(c.table))
           \o ItemLocks(c.cart)
    [] c.op = "order_update" ->
         TableLock(c.table) \o <<Update("order", c.id)>> \o ItemLocks(c.cart)
    [] c.op = "order_transition" -> <<Update("order", c.id)>>
    [] c.op = "menu_update" -> <<Read("deleted"), Update("dish", c.id)>>
    [] c.op = "recipe_set" ->
         <<Read("deleted"), Update("dish", c.id)>>
           \o [i \in DOMAIN c.recipe |-> KeyShare(c.recipe[i])]
    [] c.op = "menu_delete" -> <<Update("dish", c.id), Read("served")>>
    [] c.op = "inventory_record" -> <<Update("stock", c.id)>>
    [] c.op = "table_delete" -> <<Update("table", c.id), Read("seated")>>

\* Preparation locks the menu items of the order it has locked, then the stock
\* of its drinks, both in the order of their ids.
PrepareLocks_Upgraded(o) ==
  SharesOf("stock", ChosenIn({d \in Drinks : OnOrder(o, d)}))
  \o UpdatesOf("stock", ChosenIn({d \in Drinks : OnOrder(o, d)}))
PrepareLocks(o) ==
  SharesOf("dish", ChosenIn({d \in Dishes : OnOrder(o, d)}))
  \o UpdatesOf("stock", ChosenIn({d \in Drinks : OnOrder(o, d)}))

\* Statements that depend on what the statement st has found.
Further(c, st) ==
  IF c.op = "order_transition" /\ st.row[1] = "order" /\ c.status = "preparing"
  THEN PrepareLocks(c.id) ELSE <<>>

\* The row, as it is now committed, lets the command go on.
SameVersion_Unchecked(c, seen) == TRUE
SameVersion(c, seen) == RowOf(c).version = seen.version
StatusAllows(c) ==
  CASE c.op = "order_update" -> Editable(c.id)
    [] c.status = "preparing" -> Preparable(c.id)
    [] OTHER -> order[c.id].status \in Before(c.status)
Passes(c, seen, st) ==
  CASE st.row[1] = "table" -> st.row[2] \in tables
    [] st.row[1] = "order" -> SameVersion(c, seen) /\ StatusAllows(c)
    [] st.row[1] = "dish" ->
         /\ c.op \in {"order_create", "order_update"} => dish[st.row[2]].state = "active"
         /\ c.op \in {"menu_delete", "recipe_set"} => dish[c.id].state # "deleted"
         /\ c \in DishCommand => SameVersion(c, seen)
    [] st.row[1] = "stock" -> c.op = "recipe_set" => stock[st.row[2]].active
    [] st.row[1] = "tables" -> tables = {}
    [] st.row[1] = "deleted" -> dish[c.id].state # "deleted"
    [] st.row[1] = "served" -> ServedBy(c.id) = {}
    [] st.row[1] = "seated" -> SeatedAt(c.id) = {}

-----------------------------------------------------------------------------
Idle == [cmd |-> [op |-> "none"], seen |-> [version |-> 0], todo |-> <<>>, held |-> {}]
Open(s) == session[s].cmd.op # "none"

DeskInit == Init /\ session = [s \in Sessions |-> Idle]

\* A caller has read a row and sends a command about it.
Begin(s, c) ==
  /\ ~Open(s)
  /\ Sensible(c) /\ InBounds(c)
  /\ session' = [session EXCEPT ![s] =
                   [cmd |-> c, seen |-> RowOf(c), todo |-> Plan(c), held |-> {}]]
  /\ UNCHANGED vars

Rollback_LeftOpen(s) == UNCHANGED deskVars
Rollback(s) == session' = [session EXCEPT ![s] = Idle] /\ UNCHANGED vars

\* The next statement of an open transaction.
Statement(s) ==
  /\ session[s].todo # <<>>
  /\ Blockers(s) = {}
  /\ LET st == Head(session[s].todo)
         c  == session[s].cmd
     IN  IF Passes(c, session[s].seen, st)
         THEN /\ session' = [session EXCEPT
                   ![s].todo = Tail(@) \o Further(c, st),
                   ![s].held = IF st.mode = "read" THEN @ ELSE @ \cup {st}]
              /\ UNCHANGED vars
         ELSE Rollback(s)

\* The checks that follow the last lock.
Feasible(c) ==
  /\ c.op = "order_transition" /\ c.status = "preparing" =>
       Enough(c.id) /\ Countable(c.id) /\ Unconsumed(c.id)
  /\ c.op = "inventory_record" => Movable(c.id, c.move.pieces)

Effect(c) ==
  CASE c.op = "order_create" -> Placed(c.id, Asked(c.cart), c.table)
    [] c.op = "order_update" -> Edited(c.id, Asked(c.cart), c.table)
    [] c.op = "order_transition" ->
         IF c.status = "preparing" THEN Prepared(c.id) ELSE MoveTo(c.id, c.status)
    [] c.op = "menu_update" -> DishSet(c.id, c.state, c.price)
    [] c.op = "recipe_set" -> DishSet(c.id, dish[c.id].state, dish[c.id].price)
    [] c.op = "menu_delete" -> DishSet(c.id, "deleted", dish[c.id].price)
    [] c.op = "inventory_record" -> StockMoved(c.id, c.move.kind, c.move.pieces)
    [] c.op = "table_delete" -> TableGone(c.id)

Commit(s) ==
  /\ Open(s) /\ session[s].todo = <<>>
  /\ IF Feasible(session[s].cmd)
     THEN Effect(session[s].cmd) /\ session' = [session EXCEPT ![s] = Idle]
     ELSE Rollback(s)

\* PostgreSQL ends a cycle of waiting transactions by rolling one of them back.
\* Reach(S) is S with all that its sessions wait for, directly or not.
Reach(S) ==
  {s \in Sessions : \A T \in SUBSET Sessions :
     S \subseteq T /\ (\A r \in T : Blockers(r) \subseteq T) => s \in T}
Deadlocked(s) == s \in Reach(Blockers(s))
Victim(s) == Open(s) /\ Deadlocked(s) /\ Rollback(s)

\* A branch sets up its menu while no order is taken.
Setup ==
  /\ \A s \in Sessions : ~Open(s)
  /\ \/ \E d \in Dishes, p \in Prices : MenuCreate(d, p, "active")
     \/ \E d \in Drinks, p \in Prices : StockProductCreate(d, p, MaxStock)
  /\ UNCHANGED session

DeskNext ==
  \/ Setup
  \/ \E s \in Sessions :
       \/ \E c \in Commands : Begin(s, c)
       \/ Statement(s) \/ Commit(s) \/ Victim(s)

DeskSpec == DeskInit /\ [][DeskNext]_deskVars

\* A transaction that is not waiting goes on, and the deadlock check of the
\* database runs.  Who waits for a row stands in a queue for it, so a statement
\* that can run again and again does run: strong fairness.
Fairness == \A s \in Sessions :
              SF_deskVars(Statement(s)) /\ WF_deskVars(Commit(s)) /\ WF_deskVars(Victim(s))
FairSpec == DeskSpec /\ Fairness

-----------------------------------------------------------------------------
\* Properties.

\* The interleaved transactions have exactly the effects of commands that run
\* one at a time, each on the rows as they are when it commits: the locks of
\* command_core make READ COMMITTED serializable for these commands.
ImplementsOrderBook == Spec

\* A command about an order is only ever carried out on the order its caller
\* had on the screen: no station overwrites a change it has not seen.
DecidedOnLatest ==
  \A s \in Sessions :
    session[s].cmd.op \in {"order_update", "order_transition"}
      /\ (\E lock \in session[s].held : lock.row[1] = "order") =>
    session[s].seen = order[session[s].cmd.id]

\* Order entry, preparation and stock movements never wait for each other in a
\* cycle: menu items and stock are locked in a fixed order (docs/database.md:5).
\* Only an edit of a recipe, which locks in the order of its list, closes one.
OnlyRecipesDeadlock ==
  \A s \in Sessions : Deadlocked(s) =>
    \E r \in Reach({s}) : session[r].cmd.op = "recipe_set"

\* Every command that was sent is carried out or refused, deadlocks with recipe
\* edits included.
EveryCommandEnds == \A s \in Sessions : Open(s) ~> ~Open(s)

=============================================================================
