------------------------------- MODULE FloorDesk -------------------------------
(***************************************************************************)
(* The floors and tables of the restaurant: the transactions that change   *)
(* them and that take an order at a table, with their row locks, and the   *)
(* manager's panel, which reads the floors and then the tables of one.     *)
(*                                                                         *)
(* A transaction takes its locks one by one, looks at the rows that refer  *)
(* to its own, and commits; what it looked at may have changed by then     *)
(* where no lock stands in between.  A floor or table is never made twice  *)
(* under one number.                                                       *)
(***************************************************************************)
EXTENDS Integers, Sequences, FiniteSets, FiniteSetsExt

CONSTANTS Floors, Tables,  \* bound: numbers of the rows
          MaxOrders,       \* bound: orders taken
          Slots,           \* bound: transactions, and refreshes, at once
          MaxEvents        \* bound: choices of the people

VARIABLES floors,     \* version of every floor, 0 before it is made and after it is deleted
          tables,     \* floor and version of every table
          made,       \* the rows that were ever made
          orders,     \* the orders taken: table, or 0, and whether it is still active
          txns,       \* a transaction per slot, or NoTxn
          panel,      \* the state of TablesPanel
          refreshes,  \* a refresh of the panel per slot, or NoRefresh
          events      \* bound

vars == <<floors, tables, made, orders, txns, panel, refreshes, events>>

NoTable == [floor |-> 0, version |-> 0]
NoTxn == [op |-> "none", floor |-> 0, table |-> 0, version |-> 0, got |-> 0, checked |-> FALSE]
NoRefresh == [step |-> "none", preferred |-> 0, selected |-> 0, next |-> 0]
NoForm == [op |-> "none", id |-> 0, version |-> 0]
FloorOps == {"floor_create", "floor_update", "floor_delete", "floor_set_tax"}
TableOps == {"table_create", "table_update", "table_delete"}
Ops == FloorOps \cup TableOps \cup {"order_create"}

TypeOK ==
  /\ floors \in [Floors -> Nat]
  /\ \A t \in Tables : tables[t].floor \in {0} \cup Floors /\ tables[t].version \in Nat
  /\ made.floors \subseteq Floors /\ made.tables \subseteq Tables
  /\ Len(orders) <= MaxOrders
  /\ \A k \in Slots : txns[k].op \in {"none"} \cup Ops /\ txns[k].got \in 0 .. 2
  /\ panel.selected \in {0} \cup Floors /\ panel.form.op \in {"none"} \cup Ops
  /\ \A k \in Slots : refreshes[k].step \in {"none", "floors", "tables"}
  /\ events \in 0 .. MaxEvents

Event == events < MaxEvents /\ events' = events + 1
Rows == <<floors, tables, made, orders>>

-----------------------------------------------------------------------------
\* The locks of a transaction, in the order it takes them: FOR UPDATE is
\* "update", FOR SHARE and FOR KEY SHARE are "share".

Lock(kind, row, mode) == [kind |-> kind, row |-> row, mode |-> mode]

UsualLocks(x) ==
  CASE x.op \in {"floor_update", "floor_delete"} -> <<Lock("floor", x.floor, "update")>>
    [] x.op = "table_create" -> <<Lock("floor", x.floor, "share")>>
    [] x.op = "table_update" -> <<Lock("table", x.table, "update"), Lock("floor", x.floor, "share")>>
    [] x.op = "order_create" -> <<Lock("table", x.table, "share"),
                                  Lock("floor", tables[x.table].floor, "share")>>
    [] OTHER -> <<>>
Locks_DeleteUnlocked(x) == UsualLocks(x)
Locks(x) == IF x.op = "table_delete" THEN <<Lock("table", x.table, "update")>> ELSE UsualLocks(x)

Held(k) == {Locks(txns[k])[i] : i \in 1 .. txns[k].got}
Free(k, l) ==
  \A j \in Slots \ {k} : \A h \in Held(j) :
    h.kind = l.kind /\ h.row = l.row => "update" \notin {h.mode, l.mode}

Version(kind, row) == IF kind = "floor" THEN floors[row] ELSE tables[row].version

-----------------------------------------------------------------------------
\* The end of a transaction: the form that waits for it goes on.

Ends(k) == txns' = [txns EXCEPT ![k] = NoTxn]
Fails(k) ==
  /\ Ends(k)
  /\ panel' = IF panel.busy = k THEN [panel EXCEPT !.busy = 0] ELSE panel
  /\ UNCHANGED <<Rows, refreshes>>

StartRefresh(preferred) ==
  \E k \in Slots :
    /\ refreshes[k] = NoRefresh /\ \A j \in Slots : j < k => refreshes[j] # NoRefresh
    /\ refreshes' = [refreshes EXCEPT ![k] = [step |-> "floors", preferred |-> preferred,
                                                selected |-> panel.selected, next |-> 0]]

\* Bound: the form closes when the refresh it starts has begun.
Done(k, preferred) ==
  /\ Ends(k)
  /\ IF panel.busy # k THEN UNCHANGED <<panel, refreshes>>
     ELSE /\ panel' = [panel EXCEPT !.busy = 0, !.form = NoForm]
          /\ StartRefresh(preferred)

-----------------------------------------------------------------------------
\* One step of a transaction.

Acquire(k) ==
  LET x == txns[k]
      l == Locks(x)[x.got + 1]
  IN  /\ x.op # "none" /\ x.got < Len(Locks(x))
      /\ Free(k, l)
      /\ IF Version(l.kind, l.row) = 0 \/ (l.mode = "update" /\ Version(l.kind, l.row) # x.version)
         THEN Fails(k)
         ELSE txns' = [txns EXCEPT ![k].got = @ + 1] /\ UNCHANGED <<Rows, panel, refreshes>>
      /\ UNCHANGED events

Locked(k) == txns[k].op # "none" /\ txns[k].got = Len(Locks(txns[k]))

OnFloor(f) == {t \in Tables : tables[t].floor = f}
Occupied(t) == \E i \in DOMAIN orders : orders[i].table = t /\ orders[i].active
Referred(x) ==
  \/ x.op = "floor_delete" /\ OnFloor(x.floor) # {}
  \/ x.op = "table_delete" /\ Occupied(x.table)

Check(k) ==
  /\ Locked(k) /\ txns[k].op \in {"floor_delete", "table_delete"} /\ ~txns[k].checked
  /\ IF Referred(txns[k]) THEN Fails(k)
     ELSE txns' = [txns EXCEPT ![k].checked = TRUE] /\ UNCHANGED <<Rows, panel, refreshes>>
  /\ UNCHANGED events

floor_create(x) ==
  \E f \in Floors \ made.floors :
    /\ floors' = [floors EXCEPT ![f] = 1] /\ made' = [made EXCEPT !.floors = @ \cup {f}]
    /\ UNCHANGED <<tables, orders>>
floor_update(x) == floors' = [floors EXCEPT ![x.floor] = @ + 1] /\ UNCHANGED <<tables, made, orders>>
\* The foreign key of the tables stands behind the look.
floor_delete(x) ==
  /\ OnFloor(x.floor) = {}
  /\ floors' = [floors EXCEPT ![x.floor] = 0] /\ UNCHANGED <<tables, made, orders>>
\* Nothing locks the floor: a table that is being made keeps its rate.
floor_set_tax(x) ==
  /\ tables' = [t \in Tables |-> IF tables[t].floor = x.floor THEN [tables[t] EXCEPT !.version = @ + 1] ELSE tables[t]]
  /\ UNCHANGED <<floors, made, orders>>
table_create(x) ==
  \E t \in Tables \ made.tables :
    /\ tables' = [tables EXCEPT ![t] = [floor |-> x.floor, version |-> 1]]
    /\ made' = [made EXCEPT !.tables = @ \cup {t}] /\ UNCHANGED <<floors, orders>>
table_update(x) ==
  /\ tables' = [tables EXCEPT ![x.table] = [floor |-> x.floor, version |-> @.version + 1]]
  /\ UNCHANGED <<floors, made, orders>>
\* The orders of the table lose it: on delete set null.
table_delete(x) ==
  /\ tables' = [tables EXCEPT ![x.table] = NoTable]
  /\ orders' = [i \in DOMAIN orders |-> IF orders[i].table = x.table THEN [orders[i] EXCEPT !.table = 0] ELSE orders[i]]
  /\ UNCHANGED <<floors, made>>
order_create(x) ==
  /\ Len(orders) < MaxOrders
  /\ orders' = Append(orders, [table |-> x.table, active |-> TRUE])
  /\ UNCHANGED <<floors, tables, made>>

\* What a write locks by itself.
Written(x) ==
  CASE x.op \in {"floor_update", "floor_delete"} -> {Lock("floor", x.floor, "update")}
    [] x.op \in {"table_update", "table_delete"} -> {Lock("table", x.table, "update")}
    [] x.op = "floor_set_tax" -> {Lock("table", t, "update") : t \in OnFloor(x.floor)}
    [] OTHER -> {}

Effect(x) ==
  \/ x.op = "floor_create" /\ floor_create(x)
  \/ x.op = "floor_update" /\ floor_update(x)
  \/ x.op = "floor_delete" /\ floor_delete(x)
  \/ x.op = "floor_set_tax" /\ floor_set_tax(x)
  \/ x.op = "table_create" /\ table_create(x)
  \/ x.op = "table_update" /\ table_update(x)
  \/ x.op = "table_delete" /\ table_delete(x)
  \/ x.op = "order_create" /\ order_create(x)

Commit(k) ==
  LET x == txns[k]
  IN  /\ Locked(k) /\ (x.op \in {"floor_delete", "table_delete"} => x.checked)
      /\ \A l \in Written(x) : Free(k, l)
      /\ Effect(x)
      /\ Done(k, IF x.op = "floor_create" THEN Max({f \in Floors : floors'[f] # floors[f]})
                 ELSE IF x.op \in {"floor_update", "floor_set_tax"} THEN x.floor ELSE 0)
      /\ UNCHANGED events

-----------------------------------------------------------------------------
\* Transactions of others.

Begin(k, x) == txns[k] = NoTxn /\ txns' = [txns EXCEPT ![k] = x]
Elsewhere(k) ==
  /\ Event
  /\ \/ \E t \in Tables : tables[t] # NoTable /\ Begin(k, [NoTxn EXCEPT !.op = "order_create", !.table = t])
     \/ \E t \in Tables, f \in Floors :
          tables[t] # NoTable /\ floors[f] # 0
          /\ Begin(k, [NoTxn EXCEPT !.op = "table_update", !.table = t, !.floor = f, !.version = tables[t].version])
     \/ \E f \in Floors : floors[f] # 0
          /\ Begin(k, [NoTxn EXCEPT !.op = "floor_delete", !.floor = f, !.version = floors[f]])
  /\ UNCHANGED <<Rows, panel, refreshes>>

OrderEnds(i) ==
  /\ Event
  /\ orders[i].active
  /\ orders' = [orders EXCEPT ![i].active = FALSE]
  /\ UNCHANGED <<floors, tables, made, txns, panel, refreshes>>

-----------------------------------------------------------------------------
\* The panel.  Refreshes overlap, and each writes what it read when it is done.

RefreshFloors(k) ==
  LET r == refreshes[k]
      found == {f \in Floors : floors[f] # 0}
      next == IF r.preferred \in found THEN r.preferred
              ELSE IF r.selected \in found THEN r.selected
              ELSE IF found = {} THEN 0 ELSE Min(found)
  IN  /\ r.step = "floors"
      /\ panel' = [panel EXCEPT !.floors = {[id |-> f, version |-> floors[f]] : f \in found},
                                !.selected = next, !.tables = IF next = 0 THEN {} ELSE @]
      /\ refreshes' = [refreshes EXCEPT ![k] =
           IF next = 0 THEN NoRefresh ELSE [r EXCEPT !.step = "tables", !.next = next]]
      /\ UNCHANGED <<Rows, txns, events>>

RefreshTables(k) ==
  LET r == refreshes[k]
  IN  /\ r.step = "tables"
      /\ panel' = [panel EXCEPT !.tables = {[id |-> t, floor |-> r.next, version |-> tables[t].version] : t \in OnFloor(r.next)}]
      /\ refreshes' = [refreshes EXCEPT ![k] = NoRefresh]
      /\ UNCHANGED <<Rows, txns, events>>

RefreshFails(k) ==
  /\ Event
  /\ refreshes[k] # NoRefresh
  /\ refreshes' = [refreshes EXCEPT ![k] = NoRefresh]
  /\ UNCHANGED <<Rows, txns, panel>>

FloorCard(r) ==
  /\ Event
  /\ panel.form = NoForm /\ r \in panel.floors
  /\ StartRefresh(r.id)
  /\ UNCHANGED <<Rows, txns, panel>>

\* The buttons of the panel, of the selected floor and of its rows.
Opens(op, id, version) ==
  /\ Event
  /\ panel.form = NoForm
  /\ panel' = [panel EXCEPT !.form = [op |-> op, id |-> id, version |-> version]]
  /\ UNCHANGED <<Rows, txns, refreshes>>
Close ==
  /\ panel.form # NoForm /\ panel.busy = 0
  /\ panel' = [panel EXCEPT !.form = NoForm]
  /\ UNCHANGED <<Rows, txns, refreshes, events>>

\* LayoutForm, FloorTaxForm and the confirmation of remove.
Submit(k, f) ==
  LET form == panel.form
  IN  /\ form # NoForm /\ panel.busy = 0
      /\ form.op = "floor_create" => Floors # made.floors
      /\ form.op = "table_create" => Tables # made.tables
      /\ f \in {r.id : r \in panel.floors} \cup {0}
      /\ f # 0 <=> form.op \in {"table_create", "table_update"}
      /\ Begin(k, [NoTxn EXCEPT !.op = form.op, !.version = form.version,
                                !.floor = IF form.op \in FloorOps THEN form.id ELSE f,
                                !.table = IF form.op \in TableOps THEN form.id ELSE 0])
      /\ panel' = [panel EXCEPT !.busy = k]
      /\ UNCHANGED <<Rows, refreshes, events>>

-----------------------------------------------------------------------------
Init ==
  /\ floors = [f \in Floors |-> IF f = 1 THEN 1 ELSE 0]
  /\ tables = [t \in Tables |-> IF t = 1 THEN [floor |-> 1, version |-> 1] ELSE NoTable]
  /\ made = [floors |-> {1} \cap Floors, tables |-> {1} \cap Tables]
  /\ orders = <<>> /\ events = 0
  /\ txns = [k \in Slots |-> NoTxn]
  /\ panel = [floors |-> {}, selected |-> 0, tables |-> {}, form |-> NoForm, busy |-> 0]
  /\ refreshes = [k \in Slots |-> IF k = 1 THEN [NoRefresh EXCEPT !.step = "floors"] ELSE NoRefresh]

Transactions == \E k \in Slots : Acquire(k) \/ Check(k) \/ Commit(k) \/ Elsewhere(k)

Panel ==
  \/ \E k \in Slots : \/ RefreshFloors(k) \/ RefreshTables(k) \/ RefreshFails(k)
                      \/ \E f \in {0} \cup Floors : Submit(k, f)
  \/ \E r \in panel.floors :
       \/ FloorCard(r)
       \/ r.id = panel.selected /\ \E op \in FloorOps \ {"floor_create"} : Opens(op, r.id, r.version)
  \/ \E r \in panel.tables : \E op \in {"table_update", "table_delete"} : Opens(op, r.id, r.version)
  \/ Opens("floor_create", 0, 0) \/ (panel.selected # 0 /\ Opens("table_create", 0, 0)) \/ Close

Next == Transactions \/ Panel \/ \E i \in DOMAIN orders : OrderEnds(i)

Spec == Init /\ [][Next]_vars

-----------------------------------------------------------------------------
\* A table stands on a floor that exists, and an order that is not over keeps
\* its table, whatever is deleted or moved at the same time (the locks and the
\* looks of floor_delete, table_delete, table_update and order_create).
TablesHaveFloors ==
  /\ \A t \in Tables : tables[t] # NoTable => floors[tables[t].floor] # 0
  /\ \A i \in DOMAIN orders : orders[i].active => orders[i].table # 0 /\ tables[orders[i].table] # NoTable

=============================================================================
