----------------------------- MODULE FloorProofs -----------------------------
(***************************************************************************)
(* Proofs about module FloorDesk, for any number of floors, tables, orders *)
(* and transactions at once.  That no table loses its floor and no order   *)
(* its table rests on the locks: two transactions never hold locks that    *)
(* exclude each other (Clash), a row stays while a transaction has a lock  *)
(* on it (Stays), and what a deletion has looked for still holds when it   *)
(* commits (Looked).                                                       *)
(***************************************************************************)
EXTENDS FloorDesk, WellFoundedInduction, TLAPS

TableRow == [floor : {0} \cup Floors, version : Nat]
Order == [table : {0} \cup Tables, active : BOOLEAN]
Txn == [op : {"none"} \cup Ops, floor : {0} \cup Floors, table : {0} \cup Tables,
        version : Nat, got : Nat, checked : BOOLEAN]

\* The rows an operation is about.
AboutFloor == {"floor_update", "floor_delete", "floor_set_tax", "table_create", "table_update"}
AboutTable == {"table_update", "table_delete", "order_create"}
Fits(x) == (x.op \in AboutFloor => x.floor \in Floors) /\ (x.op \in AboutTable => x.table \in Tables)

\* The locks a transaction has: of its table or its floor, alone or with others.
TableAlone(x) == x.op \in {"table_update", "table_delete"} /\ x.got >= 1
HasTable(x) == TableAlone(x) \/ (x.op = "order_create" /\ x.got >= 1)
FloorAlone(x) == x.op \in {"floor_update", "floor_delete"} /\ x.got >= 1
HasFloor(x) ==
  FloorAlone(x) \/ (x.op = "table_create" /\ x.got >= 1) \/ (x.op = "table_update" /\ x.got >= 2)

Clash(x, y) ==
  \/ TableAlone(x) /\ HasTable(y) /\ x.table = y.table
  \/ FloorAlone(x) /\ HasFloor(y) /\ x.floor = y.floor
Stays(x, fl, tb) ==
  /\ HasTable(x) => tb[x.table] # NoTable
  /\ HasFloor(x) => fl[x.floor] # 0
Looked(x, os) ==
  x.op = "table_delete" /\ x.checked =>
    x.got >= 1 /\ \A i \in DOMAIN os : ~(os[i].table = x.table /\ os[i].active)

RowTypes ==
  /\ floors \in [Floors -> Nat]
  /\ tables \in [Tables -> TableRow]
  /\ orders \in Seq(Order)
\* What TablesHaveFloors says, and that the version of a table tells whether it is there.
RowsStand ==
  /\ \A t \in Tables : tables[t] # NoTable =>
       tables[t].floor \in Floors /\ tables[t].version # 0 /\ floors[tables[t].floor] # 0
  /\ \A i \in DOMAIN orders : orders[i].active => orders[i].table \in Tables /\ tables[orders[i].table] # NoTable
TxnsKept ==
  /\ txns \in [Slots -> Txn]
  /\ \A k \in Slots : Fits(txns[k]) /\ Stays(txns[k], floors, tables) /\ Looked(txns[k], orders)
  /\ \A j, k \in Slots : j # k => ~Clash(txns[j], txns[k])
\* The forms are about rows that were there.
PanelKept ==
  /\ panel \in [floors : {panel.floors}, selected : {panel.selected}, tables : {panel.tables},
                form : {panel.form}, busy : {panel.busy}]
  /\ \A r \in panel.floors : r.id \in Floors /\ r.version \in Nat
  /\ \A r \in panel.tables : r.id \in Tables /\ r.version \in Nat
  /\ panel.form.op \in {"none"} \cup FloorOps \cup TableOps /\ panel.form.version \in Nat
  /\ panel.form.op \in FloorOps \ {"floor_create"} => panel.form.id \in Floors
  /\ panel.form.op \in {"table_update", "table_delete"} => panel.form.id \in Tables
  /\ panel.form.op \in {"none", "floor_create", "table_create"} => panel.form.id = 0

IInv == RowTypes /\ RowsStand /\ TxnsKept /\ PanelKept

-----------------------------------------------------------------------------
\* The locks of each operation, and what it means that one is free.
LEMMA LockLists ==
  ASSUME NEW x
  PROVE  /\ x.op \in {"floor_update", "floor_delete"} => Locks(x) = <<Lock("floor", x.floor, "update")>>
         /\ x.op = "table_create" => Locks(x) = <<Lock("floor", x.floor, "share")>>
         /\ x.op = "table_update" =>
              Locks(x) = <<Lock("table", x.table, "update"), Lock("floor", x.floor, "share")>>
         /\ x.op = "table_delete" => Locks(x) = <<Lock("table", x.table, "update")>>
         /\ x.op = "order_create" =>
              Locks(x) = <<Lock("table", x.table, "share"), Lock("floor", tables[x.table].floor, "share")>>
         /\ x.op \in {"floor_create", "floor_set_tax"} => Locks(x) = <<>>
BY DEF Locks, UsualLocks

LEMMA HeldOf ==
  ASSUME TxnsKept, NEW j \in Slots
  PROVE  /\ TableAlone(txns[j]) => Lock("table", txns[j].table, "update") \in Held(j)
         /\ HasTable(txns[j]) => \E m \in {"update", "share"} : Lock("table", txns[j].table, m) \in Held(j)
         /\ FloorAlone(txns[j]) => Lock("floor", txns[j].floor, "update") \in Held(j)
         /\ HasFloor(txns[j]) => \E m \in {"update", "share"} : Lock("floor", txns[j].floor, m) \in Held(j)
<1> DEFINE x == txns[j]
<1>1. x.got \in Nat BY DEF TxnsKept, Txn
<1>2. x.got >= 1 => Locks(x)[1] \in Held(j) BY <1>1 DEF Held
<1>3. x.got >= 2 => Locks(x)[2] \in Held(j) BY <1>1 DEF Held
<1>4. TableAlone(x) => Locks(x)[1] = Lock("table", x.table, "update") BY LockLists DEF TableAlone
<1>5. x.op = "order_create" => Locks(x)[1] = Lock("table", x.table, "share") BY LockLists
<1>6. FloorAlone(x) => Locks(x)[1] = Lock("floor", x.floor, "update") BY LockLists DEF FloorAlone
<1>7. x.op = "table_create" => Locks(x)[1] = Lock("floor", x.floor, "share") BY LockLists
<1>8. x.op = "table_update" => Locks(x)[2] = Lock("floor", x.floor, "share") BY LockLists
<1> QED BY <1>1, <1>2, <1>3, <1>4, <1>5, <1>6, <1>7, <1>8 DEF TableAlone, HasTable, FloorAlone, HasFloor

LEMMA FreeTells ==
  ASSUME TxnsKept, NEW k \in Slots, NEW j \in Slots \ {k}, NEW n
  PROVE  /\ Free(k, Lock("table", n, "update")) => ~(HasTable(txns[j]) /\ txns[j].table = n)
         /\ Free(k, Lock("table", n, "share")) => ~(TableAlone(txns[j]) /\ txns[j].table = n)
         /\ Free(k, Lock("floor", n, "update")) => ~(HasFloor(txns[j]) /\ txns[j].floor = n)
         /\ Free(k, Lock("floor", n, "share")) => ~(FloorAlone(txns[j]) /\ txns[j].floor = n)
BY HeldOf DEF Free, Lock

-----------------------------------------------------------------------------
\* One transaction goes on while the rows stay as they are.
LEMMA Moved ==
  ASSUME TxnsKept, NEW k \in Slots, NEW x \in Txn, txns' = [txns EXCEPT ![k] = x], UNCHANGED Rows,
         Fits(x), Stays(x, floors, tables), Looked(x, orders),
         \A j \in Slots \ {k} : ~Clash(txns[j], x) /\ ~Clash(x, txns[j])
  PROVE  TxnsKept'
<1>1. txns' \in [Slots -> Txn] /\ txns'[k] = x /\ \A j \in Slots \ {k} : txns'[j] = txns[j]
  BY DEF TxnsKept
<1>2. \A j \in Slots : Fits(txns'[j]) /\ Stays(txns'[j], floors, tables) /\ Looked(txns'[j], orders)
  BY <1>1 DEF TxnsKept
<1>3. \A i, j \in Slots : i # j => ~Clash(txns'[i], txns'[j])
  BY <1>1 DEF TxnsKept
<1>4. UNCHANGED <<floors, tables, orders>> BY DEF Rows
<1> QED BY <1>1, <1>2, <1>3, <1>4 DEF TxnsKept

LEMMA Idle ==
  ASSUME NEW x \in Txn, x.got = 0, ~x.checked, NEW fl, NEW tb, NEW os, NEW y
  PROVE  Stays(x, fl, tb) /\ Looked(x, os) /\ ~Clash(y, x) /\ ~Clash(x, y)
BY DEF Stays, Looked, Clash, HasTable, TableAlone, HasFloor, FloorAlone, Txn

LEMMA NoTxnIdle == NoTxn \in Txn /\ Fits(NoTxn) /\ NoTxn.got = 0 /\ ~NoTxn.checked
BY DEF NoTxn, Txn, Fits, AboutFloor, AboutTable

\* A transaction ends.
LEMMA Ended ==
  ASSUME TxnsKept, NEW k \in Slots, Ends(k), UNCHANGED Rows
  PROVE  TxnsKept'
BY Moved, NoTxnIdle, Idle DEF Ends

\* A transaction ends with new rows.
LEMMA Committed ==
  ASSUME TxnsKept, NEW k \in Slots, Ends(k),
         \A j \in Slots \ {k} : Stays(txns[j], floors', tables') /\ Looked(txns[j], orders')
  PROVE  TxnsKept'
<1>1. txns' \in [Slots -> Txn] /\ txns'[k] = NoTxn /\ \A j \in Slots \ {k} : txns'[j] = txns[j]
  BY NoTxnIdle DEF TxnsKept, Ends
<1>2. \A j \in Slots : Fits(txns'[j]) /\ Stays(txns'[j], floors', tables') /\ Looked(txns'[j], orders')
  BY <1>1, NoTxnIdle, Idle DEF TxnsKept
<1>3. \A i, j \in Slots : i # j => ~Clash(txns'[i], txns'[j])
  BY <1>1, NoTxnIdle, Idle DEF TxnsKept
<1> QED BY <1>1, <1>2, <1>3 DEF TxnsKept

\* The panel, when it only stops waiting, or closes its form.
LEMMA PanelWaits ==
  ASSUME PanelKept, NEW k, \/ panel' = panel
                           \/ panel' = [panel EXCEPT !.busy = k]
                           \/ panel' = [panel EXCEPT !.busy = 0, !.form = NoForm]
                           \/ panel' = [panel EXCEPT !.form = NoForm]
  PROVE  PanelKept'
<1>1. CASE panel' = panel BY <1>1 DEF PanelKept
<1>2. CASE panel' = [panel EXCEPT !.busy = k] BY <1>2 DEF PanelKept
<1>3. ASSUME panel' = [panel EXCEPT !.busy = 0, !.form = NoForm] \/ panel' = [panel EXCEPT !.form = NoForm]
      PROVE  PanelKept'
  <2>1. panel'.floors = panel.floors /\ panel'.tables = panel.tables /\ panel'.form = NoForm
    BY <1>3 DEF PanelKept
  <2>2. panel' \in [floors : {panel'.floors}, selected : {panel'.selected}, tables : {panel'.tables},
                    form : {panel'.form}, busy : {panel'.busy}]
    BY <1>3 DEF PanelKept
  <2> QED BY <2>1, <2>2 DEF PanelKept, NoForm, FloorOps
<1> QED BY <1>1, <1>2, <1>3

-----------------------------------------------------------------------------
\* A lock is taken.
LEMMA AcquireIInv ==
  ASSUME IInv, NEW k \in Slots, Acquire(k)
  PROVE  IInv'
<1> DEFINE x == txns[k]
           l == Locks(x)[x.got + 1]
<1>1. x \in Txn /\ x.op # "none" /\ x.got < Len(Locks(x)) /\ Free(k, l)
  BY DEF Acquire, IInv, TxnsKept
<1>2. CASE Fails(k)
  <2>1. TxnsKept' BY <1>2, Ended DEF Fails, IInv
  <2>2. PanelKept' BY <1>2, PanelWaits DEF Fails, IInv
  <2> QED BY <1>2, <2>1, <2>2 DEF Fails, IInv, RowTypes, RowsStand, Rows
<1>3. CASE ~Fails(k)
  <2>1. /\ txns' = [txns EXCEPT ![k].got = @ + 1] /\ UNCHANGED <<Rows, panel, refreshes>>
        /\ Version(l.kind, l.row) # 0
    BY <1>3 DEF Acquire
  <2> DEFINE y == [x EXCEPT !.got = @ + 1]
  <2>2. /\ y \in Txn /\ y.op = x.op /\ y.floor = x.floor /\ y.table = x.table
        /\ y.checked = x.checked /\ y.got = x.got + 1 /\ x.got \in Nat
    BY <1>1 DEF Txn
  <2>3. txns' = [txns EXCEPT ![k] = y] BY <2>1 DEF IInv, TxnsKept
  <2>4. Fits(x) /\ Stays(x, floors, tables) /\ Looked(x, orders)
        /\ \A j \in Slots \ {k} : ~Clash(txns[j], x) /\ ~Clash(x, txns[j])
    BY DEF IInv, TxnsKept
  <2>5. Fits(y) /\ Looked(y, orders) BY <2>2, <2>4 DEF Fits, Looked
  <2> SUFFICES /\ Stays(y, floors, tables)
               /\ \A j \in Slots \ {k} : ~Clash(txns[j], y) /\ ~Clash(y, txns[j])
    <3> HIDE DEF y
    <3>1. TxnsKept' BY <2>1, <2>2, <2>3, <2>5, Moved DEF IInv
    <3> QED BY <2>1, <3>1 DEF IInv, RowTypes, RowsStand, PanelKept, Rows
  <2>6. CASE x.op \in {"floor_update", "floor_delete"}
    <3>1. x.got = 0 /\ l = Lock("floor", x.floor, "update") BY <1>1, <2>2, <2>6, LockLists
    <3>2. floors[x.floor] # 0 BY <2>1, <3>1 DEF Version, Lock
    <3>3. \A j \in Slots \ {k} : ~(HasFloor(txns[j]) /\ txns[j].floor = x.floor)
      BY <1>1, <3>1, FreeTells DEF IInv
    <3> QED BY <2>2, <2>6, <3>2, <3>3
        DEF Stays, Clash, HasTable, TableAlone, HasFloor, FloorAlone
  <2>7. CASE x.op = "table_create"
    <3>1. x.got = 0 /\ l = Lock("floor", x.floor, "share") BY <1>1, <2>2, <2>7, LockLists
    <3>2. floors[x.floor] # 0 BY <2>1, <3>1 DEF Version, Lock
    <3>3. \A j \in Slots \ {k} : ~(FloorAlone(txns[j]) /\ txns[j].floor = x.floor)
      BY <1>1, <3>1, FreeTells DEF IInv
    <3> QED BY <2>2, <2>7, <3>2, <3>3
        DEF Stays, Clash, HasTable, TableAlone, HasFloor, FloorAlone
  <2>8. CASE x.op = "table_delete"
    <3>1. x.got = 0 /\ l = Lock("table", x.table, "update") BY <1>1, <2>2, <2>8, LockLists
    <3>2. tables[x.table] # NoTable BY <2>1, <3>1 DEF Version, Lock, NoTable
    <3>3. \A j \in Slots \ {k} : ~(HasTable(txns[j]) /\ txns[j].table = x.table)
      BY <1>1, <3>1, FreeTells DEF IInv
    <3> QED BY <2>2, <2>8, <3>2, <3>3
        DEF Stays, Clash, HasTable, TableAlone, HasFloor, FloorAlone
  <2>9. CASE x.op = "table_update" /\ x.got = 0
    <3>1. l = Lock("table", x.table, "update") BY <2>9, LockLists
    <3>2. tables[x.table] # NoTable BY <2>1, <3>1 DEF Version, Lock, NoTable
    <3>3. \A j \in Slots \ {k} : ~(HasTable(txns[j]) /\ txns[j].table = x.table)
      BY <1>1, <3>1, FreeTells DEF IInv
    <3> QED BY <2>2, <2>9, <3>2, <3>3
        DEF Stays, Clash, HasTable, TableAlone, HasFloor, FloorAlone
  <2>10. CASE x.op = "table_update" /\ x.got # 0
    <3>1. x.got = 1 /\ l = Lock("floor", x.floor, "share") BY <1>1, <2>2, <2>10, LockLists
    <3>2. floors[x.floor] # 0 BY <2>1, <3>1 DEF Version, Lock
    <3>3. \A j \in Slots \ {k} : ~(FloorAlone(txns[j]) /\ txns[j].floor = x.floor)
      BY <1>1, <3>1, FreeTells DEF IInv
    <3> QED BY <2>2, <2>4, <2>10, <3>1, <3>2, <3>3
        DEF Stays, Clash, HasTable, TableAlone, HasFloor, FloorAlone
  <2>11. CASE x.op = "order_create" /\ x.got = 0
    <3>1. l = Lock("table", x.table, "share") BY <2>11, LockLists
    <3>2. tables[x.table] # NoTable BY <2>1, <3>1 DEF Version, Lock, NoTable
    <3>3. \A j \in Slots \ {k} : ~(TableAlone(txns[j]) /\ txns[j].table = x.table)
      BY <1>1, <3>1, FreeTells DEF IInv
    <3> QED BY <2>2, <2>11, <3>2, <3>3
        DEF Stays, Clash, HasTable, TableAlone, HasFloor, FloorAlone
  <2>12. CASE x.op = "order_create" /\ x.got # 0
    BY <2>2, <2>4, <2>12 DEF Stays, Clash, HasTable, TableAlone, HasFloor, FloorAlone
  <2>13. CASE x.op \in {"floor_create", "floor_set_tax"} BY <1>1, <2>2, <2>13, LockLists
  <2> QED BY <1>1, <2>6, <2>7, <2>8, <2>9, <2>10, <2>11, <2>12, <2>13
      DEF Txn, Ops, FloorOps, TableOps
<1> QED BY <1>2, <1>3

\* A deletion looks at what refers to its row.
LEMMA CheckIInv ==
  ASSUME IInv, NEW k \in Slots, Check(k)
  PROVE  IInv'
<1> DEFINE x == txns[k]
<1>1. CASE Fails(k)
  <2>1. TxnsKept' BY <1>1, Ended DEF Fails, IInv
  <2>2. PanelKept' BY <1>1, PanelWaits DEF Fails, IInv
  <2> QED BY <1>1, <2>1, <2>2 DEF Fails, IInv, RowTypes, RowsStand, Rows
<1>2. CASE ~Fails(k)
  <2>1. /\ txns' = [txns EXCEPT ![k].checked = TRUE] /\ UNCHANGED <<Rows, panel, refreshes>>
        /\ ~Referred(x) /\ x.op \in {"floor_delete", "table_delete"} /\ x.got = Len(Locks(x))
    BY <1>2 DEF Check, Locked
  <2> DEFINE y == [x EXCEPT !.checked = TRUE]
  <2>2. /\ y \in Txn /\ y.op = x.op /\ y.floor = x.floor /\ y.table = x.table /\ y.got = x.got /\ x \in Txn
    BY DEF IInv, TxnsKept, Txn
  <2>3. txns' = [txns EXCEPT ![k] = y] BY <2>1 DEF IInv, TxnsKept
  <2>4. Fits(x) /\ Stays(x, floors, tables)
        /\ \A j \in Slots \ {k} : ~Clash(txns[j], x) /\ ~Clash(x, txns[j])
    BY DEF IInv, TxnsKept
  <2>5. Fits(y) /\ Stays(y, floors, tables)
        /\ \A j \in Slots \ {k} : ~Clash(txns[j], y) /\ ~Clash(y, txns[j])
    BY <2>2, <2>4 DEF Fits, Stays, Clash, HasTable, TableAlone, HasFloor, FloorAlone
  <2>6. Looked(y, orders)
    <3>1. x.got = 1 BY <2>1, LockLists
    <3> QED BY <2>1, <2>2, <3>1 DEF Looked, Referred, Occupied
  <2> HIDE DEF y
  <2>7. TxnsKept' BY <2>1, <2>2, <2>3, <2>5, <2>6, Moved DEF IInv
  <2> QED BY <2>1, <2>7 DEF IInv, RowTypes, RowsStand, PanelKept, Rows
<1> QED BY <1>1, <1>2

\* The commits.  Each leaves the rows standing, the rows that others have locks
\* on where they are, and what others have looked for true.
Safe(k) ==
  /\ RowTypes' /\ RowsStand'
  /\ \A j \in Slots \ {k} : Stays(txns[j], floors', tables') /\ Looked(txns[j], orders')

LEMMA Others ==
  ASSUME IInv, NEW k \in Slots, NEW j \in Slots \ {k}
  PROVE  /\ Fits(txns[j]) /\ Stays(txns[j], floors, tables) /\ Looked(txns[j], orders)
         /\ ~Clash(txns[j], txns[k]) /\ ~Clash(txns[k], txns[j])
         /\ HasTable(txns[j]) => txns[j].table \in Tables
         /\ HasFloor(txns[j]) => txns[j].floor \in Floors
BY DEF IInv, TxnsKept, Fits, AboutFloor, AboutTable, HasTable, TableAlone, HasFloor, FloorAlone

LEMMA FloorCreateSafe ==
  ASSUME IInv, NEW k \in Slots, floor_create(txns[k])
  PROVE  Safe(k)
<1>1. PICK f \in Floors : floors' = [floors EXCEPT ![f] = 1] BY DEF floor_create
<1>2. UNCHANGED <<tables, orders>> BY DEF floor_create
<1>3. floors' \in [Floors -> Nat] /\ \A g \in Floors : floors[g] # 0 => floors'[g] # 0
  BY <1>1 DEF IInv, RowTypes
<1>4. RowTypes' /\ RowsStand' BY <1>2, <1>3 DEF IInv, RowTypes, RowsStand
<1>5. ASSUME NEW j \in Slots \ {k}
      PROVE  Stays(txns[j], floors', tables') /\ Looked(txns[j], orders')
  BY <1>2, <1>3, Others DEF Stays
<1> QED BY <1>4, <1>5 DEF Safe

LEMMA FloorUpdateSafe ==
  ASSUME IInv, NEW k \in Slots, txns[k].op = "floor_update", floor_update(txns[k])
  PROVE  Safe(k)
<1>1. floors' = [floors EXCEPT ![txns[k].floor] = @ + 1] /\ UNCHANGED <<tables, orders>>
  BY DEF floor_update
<1>2. floors' \in [Floors -> Nat] /\ \A g \in Floors : floors[g] # 0 => floors'[g] # 0
  <2>1. floors \in [Floors -> Nat] /\ txns[k].floor \in Floors
    BY DEF IInv, RowTypes, TxnsKept, Fits, AboutFloor
  <2>2. floors[txns[k].floor] + 1 \in Nat \ {0} BY <2>1
  <2> QED BY <1>1, <2>1, <2>2
<1>3. RowTypes' /\ RowsStand' BY <1>1, <1>2 DEF IInv, RowTypes, RowsStand
<1>4. ASSUME NEW j \in Slots \ {k}
      PROVE  Stays(txns[j], floors', tables') /\ Looked(txns[j], orders')
  BY <1>1, <1>2, Others DEF Stays
<1> QED BY <1>3, <1>4 DEF Safe

\* The lock of the floor keeps those away who would put a table on it.
LEMMA FloorDeleteSafe ==
  ASSUME IInv, NEW k \in Slots, txns[k].op = "floor_delete", Locked(k), floor_delete(txns[k])
  PROVE  Safe(k)
<1> DEFINE n == txns[k].floor
<1>1. floors' = [floors EXCEPT ![n] = 0] /\ UNCHANGED <<tables, orders>> /\ OnFloor(n) = {}
  BY DEF floor_delete
<1>2. floors' \in [Floors -> Nat] /\ \A g \in Floors : g # n => floors'[g] = floors[g]
  BY <1>1 DEF IInv, RowTypes
<1>3. FloorAlone(txns[k]) BY LockLists DEF Locked, FloorAlone
<1>4. RowTypes' BY <1>1, <1>2 DEF IInv, RowTypes
<1>5. \A t \in Tables : tables[t].floor # n BY <1>1 DEF OnFloor
<1>6. RowsStand' BY <1>1, <1>2, <1>5 DEF IInv, RowsStand
<1>7. ASSUME NEW j \in Slots \ {k}
      PROVE  Stays(txns[j], floors', tables') /\ Looked(txns[j], orders')
  <2>1. HasFloor(txns[j]) => txns[j].floor # n BY <1>3, Others DEF Clash
  <2> QED BY <1>1, <1>2, <2>1, Others DEF Stays
<1> QED BY <1>4, <1>6, <1>7 DEF Safe

LEMMA FloorTaxSafe ==
  ASSUME IInv, NEW k \in Slots, 0 \notin Floors, txns[k].op = "floor_set_tax", floor_set_tax(txns[k])
  PROVE  Safe(k)
<1> DEFINE n == txns[k].floor
<1>1. n \in Floors BY DEF IInv, TxnsKept, Fits, AboutFloor
<1>2. /\ tables' = [t \in Tables |-> IF tables[t].floor = n THEN [tables[t] EXCEPT !.version = @ + 1] ELSE tables[t]]
      /\ UNCHANGED <<floors, orders>>
  BY DEF floor_set_tax
<1>3. ASSUME NEW t \in Tables
      PROVE  /\ tables'[t] \in TableRow /\ tables'[t].floor = tables[t].floor
             /\ tables[t] # NoTable <=> tables'[t] # NoTable
             /\ tables'[t] # NoTable => tables'[t].version # 0
  <2>1. tables[t] \in TableRow BY DEF IInv, RowTypes
  <2>2. CASE tables[t].floor = n
    <3>1. tables'[t] = [tables[t] EXCEPT !.version = @ + 1] BY <1>2, <2>2
    <3>2. tables'[t] \in TableRow /\ tables'[t].floor = n /\ tables'[t].version = tables[t].version + 1
      BY <2>1, <2>2, <3>1 DEF TableRow
    <3> QED BY <1>1, <2>1, <2>2, <3>2 DEF NoTable, TableRow
  <2>3. CASE tables[t].floor # n BY <1>2, <2>1, <2>3 DEF IInv, RowsStand
  <2> QED BY <2>2, <2>3
<1>4. RowTypes' BY <1>2, <1>3 DEF IInv, RowTypes
<1>5. RowsStand' BY <1>2, <1>3 DEF IInv, RowsStand
<1>6. ASSUME NEW j \in Slots \ {k}
      PROVE  Stays(txns[j], floors', tables') /\ Looked(txns[j], orders')
  BY <1>2, <1>3, Others DEF Stays
<1> QED BY <1>4, <1>5, <1>6 DEF Safe

\* A table comes to a floor that the transaction has a lock on.
LEMMA TablePut ==
  ASSUME IInv, NEW k \in Slots, NEW t \in Tables, NEW v \in Nat \ {0}, HasFloor(txns[k]),
         txns[k].floor \in Floors, UNCHANGED <<floors, orders>>,
         tables' = [tables EXCEPT ![t] = [floor |-> txns[k].floor, version |-> v]]
  PROVE  Safe(k)
<1> DEFINE n == txns[k].floor
<1>1. floors[n] # 0 BY DEF IInv, TxnsKept, Stays
<1>2. [floor |-> n, version |-> v] \in TableRow /\ [floor |-> n, version |-> v] # NoTable
  BY DEF TableRow, NoTable
<1>3. /\ tables' \in [Tables -> TableRow] /\ tables'[t] = [floor |-> n, version |-> v]
      /\ \A u \in Tables : u # t => tables'[u] = tables[u]
  BY <1>2 DEF IInv, RowTypes
<1>4. RowTypes' BY <1>3 DEF IInv, RowTypes
<1>5. RowsStand' BY <1>1, <1>2, <1>3 DEF IInv, RowsStand
<1>6. ASSUME NEW j \in Slots \ {k}
      PROVE  Stays(txns[j], floors', tables') /\ Looked(txns[j], orders')
  BY <1>2, <1>3, Others DEF Stays
<1> QED BY <1>4, <1>5, <1>6 DEF Safe

LEMMA TableCreateSafe ==
  ASSUME IInv, NEW k \in Slots, txns[k].op = "table_create", Locked(k), table_create(txns[k])
  PROVE  Safe(k)
<1>1. PICK t \in Tables : tables' = [tables EXCEPT ![t] = [floor |-> txns[k].floor, version |-> 1]]
  BY DEF table_create
<1>2. HasFloor(txns[k]) BY LockLists DEF Locked, HasFloor
<1>3. txns[k].floor \in Floors /\ UNCHANGED <<floors, orders>>
  BY DEF IInv, TxnsKept, Fits, AboutFloor, table_create
<1>4. 1 \in Nat \ {0} OBVIOUS
<1> QED BY <1>1, <1>2, <1>3, <1>4, TablePut

LEMMA TableUpdateSafe ==
  ASSUME IInv, NEW k \in Slots, txns[k].op = "table_update", Locked(k), table_update(txns[k])
  PROVE  Safe(k)
<1> DEFINE t == txns[k].table
           v == tables[t].version + 1
<1>1. t \in Tables /\ txns[k].floor \in Floors BY DEF IInv, TxnsKept, Fits, AboutFloor, AboutTable
<1>2. v \in Nat \ {0} BY <1>1 DEF IInv, RowTypes, TableRow
<1>3. /\ tables' = [tables EXCEPT ![t] = [floor |-> txns[k].floor, version |-> v]]
      /\ UNCHANGED <<floors, orders>>
  BY <1>1 DEF table_update, IInv, RowTypes
<1>4. HasFloor(txns[k]) BY LockLists DEF Locked, HasFloor
<1> HIDE DEF v
<1> QED BY <1>1, <1>2, <1>3, <1>4, TablePut

\* The lock of the table keeps new orders away since the look.
LEMMA TableDeleteSafe ==
  ASSUME IInv, NEW k \in Slots, 0 \notin Tables, txns[k].op = "table_delete", Locked(k), txns[k].checked,
         table_delete(txns[k])
  PROVE  Safe(k)
<1> DEFINE t == txns[k].table
<1>1. t \in Tables BY DEF IInv, TxnsKept, Fits, AboutTable
<1>2. /\ tables' = [tables EXCEPT ![t] = NoTable] /\ UNCHANGED floors
      /\ orders' = [i \in DOMAIN orders |-> IF orders[i].table = t THEN [orders[i] EXCEPT !.table = 0] ELSE orders[i]]
  BY DEF table_delete
<1>3. TableAlone(txns[k]) BY LockLists DEF Locked, TableAlone
<1>4. \A i \in DOMAIN orders : ~(orders[i].table = t /\ orders[i].active)
  BY DEF IInv, TxnsKept, Looked
<1>5. /\ tables' \in [Tables -> TableRow] /\ tables'[t] = NoTable
      /\ \A u \in Tables : u # t => tables'[u] = tables[u]
  <2>1. NoTable \in TableRow BY DEF NoTable, TableRow
  <2> QED BY <1>1, <1>2, <2>1 DEF IInv, RowTypes
<1>6. /\ orders' \in Seq(Order) /\ DOMAIN orders' = DOMAIN orders
      /\ \A i \in DOMAIN orders :
           /\ orders'[i].active = orders[i].active /\ orders'[i].table \in {0, orders[i].table}
           /\ orders[i].active => orders'[i] = orders[i]
  <2>1. orders \in Seq(Order) BY DEF IInv, RowTypes
  <2>2. \A i \in DOMAIN orders : orders[i] \in Order BY <2>1
  <2>3. \A i \in DOMAIN orders : [orders[i] EXCEPT !.table = 0] \in Order BY <2>2 DEF Order
  <2>4. DOMAIN orders = 1 .. Len(orders) /\ Len(orders) \in Nat BY <2>1
  <2>5. \A i \in DOMAIN orders : orders'[i] = IF orders[i].table = t THEN [orders[i] EXCEPT !.table = 0] ELSE orders[i]
    BY <1>2
  <2>6. \A i \in 1 .. Len(orders) : orders'[i] \in Order BY <2>2, <2>3, <2>4, <2>5
  <2>7. DOMAIN orders' = 1 .. Len(orders) BY <1>2, <2>4
  <2>8. orders' \in [1 .. Len(orders) -> Order]
    <3>1. orders' = [i \in 1 .. Len(orders) |-> orders'[i]] BY <1>2, <2>4
    <3> QED BY <2>6, <3>1
  <2>9. orders' \in Seq(Order) BY <2>4, <2>8
  <2>10. ASSUME NEW i \in DOMAIN orders
         PROVE  /\ orders'[i].active = orders[i].active /\ orders'[i].table \in {0, orders[i].table}
                /\ orders[i].active => orders'[i] = orders[i]
    BY <1>4, <2>2, <2>5 DEF Order
  <2> QED BY <2>4, <2>7, <2>9, <2>10
<1>7. RowTypes' BY <1>2, <1>5, <1>6 DEF IInv, RowTypes
<1>8. RowsStand'
  <2>1. \A u \in Tables : tables'[u] # NoTable =>
          tables'[u].floor \in Floors /\ tables'[u].version # 0 /\ floors'[tables'[u].floor] # 0
    BY <1>2, <1>5 DEF IInv, RowsStand
  <2>2. \A i \in DOMAIN orders' : orders'[i].active => orders'[i].table \in Tables /\ tables'[orders'[i].table] # NoTable
    BY <1>4, <1>5, <1>6 DEF IInv, RowsStand
  <2> QED BY <2>1, <2>2 DEF RowsStand
<1>9. ASSUME NEW j \in Slots \ {k}
      PROVE  Stays(txns[j], floors', tables') /\ Looked(txns[j], orders')
  <2>1. HasTable(txns[j]) => txns[j].table # t BY <1>3, Others DEF Clash
  <2>2. Stays(txns[j], floors', tables') BY <1>2, <1>5, <2>1, Others DEF Stays
  <2>3. txns[j].op = "table_delete" => txns[j].table \in Tables BY Others DEF Fits, AboutTable
  <2>4. Looked(txns[j], orders') BY <1>6, <2>3, Others DEF Looked
  <2> QED BY <2>2, <2>4
<1> QED BY <1>7, <1>8, <1>9 DEF Safe

LEMMA OrderCreateSafe ==
  ASSUME IInv, NEW k \in Slots, txns[k].op = "order_create", Locked(k), order_create(txns[k])
  PROVE  Safe(k)
<1> DEFINE t == txns[k].table
           o == [table |-> t, active |-> TRUE]
<1>1. t \in Tables BY DEF IInv, TxnsKept, Fits, AboutTable
<1>2. orders' = Append(orders, o) /\ UNCHANGED <<floors, tables>> BY DEF order_create
<1>3. HasTable(txns[k]) BY LockLists DEF Locked, HasTable
<1>4. tables[t] # NoTable BY <1>3 DEF IInv, TxnsKept, Stays
<1>5. o \in Order /\ orders \in Seq(Order) BY <1>1 DEF Order, IInv, RowTypes
<1> HIDE DEF o
<1>6. /\ orders' \in Seq(Order)
      /\ \A i \in DOMAIN orders' : (i \in DOMAIN orders /\ orders'[i] = orders[i]) \/ orders'[i] = o
  BY <1>2, <1>5
<1>7. RowTypes' BY <1>2, <1>6 DEF IInv, RowTypes
<1>8. RowsStand'
  <2>1. \A i \in DOMAIN orders' : orders'[i].active => orders'[i].table \in Tables /\ tables[orders'[i].table] # NoTable
    BY <1>1, <1>4, <1>6 DEF IInv, RowsStand, o
  <2> QED BY <1>2, <2>1 DEF IInv, RowsStand
<1>9. ASSUME NEW j \in Slots \ {k}
      PROVE  Stays(txns[j], floors', tables') /\ Looked(txns[j], orders')
  <2>1. txns[j].op = "table_delete" /\ txns[j].got >= 1 => txns[j].table # t
    BY <1>3, Others DEF Clash, TableAlone
  <2>2. Looked(txns[j], orders') BY <1>6, <2>1, Others DEF Looked, o
  <2> QED BY <1>2, <2>2, Others
<1> QED BY <1>7, <1>8, <1>9 DEF Safe

LEMMA CommitIInv ==
  ASSUME IInv, NEW k \in Slots, Commit(k), 0 \notin Floors, 0 \notin Tables
  PROVE  IInv'
<1>1. Locked(k) /\ (txns[k].op \in {"floor_delete", "table_delete"} => txns[k].checked) /\ Effect(txns[k])
  BY DEF Commit
<1>2. Safe(k)
  BY <1>1, FloorCreateSafe, FloorUpdateSafe, FloorDeleteSafe, FloorTaxSafe, TableCreateSafe,
     TableUpdateSafe, TableDeleteSafe, OrderCreateSafe
  DEF Effect
<1>3. Ends(k) /\ (panel' = panel \/ panel' = [panel EXCEPT !.busy = 0, !.form = NoForm])
  BY DEF Commit, Done
<1>4. TxnsKept' BY <1>2, <1>3, Committed DEF Safe, IInv
<1>5. PanelKept' BY <1>3, PanelWaits DEF IInv
<1> QED BY <1>2, <1>4, <1>5 DEF Safe, IInv

-----------------------------------------------------------------------------
\* A transaction begins.
LEMMA Begun ==
  ASSUME TxnsKept, NEW k \in Slots, NEW x \in Txn, Fits(x), x.got = 0, ~x.checked, Begin(k, x),
         UNCHANGED Rows
  PROVE  TxnsKept'
BY Moved, Idle DEF Begin

LEMMA ElsewhereIInv ==
  ASSUME IInv, NEW k \in Slots, Elsewhere(k)
  PROVE  IInv'
<1>1. UNCHANGED <<Rows, panel>> BY DEF Elsewhere
<1>2. ASSUME NEW t \in Tables, Begin(k, [NoTxn EXCEPT !.op = "order_create", !.table = t])
      PROVE  TxnsKept'
  <2> DEFINE x == [NoTxn EXCEPT !.op = "order_create", !.table = t]
  <2>1. x \in Txn /\ Fits(x) /\ x.got = 0 /\ ~x.checked
    BY DEF Txn, NoTxn, Ops, FloorOps, TableOps, Fits, AboutFloor, AboutTable
  <2> HIDE DEF x
  <2> QED BY <1>1, <1>2, <2>1, Begun DEF IInv, x
<1>3. ASSUME NEW t \in Tables, NEW f \in Floors,
             Begin(k, [NoTxn EXCEPT !.op = "table_update", !.table = t, !.floor = f, !.version = tables[t].version])
      PROVE  TxnsKept'
  <2> DEFINE x == [NoTxn EXCEPT !.op = "table_update", !.table = t, !.floor = f, !.version = tables[t].version]
  <2>1. tables[t].version \in Nat BY DEF IInv, RowTypes, TableRow
  <2>2. x \in Txn /\ Fits(x) /\ x.got = 0 /\ ~x.checked
    BY <2>1 DEF Txn, NoTxn, Ops, FloorOps, TableOps, Fits, AboutFloor, AboutTable
  <2> HIDE DEF x
  <2> QED BY <1>1, <1>3, <2>2, Begun DEF IInv, x
<1>4. ASSUME NEW f \in Floors, Begin(k, [NoTxn EXCEPT !.op = "floor_delete", !.floor = f, !.version = floors[f]])
      PROVE  TxnsKept'
  <2> DEFINE x == [NoTxn EXCEPT !.op = "floor_delete", !.floor = f, !.version = floors[f]]
  <2>1. floors[f] \in Nat BY DEF IInv, RowTypes
  <2>2. x \in Txn /\ Fits(x) /\ x.got = 0 /\ ~x.checked
    BY <2>1 DEF Txn, NoTxn, Ops, FloorOps, TableOps, Fits, AboutFloor, AboutTable
  <2> HIDE DEF x
  <2> QED BY <1>1, <1>4, <2>2, Begun DEF IInv, x
<1>5. TxnsKept' BY <1>2, <1>3, <1>4 DEF Elsewhere
<1> QED BY <1>1, <1>5 DEF IInv, RowTypes, RowsStand, PanelKept, Rows

LEMMA OrderEndsIInv ==
  ASSUME IInv, NEW i \in DOMAIN orders, OrderEnds(i)
  PROVE  IInv'
<1>1. orders' = [orders EXCEPT ![i].active = FALSE] /\ UNCHANGED <<floors, tables, txns, panel>>
  BY DEF OrderEnds
<1>2. orders \in Seq(Order) /\ orders[i] \in Order BY DEF IInv, RowTypes
<1>6. [orders[i] EXCEPT !.active = FALSE] \in Order /\ ~[orders[i] EXCEPT !.active = FALSE].active
  BY <1>2 DEF Order
<1>3. /\ orders' \in Seq(Order) /\ DOMAIN orders' = DOMAIN orders
      /\ \A n \in DOMAIN orders : orders'[n].active => n # i /\ orders'[n] = orders[n]
  BY <1>1, <1>2, <1>6
<1>4. \A k \in Slots : Looked(txns[k], orders') BY <1>3 DEF IInv, TxnsKept, Looked
<1>5. RowsStand' BY <1>1, <1>3 DEF IInv, RowsStand
<1> QED BY <1>1, <1>3, <1>4, <1>5 DEF IInv, RowTypes, TxnsKept, PanelKept

-----------------------------------------------------------------------------
\* The panel.
LEMMA PanelIInv ==
  ASSUME IInv, Panel, 0 \notin Floors, 0 \notin Tables
  PROVE  IInv'
<1>1. ASSUME UNCHANGED <<Rows, txns>>, PanelKept' PROVE IInv'
  BY <1>1 DEF IInv, RowTypes, RowsStand, TxnsKept, Rows
<1>2. ASSUME NEW k \in Slots, RefreshFloors(k) PROVE IInv'
  <2>1. /\ panel'.floors = {[id |-> f, version |-> floors[f]] : f \in {g \in Floors : floors[g] # 0}}
        /\ panel'.tables \in {{}, panel.tables} /\ panel'.form = panel.form
        /\ panel' \in [floors : {panel'.floors}, selected : {panel'.selected}, tables : {panel'.tables},
                       form : {panel'.form}, busy : {panel'.busy}]
    BY <1>2 DEF RefreshFloors, IInv, PanelKept
  <2>2. \A r \in panel'.floors : r.id \in Floors /\ r.version \in Nat
    BY <2>1 DEF IInv, RowTypes
  <2>3. \A r \in panel'.tables : r.id \in Tables /\ r.version \in Nat
    BY <2>1 DEF IInv, PanelKept
  <2>4. PanelKept' BY <2>1, <2>2, <2>3 DEF IInv, PanelKept
  <2> QED BY <1>1, <1>2, <2>4 DEF RefreshFloors
<1>3. ASSUME NEW k \in Slots, RefreshTables(k) PROVE IInv'
  <2> DEFINE n == refreshes[k].next
  <2>1. /\ panel'.floors = panel.floors /\ panel'.form = panel.form
        /\ panel'.tables = {[id |-> t, floor |-> n, version |-> tables[t].version] : t \in OnFloor(n)}
        /\ panel' \in [floors : {panel'.floors}, selected : {panel'.selected}, tables : {panel'.tables},
                       form : {panel'.form}, busy : {panel'.busy}]
    BY <1>3 DEF RefreshTables, IInv, PanelKept
  <2>2. \A r \in panel'.tables : r.id \in Tables /\ r.version \in Nat
    BY <2>1 DEF IInv, RowTypes, TableRow, OnFloor
  <2>3. PanelKept' BY <2>1, <2>2 DEF IInv, PanelKept
  <2> QED BY <1>1, <1>3, <2>3 DEF RefreshTables
<1>4. ASSUME NEW k \in Slots, RefreshFails(k) PROVE IInv'
  BY <1>1, <1>4, PanelWaits DEF RefreshFails, IInv
<1>5. ASSUME NEW r, FloorCard(r) PROVE IInv'
  BY <1>1, <1>5, PanelWaits DEF FloorCard, IInv
<1>6. ASSUME NEW op, NEW id, NEW version \in Nat, Opens(op, id, version),
             \/ op \in FloorOps \ {"floor_create"} /\ id \in Floors
             \/ op \in {"table_update", "table_delete"} /\ id \in Tables
             \/ op \in {"floor_create", "table_create"} /\ id = 0
      PROVE  IInv'
  <2>1. /\ panel'.floors = panel.floors /\ panel'.tables = panel.tables
        /\ panel'.form = [op |-> op, id |-> id, version |-> version]
        /\ panel' \in [floors : {panel'.floors}, selected : {panel'.selected}, tables : {panel'.tables},
                       form : {panel'.form}, busy : {panel'.busy}]
    BY <1>6 DEF Opens, IInv, PanelKept
  <2>2. PanelKept' BY <1>6, <2>1 DEF IInv, PanelKept, Ops, FloorOps, TableOps
  <2> QED BY <1>1, <1>6, <2>2 DEF Opens
<1>7. CASE Close
  BY <1>1, <1>7, PanelWaits DEF Close, IInv
<1>8. ASSUME NEW k \in Slots, NEW f \in {0} \cup Floors, Submit(k, f) PROVE IInv'
  <2> DEFINE form == panel.form
             x == [NoTxn EXCEPT !.op = form.op, !.version = form.version,
                                !.floor = IF form.op \in FloorOps THEN form.id ELSE f,
                                !.table = IF form.op \in TableOps THEN form.id ELSE 0]
  <2>1. Begin(k, x) /\ panel' = [panel EXCEPT !.busy = k] /\ UNCHANGED Rows
        /\ (f # 0 <=> form.op \in {"table_create", "table_update"})
    BY <1>8 DEF Submit
  <2>2. x \in Txn /\ Fits(x) /\ x.got = 0 /\ ~x.checked
    <3>1. /\ x.op = form.op /\ x.version = form.version /\ x.got = 0 /\ x.checked = FALSE
          /\ x.floor = IF form.op \in FloorOps THEN form.id ELSE f
          /\ x.table = IF form.op \in TableOps THEN form.id ELSE 0
          /\ x \in [op : {x.op}, floor : {x.floor}, table : {x.table}, version : {x.version},
                    got : {x.got}, checked : {x.checked}]
      BY DEF NoTxn
    <3>2. PanelKept BY DEF IInv
    <3> HIDE DEF x
    <3>3. x.floor \in {0} \cup Floors /\ (x.op \in AboutFloor => x.floor \in Floors)
      BY <2>1, <3>1, <3>2 DEF PanelKept, AboutFloor, FloorOps
    <3>4. x.table \in {0} \cup Tables /\ (x.op \in AboutTable => x.table \in Tables)
      BY <3>1, <3>2 DEF PanelKept, AboutTable, FloorOps, TableOps, Ops
    <3>5. x \in Txn
      <4>1. x.op \in {"none"} \cup Ops BY <3>1, <3>2 DEF PanelKept, Ops
      <4>2. x.version \in Nat BY <3>1, <3>2 DEF PanelKept
      <4>3. x.got \in Nat BY <3>1
      <4>4. x.checked \in BOOLEAN BY <3>1
      <4> QED BY <3>1, <3>3, <3>4, <4>1, <4>2, <4>3, <4>4 DEF Txn
    <3> QED BY <3>1, <3>3, <3>4, <3>5 DEF Fits
  <2> HIDE DEF x
  <2>3. TxnsKept' BY <2>1, <2>2, Begun DEF IInv
  <2>4. PanelKept' BY <2>1, PanelWaits DEF IInv
  <2> QED BY <2>1, <2>3, <2>4 DEF IInv, RowTypes, RowsStand, Rows
<1>9. ASSUME NEW r \in panel.floors, NEW op \in FloorOps \ {"floor_create"}, Opens(op, r.id, r.version)
      PROVE  IInv'
  BY <1>6, <1>9 DEF IInv, PanelKept
<1>10. ASSUME NEW r \in panel.tables, NEW op \in {"table_update", "table_delete"}, Opens(op, r.id, r.version)
       PROVE  IInv'
  BY <1>6, <1>10 DEF IInv, PanelKept
<1>11. CASE Opens("floor_create", 0, 0) BY <1>6, <1>11
<1>12. CASE Opens("table_create", 0, 0) BY <1>6, <1>12
<1> QED BY <1>2, <1>3, <1>4, <1>5, <1>7, <1>8, <1>9, <1>10, <1>11, <1>12 DEF Panel

-----------------------------------------------------------------------------
LEMMA InitIInv ==
  ASSUME Init, 1 \in Floors, 0 \notin Floors, 0 \notin Tables
  PROVE  IInv
<1>1. RowTypes /\ RowsStand BY DEF Init, RowTypes, RowsStand, NoTable, TableRow, Order
<1>2. TxnsKept BY NoTxnIdle, Idle DEF Init, TxnsKept
<1>3. PanelKept BY DEF Init, PanelKept, NoForm, FloorOps
<1> QED BY <1>1, <1>2, <1>3 DEF IInv

LEMMA NextIInv ==
  ASSUME IInv, [Next]_vars, 0 \notin Floors, 0 \notin Tables
  PROVE  IInv'
<1>1. CASE Transactions BY <1>1, AcquireIInv, CheckIInv, CommitIInv, ElsewhereIInv DEF Transactions
<1>2. CASE Panel BY <1>2, PanelIInv
<1>3. ASSUME NEW i \in DOMAIN orders, OrderEnds(i) PROVE IInv' BY <1>3, OrderEndsIInv
<1>4. CASE UNCHANGED vars BY <1>4 DEF vars, IInv, RowTypes, RowsStand, TxnsKept, PanelKept
<1> QED BY <1>1, <1>2, <1>3, <1>4 DEF Next

LEMMA Standing ==
  ASSUME IInv, 0 \notin Tables
  PROVE  TablesHaveFloors
BY DEF IInv, RowsStand, TablesHaveFloors

\* Whatever is deleted or moved at the same time: a table stands on a floor that
\* exists, and an order that is not over keeps its table (the locks and the looks
\* of floor_delete, table_delete, table_update and order_create).
THEOREM FloorsStay ==
  ASSUME 1 \in Floors, 0 \notin Floors, 0 \notin Tables
  PROVE  Spec => []TablesHaveFloors
<1>1. Init => IInv BY InitIInv
<1>2. IInv /\ [Next]_vars => IInv' BY NextIInv
<1>3. IInv => TablesHaveFloors BY Standing
<1> QED BY <1>1, <1>2, <1>3, PTL DEF Spec

-----------------------------------------------------------------------------
\* What is left of TypeOK: what was made, how many locks a transaction has, what the
\* panel selects, how far its refreshes are, and the bounds.
RefreshShape(r) ==
  r \in [step : {"none", "floors", "tables"}, preferred : {r.preferred}, selected : {0} \cup Floors, next : {r.next}]
Bounds ==
  /\ made \in [floors : SUBSET Floors, tables : SUBSET Tables] /\ Len(orders) <= MaxOrders
  /\ \A k \in Slots : txns[k].got <= 2
  /\ panel.selected \in {0} \cup Floors
  /\ DOMAIN refreshes = Slots /\ \A k \in Slots : RefreshShape(refreshes[k])
  /\ events \in 0 .. MaxEvents

LEMMA Counted ==
  ASSUME MaxEvents \in Nat, events \in 0 .. MaxEvents, Event \/ UNCHANGED events
  PROVE  events' \in 0 .. MaxEvents
BY DEF Event

\* Numbers that are not too many have a least one.
LEMMA LessThan == IsWellFoundedOn({ss \in Nat \X Nat : ss[1] < ss[2]}, Nat)
BY NatLessThanWellFounded DEF OpToRel

LEMMA Least ==
  ASSUME NEW T, T \subseteq Nat, T # {}
  PROVE  Min(T) \in T
<1> DEFINE R == {ss \in Nat \X Nat : ss[1] < ss[2]}
<1>1. IsWellFoundedOn(R, Nat) BY LessThan
<1> HIDE DEF R
<1>2. PICK x \in T : \A y \in T : ~(<<y, x>> \in R) BY <1>1, WFMin
<1>3. \A y \in T : ~(y < x) BY <1>2 DEF R
<1>4. \A y \in T : x <= y BY <1>3
<1> QED BY <1>4 DEF Min

LEMMA RefreshesKept ==
  ASSUME DOMAIN refreshes = Slots, \A j \in Slots : RefreshShape(refreshes[j]),
         NEW k \in Slots, NEW r, RefreshShape(r), refreshes' = [refreshes EXCEPT ![k] = r]
  PROVE  DOMAIN refreshes' = Slots /\ \A j \in Slots : RefreshShape(refreshes'[j])
<1>1. DOMAIN refreshes' = Slots /\ \A j \in Slots : refreshes'[j] = IF j = k THEN r ELSE refreshes[j]
  OBVIOUS
<1> QED BY <1>1

LEMMA NoRefreshShape == RefreshShape(NoRefresh) BY DEF NoRefresh, RefreshShape

LEMMA RefreshStarts ==
  ASSUME Bounds, NEW n, StartRefresh(n)
  PROVE  DOMAIN refreshes' = Slots /\ \A j \in Slots : RefreshShape(refreshes'[j])
<1>1. PICK k \in Slots :
        refreshes' = [refreshes EXCEPT ![k] = [step |-> "floors", preferred |-> n, selected |-> panel.selected, next |-> 0]]
  BY DEF StartRefresh
<1> DEFINE r == [step |-> "floors", preferred |-> n, selected |-> panel.selected, next |-> 0]
<1>2. RefreshShape(r) BY DEF RefreshShape, Bounds
<1> HIDE DEF r
<1> QED BY <1>1, <1>2, RefreshesKept DEF Bounds, r

\* A step that leaves the transactions as they were but for one that starts or ends.
LEMMA NewTxn ==
  ASSUME TxnsKept, Bounds, NEW k \in Slots, NEW x, x.got \in 0 .. 2, txns' = [txns EXCEPT ![k] = x]
  PROVE  \A j \in Slots : txns'[j].got <= 2
BY DEF TxnsKept, Bounds

LEMMA TxnEnds ==
  ASSUME TxnsKept, Bounds, NEW k \in Slots, Ends(k)
  PROVE  \A j \in Slots : txns'[j].got <= 2
<1>1. NoTxn.got \in 0 .. 2 BY DEF NoTxn
<1> QED BY <1>1, NewTxn DEF Ends

LEMMA SamePanel ==
  ASSUME PanelKept
  PROVE  /\ \A k : [panel EXCEPT !.busy = k].selected = panel.selected
         /\ \A f : [panel EXCEPT !.form = f].selected = panel.selected
         /\ \A k, f : [panel EXCEPT !.busy = k, !.form = f].selected = panel.selected
         /\ \A r : [panel EXCEPT !.tables = r].selected = panel.selected
         /\ \A a, b, c : [panel EXCEPT !.floors = a, !.selected = b, !.tables = c].selected = b
BY DEF PanelKept

LEMMA FailsBounds ==
  ASSUME IInv, Bounds, NEW k \in Slots, Fails(k), UNCHANGED events
  PROVE  Bounds'
<1>1. \A j \in Slots : txns'[j].got <= 2 BY TxnEnds DEF Fails, IInv
<1>2. panel'.selected = panel.selected BY SamePanel DEF Fails, IInv
<1> QED BY <1>1, <1>2 DEF Fails, Rows, Bounds

LEMMA AcquireBounds ==
  ASSUME IInv, Bounds, NEW k \in Slots, Acquire(k)
  PROVE  Bounds'
<1>1. UNCHANGED events BY DEF Acquire
<1>2. CASE Fails(k) BY <1>1, <1>2, FailsBounds
<1>3. CASE txns' = [txns EXCEPT ![k].got = @ + 1] /\ UNCHANGED <<Rows, panel, refreshes>>
  <2>1. txns[k] \in Txn BY DEF IInv, TxnsKept
  <2>2. txns[k].got < Len(Locks(txns[k])) /\ txns[k].op # "none" BY DEF Acquire
  <2>3. Len(Locks(txns[k])) \in 0 .. 2 BY <2>1, <2>2, LockLists DEF Txn, Ops, FloorOps, TableOps
  <2> DEFINE x == [txns[k] EXCEPT !.got = @ + 1]
  <2>4. x.got = txns[k].got + 1 /\ txns[k].got \in Nat BY <2>1 DEF Txn
  <2>5. txns' = [txns EXCEPT ![k] = x] BY <1>3
  <2> HIDE DEF x
  <2>6. x.got \in 0 .. 2
    <3> DEFINE n == Len(Locks(txns[k]))
    <3>1. txns[k].got < n /\ n \in 0 .. 2 BY <2>2, <2>3
    <3> HIDE DEF n
    <3> QED BY <2>4, <3>1
  <2>7. \A j \in Slots : txns'[j].got <= 2 BY <2>5, <2>6, NewTxn DEF IInv
  <2> QED BY <1>1, <1>3, <2>7 DEF Rows, Bounds
<1> QED BY <1>2, <1>3 DEF Acquire

LEMMA CheckBounds ==
  ASSUME IInv, Bounds, NEW k \in Slots, Check(k)
  PROVE  Bounds'
<1>1. UNCHANGED events BY DEF Check
<1>2. CASE Fails(k) BY <1>1, <1>2, FailsBounds
<1>3. CASE txns' = [txns EXCEPT ![k].checked = TRUE] /\ UNCHANGED <<Rows, panel, refreshes>>
  <2> DEFINE x == [txns[k] EXCEPT !.checked = TRUE]
  <2>1. x.got = txns[k].got /\ x.got \in 0 .. 2 BY DEF IInv, TxnsKept, Txn, Bounds
  <2>2. txns' = [txns EXCEPT ![k] = x] BY <1>3
  <2> HIDE DEF x
  <2>3. \A j \in Slots : txns'[j].got <= 2 BY <2>1, <2>2, NewTxn DEF IInv
  <2> QED BY <1>1, <1>3, <2>3 DEF Rows, Bounds
<1> QED BY <1>2, <1>3 DEF Check

LEMMA EffectBounds ==
  ASSUME IInv, Bounds, MaxOrders \in Nat, NEW x, Effect(x)
  PROVE  made' \in [floors : SUBSET Floors, tables : SUBSET Tables] /\ Len(orders') <= MaxOrders
<1>1. orders \in Seq(Order) BY DEF IInv, RowTypes
<1>2. CASE x.op = "floor_create" /\ floor_create(x) BY <1>2 DEF floor_create, Bounds
<1>3. CASE x.op = "table_create" /\ table_create(x) BY <1>3 DEF table_create, Bounds
<1>4. CASE x.op = "table_delete" /\ table_delete(x)
  <2>1. DOMAIN orders' = 1 .. Len(orders) /\ UNCHANGED made BY <1>1, <1>4 DEF table_delete
  <2>2. orders' = [i \in 1 .. Len(orders) |-> orders'[i]] BY <1>1, <1>4 DEF table_delete
  <2>3. Len(orders') = Len(orders) BY <1>1, <2>1, <2>2
  <2> QED BY <2>1, <2>3 DEF Bounds
<1>5. CASE x.op = "order_create" /\ order_create(x) BY <1>1, <1>5 DEF order_create, Bounds
<1> QED
  BY <1>2, <1>3, <1>4, <1>5
  DEF Effect, floor_update, floor_delete, floor_set_tax, table_update, Bounds

LEMMA CommitBounds ==
  ASSUME IInv, Bounds, MaxOrders \in Nat, NEW k \in Slots, Commit(k)
  PROVE  Bounds'
<1>1. UNCHANGED events BY DEF Commit
<1>2. made' \in [floors : SUBSET Floors, tables : SUBSET Tables] /\ Len(orders') <= MaxOrders
  BY EffectBounds DEF Commit
<1>3. PICK n : Done(k, n) BY DEF Commit
<1>4. \A j \in Slots : txns'[j].got <= 2 BY <1>3, TxnEnds DEF Done, IInv
<1>5. panel'.selected = panel.selected
  <2>1. [panel EXCEPT !.busy = 0, !.form = NoForm].selected = panel.selected BY SamePanel DEF IInv
  <2>2. panel' = panel \/ panel' = [panel EXCEPT !.busy = 0, !.form = NoForm] BY <1>3 DEF Done
  <2> QED BY <2>1, <2>2
<1>6. DOMAIN refreshes' = Slots /\ \A j \in Slots : RefreshShape(refreshes'[j])
  BY <1>3, RefreshStarts DEF Done, Bounds
<1> QED BY <1>1, <1>2, <1>4, <1>5, <1>6 DEF Bounds

LEMMA BeginBounds ==
  ASSUME IInv, Bounds, NEW k \in Slots, NEW x, x.got = 0, Begin(k, x), UNCHANGED <<Rows, refreshes>>,
         panel'.selected = panel.selected, events' \in 0 .. MaxEvents
  PROVE  Bounds'
<1>1. x.got \in 0 .. 2 OBVIOUS
<1>2. \A j \in Slots : txns'[j].got <= 2 BY <1>1, NewTxn DEF Begin, IInv
<1> QED BY <1>2 DEF Bounds, Rows

LEMMA ElsewhereBounds ==
  ASSUME IInv, Bounds, MaxEvents \in Nat, NEW k \in Slots, Elsewhere(k)
  PROVE  Bounds'
<1>1. events' \in 0 .. MaxEvents BY Counted DEF Elsewhere, Bounds
<1>2. PICK x : x.got = 0 /\ Begin(k, x)
  <2>1. CASE \E t \in Tables : tables[t] # NoTable /\ Begin(k, [NoTxn EXCEPT !.op = "order_create", !.table = t])
    BY <2>1 DEF NoTxn
  <2>2. CASE \E t \in Tables, f \in Floors : tables[t] # NoTable /\ floors[f] # 0
               /\ Begin(k, [NoTxn EXCEPT !.op = "table_update", !.table = t, !.floor = f, !.version = tables[t].version])
    BY <2>2 DEF NoTxn
  <2>3. CASE \E f \in Floors : floors[f] # 0
               /\ Begin(k, [NoTxn EXCEPT !.op = "floor_delete", !.floor = f, !.version = floors[f]])
    BY <2>3 DEF NoTxn
  <2> QED BY <2>1, <2>2, <2>3 DEF Elsewhere
<1>3. UNCHANGED <<Rows, panel, refreshes>> BY DEF Elsewhere
<1> QED BY <1>1, <1>2, <1>3, BeginBounds

LEMMA RefreshBounds ==
  ASSUME IInv, Bounds, Floors \subseteq Nat, NEW k \in Slots, RefreshFloors(k) \/ RefreshTables(k)
  PROVE  Bounds'
<1> DEFINE r == refreshes[k]
<1>0. RefreshShape(r) BY DEF Bounds
<1>1. CASE RefreshFloors(k)
  <2> DEFINE found == {f \in Floors : floors[f] # 0}
             next == IF r.preferred \in found THEN r.preferred
                     ELSE IF r.selected \in found THEN r.selected
                     ELSE IF found = {} THEN 0 ELSE Min(found)
             q == IF next = 0 THEN NoRefresh ELSE [r EXCEPT !.step = "tables", !.next = next]
  <2>1. next \in {0} \cup Floors BY Least
  <2>2. /\ panel' = [panel EXCEPT !.floors = {[id |-> f, version |-> floors[f]] : f \in found},
                                  !.selected = next, !.tables = IF next = 0 THEN {} ELSE @]
        /\ refreshes' = [refreshes EXCEPT ![k] = q]
        /\ UNCHANGED <<Rows, txns, events>>
    BY <1>1 DEF RefreshFloors
  <2> HIDE DEF next
  <2>3. panel'.selected = next BY <2>2, SamePanel DEF IInv
  <2>4. RefreshShape(q) BY <1>0, NoRefreshShape DEF RefreshShape
  <2> HIDE DEF q
  <2>5. DOMAIN refreshes' = Slots /\ \A j \in Slots : RefreshShape(refreshes'[j])
    BY <2>2, <2>4, RefreshesKept DEF Bounds
  <2> QED BY <2>1, <2>2, <2>3, <2>5 DEF Bounds, Rows
<1>2. CASE RefreshTables(k)
  <2>1. UNCHANGED <<Rows, txns, events>> /\ refreshes' = [refreshes EXCEPT ![k] = NoRefresh] BY <1>2 DEF RefreshTables
  <2>2. panel'.selected = panel.selected BY <1>2, SamePanel DEF RefreshTables, IInv
  <2>3. DOMAIN refreshes' = Slots /\ \A j \in Slots : RefreshShape(refreshes'[j])
    BY <2>1, NoRefreshShape, RefreshesKept DEF Bounds
  <2> QED BY <2>1, <2>2, <2>3 DEF Bounds, Rows
<1> QED BY <1>1, <1>2

LEMMA PanelBounds ==
  ASSUME IInv, Bounds, Floors \subseteq Nat, MaxEvents \in Nat, Panel
  PROVE  Bounds'
<1>1. ASSUME NEW k \in Slots, RefreshFails(k) PROVE Bounds'
  <2>1. events' \in 0 .. MaxEvents BY <1>1, Counted DEF RefreshFails, Bounds
  <2>2. DOMAIN refreshes' = Slots /\ \A j \in Slots : RefreshShape(refreshes'[j])
    BY <1>1, NoRefreshShape, RefreshesKept DEF RefreshFails, Bounds
  <2> QED BY <1>1, <2>1, <2>2 DEF RefreshFails, Bounds, Rows
<1>2. ASSUME NEW k \in Slots, NEW f, Submit(k, f) PROVE Bounds'
  <2>1. PICK x : x.got = 0 /\ Begin(k, x)
    <3> DEFINE form == panel.form
               x == [NoTxn EXCEPT !.op = form.op, !.version = form.version,
                                  !.floor = IF form.op \in FloorOps THEN form.id ELSE f,
                                  !.table = IF form.op \in TableOps THEN form.id ELSE 0]
    <3>1. Begin(k, x) BY <1>2 DEF Submit
    <3>2. x.got = 0 BY DEF NoTxn
    <3> QED BY <3>1, <3>2
  <2>2. UNCHANGED <<Rows, refreshes, events>> /\ panel'.selected = panel.selected
    BY <1>2, SamePanel DEF Submit, IInv
  <2> QED BY <2>1, <2>2, BeginBounds DEF Bounds
<1>3. ASSUME NEW r \in panel.floors, FloorCard(r) PROVE Bounds'
  <2>1. events' \in 0 .. MaxEvents BY <1>3, Counted DEF FloorCard, Bounds
  <2>2. DOMAIN refreshes' = Slots /\ \A j \in Slots : RefreshShape(refreshes'[j])
    BY <1>3, RefreshStarts DEF FloorCard
  <2> QED BY <1>3, <2>1, <2>2 DEF FloorCard, Bounds, Rows
<1>4. ASSUME NEW op, NEW id, NEW version, Opens(op, id, version) PROVE Bounds'
  <2>1. events' \in 0 .. MaxEvents /\ panel'.selected = panel.selected
    BY <1>4, Counted, SamePanel DEF Opens, Bounds, IInv
  <2> QED BY <1>4, <2>1 DEF Opens, Bounds, Rows
<1>5. CASE Close
  <2>1. panel'.selected = panel.selected BY <1>5, SamePanel DEF Close, IInv
  <2> QED BY <1>5, <2>1 DEF Close, Bounds, Rows
<1> QED BY <1>1, <1>2, <1>3, <1>4, <1>5, RefreshBounds DEF Panel

LEMMA BoundsNext ==
  ASSUME IInv, Bounds, Floors \subseteq Nat, MaxOrders \in Nat, MaxEvents \in Nat, [Next]_vars
  PROVE  Bounds'
<1>1. CASE Transactions BY <1>1, AcquireBounds, CheckBounds, CommitBounds, ElsewhereBounds DEF Transactions
<1>2. CASE Panel BY <1>2, PanelBounds
<1>3. ASSUME NEW i \in DOMAIN orders, OrderEnds(i) PROVE Bounds'
  <2>1. events' \in 0 .. MaxEvents BY <1>3, Counted DEF OrderEnds, Bounds
  <2>2. orders \in Seq(Order) BY DEF IInv, RowTypes
  <2>3. Len(orders') = Len(orders) BY <1>3, <2>2 DEF OrderEnds
  <2> QED BY <1>3, <2>1, <2>3 DEF OrderEnds, Bounds
<1>4. CASE UNCHANGED vars BY <1>4 DEF vars, Bounds
<1> QED BY <1>1, <1>2, <1>3, <1>4 DEF Next

LEMMA BoundsInit ==
  ASSUME Init, MaxOrders \in Nat, MaxEvents \in Nat
  PROVE  Bounds
<1>1. RefreshShape(NoRefresh) BY NoRefreshShape
<1>2. RefreshShape([NoRefresh EXCEPT !.step = "floors"]) BY DEF NoRefresh, RefreshShape
<1>3. DOMAIN refreshes = Slots /\ \A k \in Slots : RefreshShape(refreshes[k]) BY <1>1, <1>2 DEF Init
<1>4. \A k \in Slots : txns[k].got = 0 BY DEF Init, NoTxn
<1>5. panel.selected = 0 /\ Len(orders) = 0 /\ events = 0 BY DEF Init
<1> QED BY <1>3, <1>4, <1>5 DEF Init, Bounds

LEMMA Types ==
  ASSUME IInv, Bounds
  PROVE  TypeOK
<1>1. \A t \in Tables : tables[t].floor \in {0} \cup Floors /\ tables[t].version \in Nat
  BY DEF IInv, RowTypes, TableRow
<1>2. \A k \in Slots : txns[k].op \in {"none"} \cup Ops /\ txns[k].got \in 0 .. 2
  BY DEF IInv, TxnsKept, Txn, Bounds
<1>3. panel.form.op \in {"none"} \cup Ops BY DEF IInv, PanelKept, Ops
<1>4. \A k \in Slots : refreshes[k].step \in {"none", "floors", "tables"} BY DEF Bounds, RefreshShape
<1> QED BY <1>1, <1>2, <1>3, <1>4 DEF TypeOK, Bounds, IInv, RowTypes

\* The desk of the floors keeps its types and its bounds (FloorDesk.TypeOK): also, a
\* refresh selects a floor that was there, or none.
THEOREM FloorTypes ==
  ASSUME 1 \in Floors, 0 \notin Floors, 0 \notin Tables, Floors \subseteq Nat,
         MaxOrders \in Nat, MaxEvents \in Nat
  PROVE  Spec => []TypeOK
<1>1. Init => IInv /\ Bounds BY InitIInv, BoundsInit
<1>2. IInv /\ Bounds /\ [Next]_vars => (IInv /\ Bounds)' BY NextIInv, BoundsNext
<1>3. IInv /\ Bounds => TypeOK BY Types
<1> QED BY <1>1, <1>2, <1>3, PTL DEF Spec

=============================================================================
