----------------------------- MODULE DayCoverage -----------------------------
(***************************************************************************)
(* Which days of the past the forecasts may count on.  A day is covered    *)
(* live, when a manager closes it (day_close), or by imported observations *)
(* (history_import); never by both, nor by an import beside live sales.    *)
(* Both commands are transactions that lock each day by an advisory lock   *)
(* before they look at it, and see what is committed; what they write is   *)
(* seen when they commit.  A payment locks no day.  It bears the time at   *)
(* which its transaction began, and may commit after midnight.             *)
(***************************************************************************)
EXTENDS Integers, FiniteSets

CONSTANTS Days,        \* the days that are reported: 1 .. n
          Dishes,      \* menu items
          Bills,       \* orders to be paid
          Slots,       \* transactions at once
          MaxRows,     \* bound: observations of an import
          MaxEvents    \* bound: closings, imports and payments

VARIABLES today,     \* the date in Asia/Karachi
          coverage,  \* daily_coverage
          history,   \* historical_sales: by day and item
          paid,      \* orders: the day of completed_at, or 0
          told,      \* observations that a manager was told to be imported
          txns,      \* a transaction per session
          events     \* bound

vars == <<today, coverage, history, paid, told, txns, events>>

Statuses == {"complete", "closed"}
Cells == Days \X Dishes
NoSale == [quantity |-> 0, status |-> "none"]
NoCoverage == [source |-> "none", status |-> "none"]
NoTxn == [kind |-> "none", date |-> 0, days |-> {}, locked |-> {}, status |-> "none",
          rows |-> <<>>, looked |-> FALSE, order |-> 0]

\* A closed day has no quantity, and the rows of a file do not contradict
\* each other about an item of a day (parse_history).
Observations == {o \in [quantity : 0 .. 1, status : Statuses] : o.status = "closed" => o.quantity = 0}
Files == UNION {[S -> Observations] : S \in {T \in SUBSET Cells : Cardinality(T) \in 1 .. MaxRows}}
DaysOf(rows) == {c[1] : c \in DOMAIN rows}

\* Every variable has its type; a transaction locks only days that it reports.
TypeOK ==
  /\ today \in 1 .. Cardinality(Days) + 1 /\ events \in 0 .. MaxEvents
  /\ coverage \in [Days -> {NoCoverage} \cup [source : {"live", "historical"}, status : Statuses]]
  /\ history \in [Cells -> {NoSale} \cup Observations]
  /\ paid \in [Bills -> {0} \cup Days \cup {today}]
  /\ \A k \in Slots : txns[k].kind \in {"none", "day_close", "history_import", "order_pay"}
                         /\ txns[k].locked \subseteq txns[k].days

-----------------------------------------------------------------------------
Begins(k, t) ==
  /\ events < MaxEvents /\ events' = events + 1
  /\ txns[k] = NoTxn
  /\ txns' = [txns EXCEPT ![k] = t]
  /\ UNCHANGED <<today, coverage, history, paid, told>>

day_close(k, d, s) ==
  /\ d < today
  /\ Begins(k, [NoTxn EXCEPT !.kind = "day_close", !.days = {d}, !.status = s])

history_import(k, rows) ==
  /\ \A d \in DaysOf(rows) : d < today
  /\ Begins(k, [NoTxn EXCEPT !.kind = "history_import", !.days = DaysOf(rows), !.rows = rows])

\* The order is locked by its payment; now() is the beginning of it.
order_pay(k, o) ==
  /\ paid[o] = 0 /\ \A j \in Slots : txns[j].order # o
  /\ Begins(k, [NoTxn EXCEPT !.kind = "order_pay", !.order = o, !.date = today])

\* The days of an import are locked in chronological order.
NextDays_AsListed(t) == t.days \ t.locked
NextDays(t) == {d \in t.days \ t.locked : \A e \in t.days \ t.locked : d <= e}
Free_Unlocked(k, d) == TRUE
Free(k, d) == \A j \in Slots \ {k} : d \notin txns[j].locked

Sold(d) == \E o \in Bills : paid[o] = d
Covered(d) == coverage[d] # NoCoverage
Refuses(t, d) ==
  CASE t.kind = "day_close"      -> Covered(d) \/ (t.status = "closed" /\ Sold(d))
    [] t.kind = "history_import" -> coverage[d].source = "live" \/ Sold(d)

Ends(k) == txns' = [txns EXCEPT ![k] = NoTxn]
Goes(k, t) == txns' = [txns EXCEPT ![k] = t]

Lock(k) ==
  LET t == txns[k]
  IN  /\ \E d \in NextDays(t) :
           /\ Free(k, d)
           /\ IF Refuses(t, d) THEN Ends(k) ELSE Goes(k, [t EXCEPT !.locked = @ \cup {d}])
      /\ UNCHANGED <<today, coverage, history, paid, told, events>>

\* A row contradicts what was imported, the coverage of its day, or the
\* coverage that an earlier row has brought.
Contradicts(rows) ==
  \E c \in DOMAIN rows :
    \/ history[c] \notin {NoSale, rows[c]}
    \/ Covered(c[1]) /\ coverage[c[1]].status # rows[c].status
    \/ \E e \in DOMAIN rows : e[1] = c[1] /\ rows[e].status # rows[c].status

Look(k) ==
  LET t == txns[k]
  IN  /\ t.kind = "history_import" /\ t.locked = t.days /\ ~t.looked
      /\ IF Contradicts(t.rows) THEN Ends(k) ELSE Goes(k, [t EXCEPT !.looked = TRUE])
      /\ UNCHANGED <<today, coverage, history, paid, told, events>>

\* The day is the key of daily_coverage: a second row is an error.
CloseCommits(k) ==
  LET t == txns[k]
  IN  /\ t.kind = "day_close" /\ t.locked = t.days
      /\ coverage' = [d \in Days |-> IF d \in t.days /\ ~Covered(d) THEN [source |-> "live", status |-> t.status]
                                     ELSE coverage[d]]
      /\ Ends(k) /\ UNCHANGED <<today, history, paid, told, events>>

\* Rows that are there already are left as they are (on conflict do nothing).
ImportCommits(k) ==
  LET t == txns[k]
      StatusOf(d) == (CHOOSE c \in DOMAIN t.rows : c[1] = d)
  IN  /\ t.kind = "history_import" /\ t.looked
      /\ history' = [c \in Cells |-> IF c \in DOMAIN t.rows /\ history[c] = NoSale THEN t.rows[c]
                                    ELSE history[c]]
      /\ coverage' = [d \in Days |-> IF d \in t.days /\ ~Covered(d)
                                     THEN [source |-> "historical", status |-> t.rows[StatusOf(d)].status]
                                     ELSE coverage[d]]
      /\ told' = told \cup {<<c, t.rows[c]>> : c \in DOMAIN t.rows}
      /\ Ends(k) /\ UNCHANGED <<today, paid, events>>

PayCommits(k) ==
  /\ txns[k].kind = "order_pay"
  /\ paid' = [paid EXCEPT ![txns[k].order] = txns[k].date]
  /\ Ends(k) /\ UNCHANGED <<today, coverage, history, told, events>>

Midnight ==
  /\ today \in Days
  /\ today' = today + 1
  /\ UNCHANGED <<coverage, history, paid, told, txns, events>>

-----------------------------------------------------------------------------
Init ==
  /\ today = 1 /\ events = 0 /\ told = {}
  /\ coverage = [d \in Days |-> NoCoverage] /\ history = [c \in Cells |-> NoSale]
  /\ paid = [o \in Bills |-> 0]
  /\ txns = [k \in Slots |-> NoTxn]

\* A transaction that need not wait goes on.
Proceeds(k) == Lock(k) \/ Look(k) \/ CloseCommits(k) \/ ImportCommits(k) \/ PayCommits(k)

Next ==
  \/ Midnight
  \/ \E k \in Slots :
       \/ Proceeds(k)
       \/ \E d \in Days, s \in Statuses : day_close(k, d, s)
       \/ \E rows \in Files : history_import(k, rows)
       \/ \E o \in Bills : order_pay(k, o)

Spec == Init /\ [][Next]_vars

-----------------------------------------------------------------------------
\* Closings and imports that run at once leave each day with one source: what was
\* imported of a day agrees with its coverage, and a live day has no imports (the
\* locks and looks of day_close and history_import).
OneSourcePerDay ==
  \A d \in Days :
    /\ \A i \in Dishes : history[<<d, i>>] # NoSale =>
         coverage[d] = [source |-> "historical", status |-> history[<<d, i>>].status]
    /\ coverage[d].source = "historical" => \E i \in Dishes : history[<<d, i>>] # NoSale

\* What a manager was told to be imported is what the forecasts read, also when
\* another import of the same days ran at the same time (history_import, on conflict
\* do nothing).
ToldIsStored == \A r \in told : history[r[1]] = r[2]

\* No closing, import or payment is under way.
Settled == \A k \in Slots : txns[k] = NoTxn

\* "A day with completed sales cannot be marked closed", and "Imported observations
\* cannot overlap live sales": a day that sold something was neither closed nor
\* imported (the messages of day_close and history_import).
SalesUncontradicted ==
  \A d \in Days : Sold(d) => coverage[d].source # "historical" /\ coverage[d].status # "closed"

=============================================================================
