------------------------------ MODULE ExpenseDesk ------------------------------
(***************************************************************************)
(* The page "Operating Expenses": a list of one period that is loaded page *)
(* by page and polled every 15 seconds, the figures of the month above it, *)
(* and the forms that record and void an expense, each with an idempotency *)
(* key.  Another manager records and voids expenses meanwhile.             *)
(*                                                                         *)
(* An expense lies in this month (day 1) or before it (day 0).  Every      *)
(* amount is 1.                                                            *)
(***************************************************************************)
EXTENDS Integers, Sequences, FiniteSets

CONSTANTS PageSize,     \* expenses of one answer (50 in the code)
          MaxExpenses,  \* bound: expenses
          MaxEvents,    \* bound: choices of the manager, changes elsewhere, lost answers
          Slots         \* bound: loads under way at once, 1 .. n

VARIABLES expenses,  \* the server: sequence of expenses, oldest first
          keys,      \* idempotency keys of the commands that were carried out
          panel,     \* the state of ExpensesPanel
          loads,     \* one load per slot, or NoLoad
          calls,     \* submitted forms without an answer
          forms,     \* forms and keys made so far
          events     \* bound

vars == <<expenses, keys, panel, loads, calls, forms, events>>

Categories == {"rent", "utilities"}
\* This month, the last thirty days, and a custom range of the past.
Periods == {{1}, {0, 1}, {0}}
NotRead == -1  \* instead of the number of expenses, before the server read them
NoLoad == [offset |-> -1, period |-> {}, rows |-> <<>>, total |-> NotRead]
NoForm == [kind |-> "none"]

TypeOK ==
  /\ expenses \in Seq([day : 0 .. 1, category : Categories, voided : BOOLEAN,
                       version : Nat \ {0}, form : Nat])
  /\ Len(expenses) <= MaxExpenses
  /\ keys \subseteq 1 .. forms.keys
  /\ panel.period \in Periods /\ panel.offset \in Nat
  /\ panel.topic \in {"all"} \cup Categories /\ panel.status \in {"all", "active", "voided"}
  /\ panel.form.kind \in {"none", "record", "void"}
  /\ \A l \in Slots :
       \/ loads[l] = NoLoad
       \/ /\ loads[l].offset \in Nat /\ loads[l].period \in Periods
          /\ loads[l].total \in Nat \cup {NotRead}
  /\ events \in 0 .. MaxEvents

Event == events < MaxEvents /\ events' = events + 1

-----------------------------------------------------------------------------
\* What the page makes of the expenses that were loaded.

\* A category chip, or a search for one.
filteredItems(p) ==
  SelectSeq(p.rows, LAMBDA r : /\ p.topic \in {"all", r.category}
                               /\ p.status \in {"all", IF r.voided THEN "voided" ELSE "active"})

ThisMonth(rows) == SelectSeq(rows, LAMBDA r : r.day = 1 /\ ~r.voided)
thisMonthTotal(p) == Len(ThisMonth(p.rows))

\* The category with the largest sum; of equal ones the first of the list.
SumOf(rows, c) == Len(SelectSeq(rows, LAMBDA r : r.category = c))
topCategory(p) ==
  LET rows == ThisMonth(p.rows)
  IN  IF rows = <<>> THEN "None yet"
      ELSE LET first == rows[1].category
           IN  IF \A c \in Categories : SumOf(rows, c) <= SumOf(rows, first) THEN first
               ELSE CHOOSE c \in Categories \ {first} : TRUE

Figures(p) == <<thisMonthTotal(p), topCategory(p)>>

-----------------------------------------------------------------------------
\* The server.  The newest expense comes first.

Row(n) == [n |-> n, day |-> expenses[n].day, category |-> expenses[n].category,
           voided |-> expenses[n].voided, version |-> expenses[n].version]
\* The i-th of some expenses, from the newest.
Newest(S, i) == CHOOSE n \in S : Cardinality({m \in S : m >= n}) = i
Within(period) == {n \in 1 .. Len(expenses) : expenses[n].day \in period}
Found(period) ==
  [i \in 1 .. Cardinality(Within(period)) |-> Row(Newest(Within(period), i))]
Least(a, b) == IF a < b THEN a ELSE b
PageAt(period, offset) ==
  SubSeq(Found(period), offset + 1, Least(offset + PageSize, Len(Found(period))))

Record(day, category, form) ==
  /\ Len(expenses) < MaxExpenses
  /\ expenses' = Append(expenses, [day |-> day, category |-> category, voided |-> FALSE,
                                   version |-> 1, form |-> form])
MayVoid(n, version) == expenses[n].version = version /\ ~expenses[n].voided
Void(n) == expenses' = [expenses EXCEPT ![n].voided = TRUE, ![n].version = @ + 1]

OthersRecord(day, category) ==
  /\ Event
  /\ Record(day, category, 0)
  /\ UNCHANGED <<keys, panel, loads, calls, forms>>
OthersVoid(n) ==
  /\ Event
  /\ MayVoid(n, expenses[n].version)
  /\ Void(n)
  /\ UNCHANGED <<keys, panel, loads, calls, forms>>

-----------------------------------------------------------------------------
\* loadExpenses(): the server reads a page, and its answer is shown whatever the
\* list asks for, and whatever was recorded or voided, by then.

Wanted(p) == [offset |-> p.offset, period |-> p.period, rows |-> <<>>, total |-> NotRead]
Free(l) == loads[l] = NoLoad /\ \A m \in Slots : m < l => loads[m] # NoLoad
Asks(l, p) == Free(l) /\ loads' = [loads EXCEPT ![l] = Wanted(p)]
Loading == \E l \in Slots : loads[l] # NoLoad

Poll(l) ==
  /\ Asks(l, panel)
  /\ UNCHANGED <<expenses, keys, panel, calls, forms, events>>

Answers(l) ==
  /\ loads[l] # NoLoad /\ loads[l].total = NotRead
  /\ loads' = [loads EXCEPT ![l].rows = PageAt(loads[l].period, loads[l].offset),
                            ![l].total = Len(Found(loads[l].period))]
  /\ UNCHANGED <<expenses, keys, panel, calls, forms, events>>

Show(l) ==
  /\ loads[l].total # NotRead
  /\ panel' = [panel EXCEPT !.rows = loads[l].rows, !.total = loads[l].total]
  /\ loads' = [loads EXCEPT ![l] = NoLoad]
  /\ UNCHANGED <<expenses, keys, calls, forms, events>>

LoadFails(l) ==
  /\ Event
  /\ loads[l] # NoLoad
  /\ loads' = [loads EXCEPT ![l] = NoLoad]
  /\ UNCHANGED <<expenses, keys, panel, calls, forms>>

\* Another period or page is loaded at once; a filter only hides rows.
Look(p, l) ==
  /\ Event
  /\ panel' = p /\ p # panel
  /\ IF Wanted(p) = Wanted(panel) THEN UNCHANGED loads ELSE Asks(l, p)
  /\ UNCHANGED <<expenses, keys, calls, forms>>

PickPeriod(d, l) == Look([panel EXCEPT !.period = d, !.offset = 0], l)
PickTopic(c) == Look([panel EXCEPT !.topic = c], 1)
PickStatus(s) == Look([panel EXCEPT !.status = s], 1)
\* The buttons wait for the load that was started last; bound: for every load.
NextPage(l) ==
  /\ panel.offset + PageSize < panel.total /\ ~Loading
  /\ Look([panel EXCEPT !.offset = @ + PageSize], l)
PreviousPage(l) ==
  /\ panel.offset > 0 /\ panel.total > PageSize /\ ~Loading
  /\ Look([panel EXCEPT !.offset = IF @ > PageSize THEN @ - PageSize ELSE 0], l)

-----------------------------------------------------------------------------
\* The forms.  Each is made with a key, and a form that failed gets another.

NewForm(kind, what) == [kind |-> kind, what |-> what, id |-> forms.ids + 1, key |-> forms.keys + 1]
OpenForm(kind, what) ==
  /\ Event
  /\ panel.form = NoForm
  /\ panel' = [panel EXCEPT !.form = NewForm(kind, what)]
  /\ forms' = [ids |-> forms.ids + 1, keys |-> forms.keys + 1]
  /\ UNCHANGED <<expenses, keys, loads, calls>>

\* A date after today, no amount or a short description is not submitted.
OpenRecord(day, category) ==
  /\ Len(expenses) < MaxExpenses
  /\ OpenForm("record", [day |-> day, category |-> category])
OpenVoid(r) == ~r.voided /\ OpenForm("void", r)

Busy(form) == \E c \in calls : c.id = form.id
Submit ==
  /\ panel.form # NoForm /\ ~Busy(panel.form)
  /\ calls' = calls \cup {panel.form}
  /\ UNCHANGED <<expenses, keys, panel, loads, forms, events>>

\* The cross closes a form any time; "Cancel" of the other form loads the list.
CloseForm ==
  /\ panel.form # NoForm
  /\ panel' = [panel EXCEPT !.form = NoForm]
  /\ UNCHANGED <<expenses, keys, loads, calls, forms, events>>
CancelVoid(l) ==
  /\ panel.form.kind = "void" /\ ~Busy(panel.form)
  /\ panel' = [panel EXCEPT !.form = NoForm]
  /\ Asks(l, panel)
  /\ UNCHANGED <<expenses, keys, calls, forms, events>>

Carry(c) ==
  \/ c.kind = "record" /\ Record(c.what.day, c.what.category, c.id)
  \/ c.kind = "void" /\ MayVoid(c.what.n, c.what.version) /\ Void(c.what.n)

\* A recorded key answers as before and changes nothing.
Commits(c) ==
  /\ calls' = calls \ {c}
  /\ IF c.key \in keys THEN UNCHANGED <<expenses, keys>>
     ELSE Carry(c) /\ keys' = keys \cup {c.key}

\* The form, or another of its kind that is open by now, closes.
Answered(c, l) ==
  /\ c \in calls
  /\ Commits(c)
  /\ panel' = [panel EXCEPT !.form = IF @.kind = c.kind THEN NoForm ELSE @]
  /\ Asks(l, panel)
  /\ UNCHANGED <<forms, events>>

\* A form that is still open takes another key.
Failed(c) ==
  IF panel.form # NoForm /\ panel.form.id = c.id
  THEN /\ panel' = [panel EXCEPT !.form.key = forms.keys + 1]
       /\ forms' = [forms EXCEPT !.keys = @ + 1]
  ELSE UNCHANGED <<panel, forms>>

LosesAnswer(c) ==
  /\ Event
  /\ c \in calls
  /\ Commits(c)
  /\ Failed(c)
  /\ UNCHANGED loads
\* The key was not recorded: it is as good as another.
Refused(c) ==
  /\ c \in calls
  /\ c.kind = "void" /\ ~MayVoid(c.what.n, c.what.version)
  /\ calls' = calls \ {c}
  /\ UNCHANGED <<expenses, keys, panel, loads, forms, events>>

-----------------------------------------------------------------------------
Init ==
  /\ expenses = <<[day |-> 0, category |-> "rent", voided |-> FALSE, version |-> 1, form |-> 0],
                  [day |-> 1, category |-> "rent", voided |-> FALSE, version |-> 1, form |-> 0]>>
  /\ keys = {} /\ calls = {} /\ events = 0
  /\ forms = [ids |-> 0, keys |-> 0]
  /\ panel = [period |-> {1}, offset |-> 0, topic |-> "all", status |-> "all",
              rows |-> <<>>, total |-> 0, form |-> NoForm]
  /\ loads = [l \in Slots |-> IF l = 1 THEN Wanted(panel) ELSE NoLoad]

Shows(r) == \E i \in 1 .. Len(filteredItems(panel)) : filteredItems(panel)[i] = r
Shown == {r \in {panel.rows[i] : i \in 1 .. Len(panel.rows)} : Shows(r)}

Elsewhere ==
  \/ \E day \in 0 .. 1, category \in Categories : OthersRecord(day, category)
  \/ \E n \in 1 .. Len(expenses) : OthersVoid(n)

Looking ==
  \/ \E l \in Slots : \/ Poll(l) \/ Answers(l) \/ Show(l) \/ LoadFails(l)
                      \/ NextPage(l) \/ PreviousPage(l)
                      \/ \E d \in Periods : PickPeriod(d, l)
  \/ \E c \in {"all"} \cup Categories : PickTopic(c)
  \/ \E s \in {"all", "active", "voided"} : PickStatus(s)

Acting ==
  \/ \E day \in 0 .. 1, category \in Categories : OpenRecord(day, category)
  \/ \E r \in Shown : OpenVoid(r)
  \/ Submit \/ CloseForm
  \/ \E c \in calls : LosesAnswer(c) \/ Refused(c) \/ \E l \in Slots : Answered(c, l)
  \/ \E l \in Slots : CancelVoid(l)

Next == Elsewhere \/ Looking \/ Acting

\* The timer fires and every load is answered.
Polls == \E l \in Slots : Poll(l)
Proceeds(l) == Answers(l) \/ Show(l)
Fairness == WF_vars(Polls) /\ \A l \in Slots : WF_vars(Proceeds(l))

Spec == Init /\ [][Next]_vars /\ Fairness

-----------------------------------------------------------------------------
\* What the manager looks at, and a list and figures that are those of that page
\* as it is on the server.
View == Wanted(panel)
Truth == [panel EXCEPT !.rows = PageAt(panel.period, panel.offset)]
CaughtUp ==
  /\ filteredItems(panel) = filteredItems(Truth) /\ Figures(panel) = Figures(Truth)
  /\ panel.total = Len(Found(panel.period))

\* An expense is voided by this page as the row showed it.
ActedOnSeen ==
  [][\A c \in calls \ calls' : (c.kind = "void" /\ expenses' # expenses) =>
       /\ Row(c.what.n) = c.what /\ expenses'[c.what.n].voided]_vars

\* "Repeated submissions use one idempotency key, so a retry cannot create the
\* same expense twice": what one form recorded is one expense.
RetryOnce ==
  \A i, j \in 1 .. Len(expenses) :
    (i # j /\ expenses[i].form = expenses[j].form) => expenses[i].form = 0

=============================================================================
