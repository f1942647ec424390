---------------------------- MODULE OrderStation ----------------------------
(***************************************************************************)
(* The workspace in one browser: a waiter, the kitchen or the manager      *)
(* looks at a list of orders that is loaded page by page and polled every  *)
(* 15 seconds, filters it, and acts on the rows that are shown.  The       *)
(* orders live on the server, where other people move them at any time.    *)
(*                                                                         *)
(* An order has a number, the newest the highest.  The data of an order    *)
(* is what the screen tells apart: its status, its version, its waiter,    *)
(* the day it was created and, when it is completed, the day of that.      *)
(***************************************************************************)
EXTENDS Integers, Sequences, FiniteSets

CONSTANTS Me, Other,   \* who may have created an order
          Nobody,      \* no person picked
          Billing,     \* cashier_billing_enabled of the profile
          PageSize,    \* orders of one answer (100 in the code)
          MaxOrders,   \* bound: orders
          MaxEvents,   \* bound: changes elsewhere, failed calls, choices of the user
          Slots        \* bound: loads under way at once, 1 .. n

VARIABLES orders,   \* the server: sequence of orders, oldest first
          account,  \* the user's portal as the manager set it, or "inactive"
          today,    \* the day, 0 or 1
          screen,   \* the state of the workspace component
          loads,    \* one load() per slot, or NoLoad
          click,    \* the action(...) under way, or NoClick
          events    \* bound

vars == <<orders, account, today, screen, loads, click, events>>

Portals == {"manager", "waiter", "kitchen"}
Active == {"pending", "preparing", "ready"}
Ended == {"completed", "cancelled"}
Searches == {"", "first"}
NoDates == <<>>
NoDialog == [kind |-> "none"]
NoLoad == [step |-> "none"]
NoClick == [step |-> "none"]

nextStatus == [pending |-> "preparing", preparing |-> "ready", ready |-> "completed"]

-----------------------------------------------------------------------------
\* What the screen makes of the orders that were loaded.

Row(n) == [n |-> n, status |-> orders[n].status, version |-> orders[n].version,
           by |-> orders[n].by, day |-> orders[n].day, done |-> orders[n].done]

Matches(n, q) == q = "" \/ n = 1

InDates(r, dates) == dates = NoDates \/ r.day \in dates[1] .. dates[2]

\* The search, the person of the service ledger, and the days of the export
\* toolbar on whichever tab they were picked.
filtered(s) ==
  SelectSeq(s.rows, LAMBDA r : /\ Matches(r.n, s.search)
                               /\ s.staff \in {Nobody, r.by}
                               /\ InDates(r, s.dates))

Among(s, statuses) == SelectSeq(filtered(s), LAMBDA r : r.status \in statuses)
Mine(rows) == SelectSeq(rows, LAMBDA r : r.by = Me)

waiterActive(s) == Mine(Among(s, Active))
kitchenActive(s) == Among(s, Active)
historyOrders(s) == IF s.portal = "waiter" THEN Mine(Among(s, Ended)) ELSE Among(s, Ended)

Count(rows, statuses) == Len(SelectSeq(rows, LAMBDA r : r.status \in statuses))

managerStats(s) == <<Count(s.rows, {"ready"}), Count(s.rows, {"completed"})>>

waiterStats(s) ==
  <<Len(waiterActive(s)), Count(Mine(filtered(s)), {"pending", "preparing"}),
    Count(Mine(filtered(s)), {"ready"}),
    Count(SelectSeq(Mine(filtered(s)), LAMBDA r : r.done = today), {"completed"})>>

ticketCounts(s) == [t \in Active |-> Count(kitchenActive(s), {t})]

\* The figures above the list.
Figures(s) == CASE s.portal = "manager" -> managerStats(s)
                [] s.portal = "waiter" -> waiterStats(s)
                [] s.portal = "kitchen" -> ticketCounts(s)

\* The orders the open tab lists.
Tickets(s) ==
  SelectSeq(kitchenActive(s), LAMBDA r : s.stage \in {"all", r.status})
Listed(s) == CASE s.tab = "history" -> historyOrders(s)
               [] s.portal = "manager" -> filtered(s)
               [] s.portal = "waiter" -> waiterActive(s)
               [] OTHER -> Tickets(s)

Tabs(portal) == IF portal = "manager" THEN {"overview", "staff"} ELSE {"overview", "history"}

-----------------------------------------------------------------------------
\* The buttons of a row.

OffersNext(s, r) ==
  /\ s.tab = "overview"
  /\ \/ (s.portal = "kitchen" /\ r.status \in {"pending", "preparing"})
     \/ (s.portal = "waiter" /\ ~Billing /\ r.status = "ready")

OffersCancel(s, r) ==
  s.tab = "overview" /\ s.portal # "manager" /\ r.status \in {"pending", "preparing"}

\* Editing opens the order; a manager and the waiter's history open it too,
\* but only a pending order can be saved.
OffersEdit(s, r) ==
  s.portal = "waiter" /\ s.tab = "overview" /\ r.status = "pending"
OffersDetails(s, r) ==
  <<s.portal, s.tab>> \in {<<"manager", "overview">>, <<"waiter", "history">>}
editable(r) == r.status = "pending"

HasToolbar(portal, tab) ==
  IF portal = "manager" THEN tab = "overview" ELSE tab = "history"

-----------------------------------------------------------------------------
TypeOK ==
  /\ orders \in Seq([status : Active \cup Ended, version : Nat \ {0},
                     by : {Me, Other}, day : 0 .. 1, done : 0 .. 1])
  /\ Len(orders) <= MaxOrders
  /\ account \in Portals \cup {"inactive"} /\ today \in 0 .. 1
  /\ screen.at \in {"open", "left"} /\ screen.portal \in Portals
  /\ screen.search \in Searches /\ screen.tab \in Tabs(screen.portal)
  /\ \A l \in Slots : loads[l].step \in {"none", "me", "page", "rest"}
  /\ click.step \in {"none", "sent", "saved", "loading"}
  /\ events \in 0 .. MaxEvents

\* The toolbar tells the page its days when it is mounted, and only then.
MountedDates(portal, tab, old) == IF HasToolbar(portal, tab) THEN <<0, today>> ELSE old

NewScreen(portal) ==
  [at |-> "open", portal |-> portal, tab |-> "overview", search |-> "", rows |-> <<>>,
   staff |-> Nobody, dates |-> MountedDates(portal, "overview", NoDates),
   stage |-> "all", dialog |-> NoDialog, error |-> FALSE]

Init ==
  /\ orders = <<[status |-> "ready", version |-> 3, by |-> Me, day |-> 0, done |-> 0],
                [status |-> "pending", version |-> 1, by |-> Other, day |-> 0, done |-> 0]>>
  /\ account \in Portals
  /\ today = 0 /\ events = 0
  /\ screen = NewScreen(account)
  /\ loads = [l \in Slots |-> NoLoad]
  /\ click = NoClick

Event == events < MaxEvents /\ events' = events + 1

-----------------------------------------------------------------------------
\* Everybody else, and the calendar.

Allowed(from, to) == \/ from \in DOMAIN nextStatus /\ to = nextStatus[from]
                     \/ from \in Active /\ to = "cancelled"

\* The status or, for an edit, only the version.
SetOrder(n, status) ==
  orders' = [orders EXCEPT ![n].status = status, ![n].version = @ + 1,
                           ![n].done = IF status = "completed" THEN today ELSE @]

Placed(by) == Append(orders, [status |-> "pending", version |-> 1, by |-> by, day |-> today, done |-> 0])

OthersMove(n, to) ==
  /\ Event
  /\ \/ Allowed(orders[n].status, to)
     \/ orders[n].status = "pending" /\ to = "pending"
  /\ SetOrder(n, to)
  /\ UNCHANGED <<account, today, screen, loads, click>>

OthersOrder ==
  /\ Event
  /\ Len(orders) < MaxOrders
  /\ orders' = Placed(Other)
  /\ UNCHANGED <<account, today, screen, loads, click>>

\* The manager deactivates a member of the staff or gives them another station.
Reassign(station) ==
  /\ Event
  /\ account \in {"waiter", "kitchen"} \ {station}
  /\ account' = station
  /\ UNCHANGED <<orders, today, screen, loads, click>>

Midnight ==
  /\ Event
  /\ today = 0
  /\ today' = 1
  /\ UNCHANGED <<orders, account, screen, loads, click>>

-----------------------------------------------------------------------------
\* load(): who am I, the first page, the other pages; all or nothing is shown.

Here == screen.at = "open"

Started(l, q, own) ==
  [loads EXCEPT ![l] = [step |-> "me", search |-> q, own |-> own, first |-> <<>>, total |-> 0]]
Starts(l, q, own) ==
  /\ loads[l] = NoLoad /\ \A k \in Slots : k < l => loads[k] # NoLoad
  /\ loads' = Started(l, q, own)

\* Every 15 seconds, and by the Retry button.
Poll(l) ==
  /\ Here
  /\ Starts(l, screen.search, FALSE)
  /\ UNCHANGED <<orders, account, today, screen, click, events>>

\* A page that is left forgets its loads; a command it sent goes on.
Leave(s) ==
  /\ screen' = s
  /\ loads' = [l \in Slots |-> NoLoad]
  /\ click' = IF click.step = "sent" THEN [click EXCEPT !.here = FALSE, !.asked = FALSE] ELSE NoClick
Gone == [screen EXCEPT !.at = "left", !.rows = <<>>, !.dialog = NoDialog]

MeAnswers(l) ==
  /\ loads[l].step = "me"
  /\ IF account = screen.portal
     THEN loads' = [loads EXCEPT ![l].step = "page"] /\ UNCHANGED <<screen, click>>
     ELSE Leave(IF account = "inactive" THEN Gone ELSE NewScreen(account))
  /\ UNCHANGED <<orders, account, today, events>>

\* Newest first.  What a search matches are the oldest orders.
Found(q) ==
  LET found == Cardinality({n \in 1 .. Len(orders) : Matches(n, q)})
  IN  [i \in 1 .. found |-> Row(found + 1 - i)]
Least(a, b) == IF a < b THEN a ELSE b
PageAt(q, offset) == SubSeq(Found(q), offset + 1, Least(offset + PageSize, Len(Found(q))))

\* After the load the action that asked for it is over, and the dialog in which
\* an order was cancelled closes.
Show(l, rows, failed) ==
  /\ screen' = [screen EXCEPT !.rows = rows, !.error = failed,
                              !.dialog = IF loads[l].own /\ click.kind = "cancel" /\ @.kind = "cancel"
                                         THEN NoDialog ELSE @]
  /\ loads' = [loads EXCEPT ![l] = NoLoad]
  /\ click' = IF loads[l].own THEN NoClick ELSE click

PageAnswers(l) ==
  LET first == PageAt(loads[l].search, 0)
      total == Len(Found(loads[l].search))
  IN  /\ loads[l].step = "page"
      /\ IF total <= Len(first)
         THEN Show(l, first, FALSE)
         ELSE /\ loads' = [loads EXCEPT ![l].step = "rest", ![l].first = first, ![l].total = total]
              /\ UNCHANGED <<screen, click>>
      /\ UNCHANGED <<orders, account, today, events>>

\* loadEveryOrder: the offsets are those of the total the first page named.
\* Bound: they are read at one moment.
Pages_SkipOne(q, from, total) == SubSeq(Found(q), from + 2, Len(Found(q)))
Pages(q, from, total) ==
  LET rest == (total - from + PageSize - 1) \div PageSize
  IN  SubSeq(Found(q), from + 1, Least(from + rest * PageSize, Len(Found(q))))
RestAnswers(l) ==
  /\ loads[l].step = "rest"
  /\ Show(l, loads[l].first \o Pages(loads[l].search, Len(loads[l].first), loads[l].total), FALSE)
  /\ UNCHANGED <<orders, account, today, events>>

LoadFails(l) ==
  /\ Event
  /\ loads[l] # NoLoad
  /\ Show(l, screen.rows, TRUE)
  /\ UNCHANGED <<orders, account, today>>

-----------------------------------------------------------------------------
\* Looking around.

Shows(s) == Event /\ screen' = s /\ UNCHANGED <<orders, account, today, click>>

\* A changed search makes another load(), which is started at once.
Searched(s, l) ==
  /\ Here
  /\ Shows(s)
  /\ IF s.search = screen.search THEN UNCHANGED loads ELSE Starts(l, s.search, FALSE)

Type(q, l) == Searched([screen EXCEPT !.search = q], l)

OnTab(s, tab) ==
  [s EXCEPT !.tab = tab, !.dates = IF tab = s.tab THEN @ ELSE MountedDates(s.portal, tab, @)]

\* The navigation clears the search; the days stay.
Navigate_AnyTab(tab, l) ==
  /\ screen.dialog = NoDialog
  /\ Searched(OnTab([screen EXCEPT !.search = ""], tab), l)
Navigate(tab, l) ==
  /\ screen.dialog = NoDialog
  /\ tab \in Tabs(screen.portal)
  /\ Searched(OnTab([screen EXCEPT !.search = ""], tab), l)

\* The button under the list leads to the history of the same search.
ToHistory ==
  /\ Here /\ screen.portal # "manager" /\ screen.tab = "overview"
  /\ Shows(OnTab(screen, "history")) /\ UNCHANGED loads

\* "View Orders" in the service history of the staff, and the cross beside the name.
ViewOrders(p) ==
  /\ Here /\ screen.portal = "manager"
  /\ IF p = Nobody THEN screen.tab = "overview" ELSE screen.tab = "staff"
  /\ Shows(OnTab([screen EXCEPT !.staff = p], "overview")) /\ UNCHANGED loads

PickStage(t) ==
  /\ Here /\ screen.portal = "kitchen" /\ screen.tab = "overview"
  /\ Shows([screen EXCEPT !.stage = t]) /\ UNCHANGED loads

\* A preset ends today; a custom range ends today or earlier.
PickDates(from, to) ==
  /\ Here /\ HasToolbar(screen.portal, screen.tab)
  /\ from <= to /\ to <= today
  /\ Shows([screen EXCEPT !.dates = <<from, to>>]) /\ UNCHANGED loads

\* The back button leads out of the portal and is answered with the portal anew.
Back ==
  /\ Event
  /\ Here
  /\ Leave(NewScreen(screen.portal))
  /\ UNCHANGED <<orders, account, today>>

-----------------------------------------------------------------------------
\* Acting on the rows that are shown.

\* Bound: one command at a time; an order form may be sent while a card is busy.
Send(kind, r, to) ==
  /\ Here
  /\ click = NoClick
  /\ click' = [step |-> "sent", kind |-> kind, row |-> r, to |-> to,
                search |-> screen.search, here |-> TRUE, asked |-> screen.dialog # NoDialog]
  /\ screen' = [screen EXCEPT !.error = FALSE]
  /\ UNCHANGED <<orders, account, today, loads>>

ClickNext(r) ==
  /\ Event
  /\ screen.dialog = NoDialog
  /\ OffersNext(screen, r)
  /\ Send("next", r, nextStatus[r.status])

\* A dialog keeps the row as it was when it was opened.
Open(kind, r) ==
  /\ Here /\ screen.dialog = NoDialog
  /\ \/ kind = "cancel" /\ OffersCancel(screen, r)
     \/ kind = "order" /\ (OffersEdit(screen, r) \/ OffersDetails(screen, r))
  /\ Shows([screen EXCEPT !.dialog = [kind |-> kind, row |-> r, placed |-> FALSE]])
  /\ UNCHANGED loads

\* "placed" tells whether the server has recorded the key of this form.
NoRow == [n |-> 0, status |-> "none", version |-> 0, by |-> Me, day |-> 0, done |-> 0]
TakeNewOrder ==
  /\ Here /\ screen.portal = "waiter" /\ screen.dialog = NoDialog
  /\ Shows([screen EXCEPT !.dialog = [kind |-> "new", row |-> NoRow, placed |-> FALSE]])
  /\ UNCHANGED loads

\* A dialog may be closed while its command is under way.
Dismiss ==
  /\ Here /\ screen.dialog # NoDialog
  /\ screen' = [screen EXCEPT !.dialog = NoDialog]
  /\ click' = IF click.step = "sent" THEN [click EXCEPT !.asked = FALSE] ELSE click
  /\ UNCHANGED <<orders, account, today, loads, events>>

Submit ==
  LET d == screen.dialog
  IN  /\ \/ d.kind = "cancel" /\ Send("cancel", d.row, "cancelled")
         \/ d.kind = "order" /\ editable(d.row) /\ Send("order", d.row, "pending")
         \/ d.kind = "new" /\ Send("new", d.row, "pending")
      /\ UNCHANGED events

\* The server takes a step from the version the row had, and no other.
SameVersion_Unchecked(r) == TRUE
SameVersion(r) == orders[r.n].version = r.version
Accepts(c) ==
  /\ account # "inactive"
  /\ IF c.kind = "new" THEN Len(orders) < MaxOrders
     ELSE /\ SameVersion(c.row)
          /\ \/ Allowed(orders[c.row.n].status, c.to)
             \/ c.kind = "order" /\ orders[c.row.n].status = "pending"

Repeated(c) == c.kind = "new" /\ c.asked /\ screen.dialog.placed

\* The command is carried out; the answer arrives or is lost.
Commits(answered) ==
  /\ click.step = "sent"
  /\ IF Repeated(click) THEN UNCHANGED orders
     ELSE /\ Accepts(click)
          /\ IF click.kind = "new" THEN orders' = Placed(Me) ELSE SetOrder(click.row.n, click.to)
  /\ click' = IF answered /\ click.here THEN [click EXCEPT !.step = "saved"] ELSE NoClick
  /\ screen' = [screen EXCEPT !.error = click.here /\ ~answered,
                              !.dialog = IF click.kind = "new" /\ click.asked
                                         THEN [@ EXCEPT !.placed = TRUE] ELSE @]
  /\ UNCHANGED <<account, today, loads, events>>

Refused ==
  /\ click.step = "sent"
  /\ ~Repeated(click) /\ ~Accepts(click)
  /\ click' = NoClick
  /\ screen' = [screen EXCEPT !.error = click.here]
  /\ UNCHANGED <<orders, account, today, loads, events>>

\* A card waits for the list of the search it was clicked under; a form closes
\* whatever editor is open and lets the list follow.
AfterSave(l) ==
  LET card == click.kind \in {"next", "cancel"}
  IN  /\ click.step = "saved"
      /\ Starts(l, click.search, card)
      /\ click' = IF card THEN [click EXCEPT !.step = "loading"] ELSE NoClick
      /\ screen' = IF card THEN screen ELSE [screen EXCEPT !.dialog = IF @.kind = "cancel" THEN @ ELSE NoDialog]
      /\ UNCHANGED <<orders, account, today, events>>

SignOut ==
  /\ Here /\ click = NoClick /\ screen.dialog = NoDialog
  /\ Leave(Gone)
  /\ UNCHANGED <<orders, account, today, events>>

-----------------------------------------------------------------------------
Lists(r) == LET rows == Listed(screen) IN \E i \in 1 .. Len(rows) : rows[i] = r
ListedRows == {r \in {screen.rows[i] : i \in 1 .. Len(screen.rows)} : Lists(r)}

Elsewhere ==
  \/ \E n \in 1 .. Len(orders), to \in Active \cup Ended : OthersMove(n, to)
  \/ OthersOrder
  \/ \E station \in {"waiter", "kitchen", "inactive"} : Reassign(station)
  \/ Midnight

Loading == \E l \in Slots : \/ Poll(l) \/ MeAnswers(l) \/ PageAnswers(l)
                           \/ RestAnswers(l) \/ LoadFails(l) \/ AfterSave(l)

Looking ==
  \/ \E l \in Slots : \/ \E q \in Searches : Type(q, l)
                      \/ \E tab \in {"overview", "staff", "history"} : Navigate(tab, l)
  \/ ToHistory \/ Back \/ SignOut
  \/ \E p \in {Me, Other, Nobody} : ViewOrders(p)
  \/ \E t \in {"all"} \cup Active : PickStage(t)
  \/ \E from, to \in 0 .. 1 : PickDates(from, to)

Acting ==
  \/ \E r \in ListedRows : ClickNext(r) \/ \E kind \in {"cancel", "order"} : Open(kind, r)
  \/ TakeNewOrder \/ Dismiss \/ Submit
  \/ \E answered \in BOOLEAN : Commits(answered)
  \/ Refused

Next == Elsewhere \/ Loading \/ Looking \/ Acting

\* The timer fires and every request is answered.
Answers(l) == MeAnswers(l) \/ PageAnswers(l) \/ RestAnswers(l)
Polls == \E l \in Slots : Poll(l)
Fairness == WF_vars(Polls) /\ \A l \in Slots : WF_vars(Answers(l))

Spec == Init /\ [][Next]_vars /\ Fairness

-----------------------------------------------------------------------------
\* What the user looks for, and a list and figures that are those of the orders
\* on the server, on the page of an account that may still use it.
View == <<screen.at, screen.search>>
Truth == [screen EXCEPT !.rows = Found(screen.search)]
CaughtUp ==
  Here => /\ account = screen.portal
          /\ Listed(screen) = Listed(Truth) /\ Figures(screen) = Figures(Truth)

\* A command from this screen that changes an order finds it as the row or the
\* dialog showed it to the user, however long ago that was.
Changes == click.step = "sent" /\ click'.step # "sent" /\ orders' # orders
ActedOnSeen ==
  [][(Changes /\ click.kind # "new") =>
       LET r == click.row
       IN  orders[r.n].status = r.status /\ orders[r.n].version = r.version]_vars

=============================================================================
