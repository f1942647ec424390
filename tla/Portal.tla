--------------------------------- MODULE Portal ---------------------------------
(***************************************************************************)
(* The frontend: the desk that is open in the browser, with the part of    *)
(* the server it works on.  The desks share no rows but those of the       *)
(* modules JobQueue, OrderBook, OrderDesk and Billing, which stand for the *)
(* server's own transactions; here one desk is open, and the others wait   *)
(* as they were.                                                           *)
(***************************************************************************)
EXTENDS Integers, Sequences, FiniteSets

CONSTANTS Slots,                        \* bound: loads, calls or transactions at once, 1 .. n
          Me, Other, Nobody,            \* people who create orders
          Billing,                      \* cashier_billing_enabled
          PageSize, AuditPage,          \* rows of one answer
          MaxOrders, MaxRecs, MaxExpenses, MaxTokens, MaxSessions, MaxMade, MaxTaken, MaxChats,
                                        \* bounds: rows that are made
          Dishes, Bills, Tills, Own, Phones, Emails, Floors, Tables, Days,
          MaxRows,                      \* bound: observations of an import
          OrderEvents, DecisionEvents, ForecastEvents, ExpenseEvents,
          ReceiptEvents, SessionEvents, AccountEvents, FloorEvents, AssistantEvents,
          DayEvents
                                        \* bounds: choices of the people, failed calls

ASSUME PortalAssumption ==
  /\ Own \in Tills /\ 0 \notin Bills
  /\ 1 \in Floors /\ 0 \notin Floors /\ 0 \notin Tables
  /\ MaxMade \in Nat /\ "" \notin Emails /\ PageSize \in Nat \ {0}
  /\ Dishes = 1 .. Cardinality(Dishes) /\ Dishes # {}
  /\ Days = 1 .. Cardinality(Days) /\ Days # {}
  /\ Slots = 1 .. Cardinality(Slots) /\ Slots # {} /\ 0 \notin Slots

\* What is bounded is finite.  Two orders and two expenses are there from the
\* beginning.
ASSUME BoundsAssumption ==
  /\ {MaxOrders, MaxExpenses} \subseteq Nat \ {0, 1} /\ MaxRecs \in Nat \ {0} /\ Floors \subseteq Nat
  /\ {Cardinality(Dishes), Cardinality(Days), Cardinality(Slots)} \subseteq Nat
  /\ {MaxTokens, MaxSessions, MaxTaken, MaxChats} \subseteq Nat
  /\ {OrderEvents, DecisionEvents, ForecastEvents, ExpenseEvents, ReceiptEvents, SessionEvents,
      AccountEvents, FloorEvents, AssistantEvents, DayEvents} \subseteq Nat

VARIABLES desk,    \* the desk that is open
          events,  \* bound
          orders, station, today, screen, orderLoads, click,
          dish, recs, trail, gens, decisions, decisionCalls, lists,
          jobs, runs, history, forecasts, reads, command,
          expenses, keys, ledger, expenseLoads, expenseCalls, forms,
          bills, tokens, reviews, records, links, codes, issues, till, pages,
          account, cashier, sessions, opened, jar, page, calls, renewals,
          provisions, users, attempts, requests, staff,
          floors, tables, built, taken, txns, plan, refreshes,
          chats, inquiries, asks, drawer, errands,
          date, coverage, imported, paid, told, reporting

OrderVars == <<orders, station, today, screen, orderLoads, click>>
DecisionVars == <<dish, recs, trail, gens, decisions, decisionCalls, lists>>
ForecastVars == <<jobs, runs, history, forecasts, reads, command>>
ExpenseVars == <<expenses, keys, ledger, expenseLoads, expenseCalls, forms>>
ReceiptVars == <<bills, tokens, reviews, records, links, codes, issues, till, pages>>
SessionVars == <<account, cashier, sessions, opened, jar, page, calls, renewals>>
AccountVars == <<provisions, users, attempts, requests, staff>>
FloorVars == <<floors, tables, built, taken, txns, plan, refreshes>>
AssistantVars == <<chats, inquiries, asks, drawer, errands>>
DayVars == <<date, coverage, imported, paid, told, reporting>>
vars == <<desk, events, OrderVars, DecisionVars, ForecastVars, ExpenseVars,
          ReceiptVars, SessionVars, AccountVars, FloorVars, AssistantVars, DayVars>>

Orders == INSTANCE OrderStation WITH account <- station, loads <- orderLoads, MaxEvents <- OrderEvents
Decisions == INSTANCE DecisionDesk WITH
  panel <- decisions, calls <- decisionCalls, Generators <- Slots, MaxEvents <- DecisionEvents
Forecasts == INSTANCE ForecastDesk WITH panel <- forecasts, MaxEvents <- ForecastEvents
Expenses == INSTANCE ExpenseDesk WITH
  panel <- ledger, loads <- expenseLoads, calls <- expenseCalls, MaxEvents <- ExpenseEvents
Receipts == INSTANCE ReceiptDesk WITH made <- links, MaxEvents <- ReceiptEvents
Sessions == INSTANCE SessionDesk WITH MaxEvents <- SessionEvents
Accounts == INSTANCE AccountDesk WITH made <- attempts, desk <- staff, MaxEvents <- AccountEvents
FloorPlan == INSTANCE FloorDesk WITH
  made <- built, orders <- taken, panel <- plan, MaxOrders <- MaxTaken, MaxEvents <- FloorEvents
Assistant == INSTANCE AssistantDesk WITH MaxEvents <- AssistantEvents
DayBook == INSTANCE DayCoverage WITH
  today <- date, history <- imported, txns <- reporting, MaxEvents <- DayEvents

Desks == {"orders", "decisions", "forecasts", "expenses", "receipts", "session", "accounts", "floors",
          "assistant", "days"}

TypeOK ==
  /\ desk \in Desks
  /\ desk = "orders" => Orders!TypeOK
  /\ desk = "decisions" => Decisions!TypeOK
  /\ desk = "forecasts" => Forecasts!TypeOK
  /\ desk = "expenses" => Expenses!TypeOK
  /\ desk = "receipts" => Receipts!TypeOK
  /\ desk = "session" => Sessions!TypeOK
  /\ desk = "accounts" => Accounts!TypeOK
  /\ desk = "floors" => FloorPlan!TypeOK
  /\ desk = "assistant" => Assistant!TypeOK
  /\ desk = "days" => DayBook!TypeOK

-----------------------------------------------------------------------------
\* A desk that is not open has one beginning.
Init ==
  /\ desk \in Desks
  /\ Orders!Init /\ (desk # "orders" => station = "manager")
  /\ Decisions!Init /\ Forecasts!Init /\ Expenses!Init /\ Receipts!Init
  /\ Sessions!Init /\ (desk # "session" => ~cashier)
  /\ Accounts!Init /\ FloorPlan!Init /\ Assistant!Init /\ DayBook!Init

\* A step of one desk.
AtOrders == desk = "orders" /\ UNCHANGED <<desk, DecisionVars, ForecastVars, ExpenseVars, ReceiptVars, SessionVars, AccountVars, FloorVars, AssistantVars, DayVars>>
AtDecisions == desk = "decisions" /\ UNCHANGED <<desk, OrderVars, ForecastVars, ExpenseVars, ReceiptVars, SessionVars, AccountVars, FloorVars, AssistantVars, DayVars>>
AtForecasts == desk = "forecasts" /\ UNCHANGED <<desk, OrderVars, DecisionVars, ExpenseVars, ReceiptVars, SessionVars, AccountVars, FloorVars, AssistantVars, DayVars>>
AtExpenses == desk = "expenses" /\ UNCHANGED <<desk, OrderVars, DecisionVars, ForecastVars, ReceiptVars, SessionVars, AccountVars, FloorVars, AssistantVars, DayVars>>
AtReceipts == desk = "receipts" /\ UNCHANGED <<desk, OrderVars, DecisionVars, ForecastVars, ExpenseVars, SessionVars, AccountVars, FloorVars, AssistantVars, DayVars>>
AtSessions == desk = "session" /\ UNCHANGED <<desk, OrderVars, DecisionVars, ForecastVars, ExpenseVars, ReceiptVars, AccountVars, FloorVars, AssistantVars, DayVars>>
AtAccounts == desk = "accounts" /\ UNCHANGED <<desk, OrderVars, DecisionVars, ForecastVars, ExpenseVars, ReceiptVars, SessionVars, FloorVars, AssistantVars, DayVars>>
AtFloorPlan == desk = "floors" /\ UNCHANGED <<desk, OrderVars, DecisionVars, ForecastVars, ExpenseVars, ReceiptVars, SessionVars, AccountVars, AssistantVars, DayVars>>
AtAssistant == desk = "assistant" /\ UNCHANGED <<desk, OrderVars, DecisionVars, ForecastVars, ExpenseVars, ReceiptVars, SessionVars, AccountVars, FloorVars, DayVars>>
AtDays == desk = "days" /\ UNCHANGED <<desk, OrderVars, DecisionVars, ForecastVars, ExpenseVars, ReceiptVars, SessionVars, AccountVars, FloorVars, AssistantVars>>

Next ==
  \/ AtOrders /\ Orders!Next
  \/ AtDecisions /\ Decisions!Next
  \/ AtForecasts /\ Forecasts!Next
  \/ AtExpenses /\ Expenses!Next
  \/ AtReceipts /\ Receipts!Next
  \/ AtSessions /\ Sessions!Next
  \/ AtAccounts /\ Accounts!Next
  \/ AtFloorPlan /\ FloorPlan!Next
  \/ AtAssistant /\ Assistant!Next
  \/ AtDays /\ DayBook!Next

\* The timer of the desk that is open fires, what it asked for is answered, the
\* worker works or an hour passes, and the proxy's renewals come to an end.  A
\* desk stays open, and its steps leave the rest as it was.
Fairness ==
  /\ WF_OrderVars(desk = "orders" /\ Orders!Polls)
  /\ WF_ForecastVars(desk = "forecasts" /\ Forecasts!Polls)
  /\ WF_ForecastVars(desk = "forecasts" /\ Forecasts!Works)
  /\ WF_ExpenseVars(desk = "expenses" /\ Expenses!Polls)
  /\ WF_SessionVars(desk = "session" /\ Sessions!Polls)
  /\ WF_SessionVars(desk = "session" /\ Sessions!Expires)
  /\ \A s \in 1 .. MaxSessions : WF_SessionVars(desk = "session" /\ Sessions!Renews(s))
  /\ \A k \in Slots :
       /\ WF_OrderVars(desk = "orders" /\ Orders!Answers(k))
       /\ WF_ForecastVars(desk = "forecasts" /\ Forecasts!Answers(k))
       /\ WF_ExpenseVars(desk = "expenses" /\ Expenses!Proceeds(k))
       /\ WF_SessionVars(desk = "session" /\ Sessions!Answers(k))
       /\ WF_AssistantVars(desk = "assistant" /\ Assistant!Answers(k))
       /\ WF_DayVars(desk = "days" /\ DayBook!Proceeds(k))

Spec == Init /\ [][Next]_vars /\ Fairness

-----------------------------------------------------------------------------
View ==
  CASE desk = "orders" -> Orders!View
    [] desk = "expenses" -> Expenses!View
    [] OTHER -> <<>>
CaughtUp ==
  CASE desk = "orders" -> Orders!CaughtUp
    [] desk = "expenses" -> Expenses!CaughtUp
    [] OTHER -> TRUE

\* Once the user looks for the same thing, the list and the figures become and
\* stay those of the server, however late and in whatever order the answers of
\* earlier loads arrived and whatever moved between two pages; and a page that
\* stays open belongs to an account that may use it (load, loadExpenses and
\* their timers).
ScreenCatchesUp == <>[][UNCHANGED View]_vars => <>[]CaughtUp

\* A command that a row, a card or a dialog offered changes what the user saw on
\* it (expected_version of the orders, the decisions and the expenses).
ActedOnSeen == Orders!ActedOnSeen /\ Decisions!ActedOnSeen /\ Expenses!ActedOnSeen

\* A dish whose recommendation was applied had been priced as the card said, and
\* approved before (recommendation_apply).
AppliedAsApproved == desk = "decisions" => Decisions!AppliedAsApproved

\* Two generations never leave two open tasks for one thing (recommendation_generate).
OneOpenPerTarget == desk = "decisions" => Decisions!OneOpenPerTarget

\* The banner of the running forecasts goes (the effect on [jobs]), the
\* assistant does not think forever (handleSend), and closings, imports and payments
\* do not wait for each other (advisory locks of history_import).
SpinnerStops ==
  []<>(/\ desk = "forecasts" => ~Forecasts!hasActiveJobs
       /\ desk = "assistant" => ~drawer.thinking
       /\ desk = "days" => DayBook!Settled)

\* A receipt has one review (issue_token against submit).
ReviewOnce == desk = "receipts" => Receipts!ReviewOnce

\* The code on a receipt leads to that receipt (the effect that asks for it).
CodeOfReceipt == desk = "receipts" => Receipts!CodeOfReceipt

\* A portal ends with its session or account (load, handler, refresh).
RevokedSignsOut == []<>(desk = "session" => Sessions!SignedOutOrUsable)

\* An e-mail has one account, with the password that was handed over (create).
ProvisionedOnce == desk = "accounts" => Accounts!ProvisionedOnce

\* Tables keep their floor, and orders their table (floor_delete, table_delete).
TablesHaveFloors == desk = "floors" => FloorPlan!TablesHaveFloors

\* A completed question can be read again, and an answer on the screen is of one
\* (answer_question).
AnswersKept == desk = "assistant" => Assistant!AnswersKept

\* A past day has one source, and what was told to be imported is stored
\* (day_close, history_import).
DaysKeepSource == desk = "days" => DayBook!OneSourcePerDay /\ DayBook!ToldIsStored

=============================================================================
