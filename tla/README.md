# SmartDine in TLA+

SmartDine runs the operations of restaurant branches: menu and recipes, drink
stock, dining tables, orders from the waiter's basket to the cashier's drawer,
customer reviews, expenses, demand forecasts and an assistant. It is a Next.js
front end with a proxy (`frontend/`), a FastAPI backend (`backend/`) that mostly
validates and forwards, a PostgreSQL database whose stored routines
(`supabase/migrations/`) hold nearly all of the state changes, and a worker
process that runs queued jobs (`backend/app/jobs/`).

This directory holds TLA+ modules of the parts in which order, concurrency,
failure or arithmetic decide whether the system is right, the TLC
configurations that check them on small instances, and TLAPS proofs for every
value of the constants. All paths below are relative to `src/`; a migration is
named by its title, without its time stamp.

## How the system works

Every change a user makes takes the same way:

1. A form (`useSave` in `workspace-forms.tsx`) sends a JSON body with an
   `Idempotency-Key` through the proxy (`api/backend/[...path]/route.ts`), which
   gives up after 60 seconds.
2. The backend requires the key (`modules/common.py`) and opens one transaction
   on the database for `execute_command` (`integrations/db.py`, `Gateway._rpc`).
3. `private.execute_command` (core) takes an advisory lock on caller, operation
   and key, looks the key up in `idempotency_records`, and calls `command_core`.
4. `command_core` was replaced by one migration after the other, each of which
   kept the former as its base: staff history, table tax and cashier discount,
   floor tables, cashier tokens, simple stock, menu delete, portal accounts. A
   command passes them from the youngest to the oldest until one handles it.
   Rows are locked `for share` or `for update`; versions are compared by
   `expect_version`; PostgreSQL runs at READ COMMITTED.
5. Some commands enqueue a job. Workers claim jobs with a lease and a token,
   keep the lease alive by heartbeats, and complete or fail them.

### Components, their state and their operations

| Component | State | Operations | What is hard | Module |
|---|---|---|---|---|
| Job queue and worker (`intelligence`, `assistant_evidence_tools`, `worker.py`) | `processing_jobs`, `reviews.analysis_status`, result tables; the worker's token and heartbeat task | enqueue, claim, heartbeat, complete, fail, retry | lost answers, expired leases, crashes, sweeping, retries | `JobQueue`, `JobContract` |
| Orders, menu, stock, tables: the commands | `orders` with items and consumptions, `menu_items`, `ingredients`, `inventory_transactions`, `dining_tables` | create, update, delete, transition, inventory movements | long sequences of legal edits; references between rows; ledgers | `OrderBook` |
| The same, as concurrent transactions | row locks, open transactions, what a station has read | every statement of these commands | READ COMMITTED, check-then-lock, deadlock | `OrderDesk` |
| Bills and payments | amounts of `orders` and `order_items`, tax rates, the cashier's screen | create, update, transition, tax rates, open a bill, pay | rounding, shares, stale screens, who may set what | `Billing` |
| Command gateway | forms, requests, advisory locks, `idempotency_records` | save, retry, give up, look up, commit, answer | lost, late and repeated requests; commit unheard | `CommandGateway`, `CommandContract` |
| Review tokens and reviews (`reviews/service.py`, cashier's workspace, review page) | `review_tokens`, `reviews`, recorded answers, the till's screen, the guests' pages | issue, look up, rotate, expire, check, submit | rotation against submission; late answers; codes of another receipt | `ReceiptDesk` |
| Day coverage, history import, forecasts | `daily_coverage`, `historical_sales`, jobs, runs, the page and its timer | close a day, import, enqueue, run, poll | closings, imports and late payments at once; a timer that ends itself; deduplication | `DayCoverage`, `ForecastDesk` |
| Accounts and provisioning | `user_provisioning`, `auth.users`, `profiles`, the staff section | reserve, look up, insert, activate, edit, delete | four transactions, each may be the last; repetitions | `AccountDesk` |
| Recommendations | `recommendations`, dish versions, the audit trail, the panel | generate, propose, approve, reject, apply | stale cards, two generations at once | `DecisionDesk` |
| Floor plan | `floors`, `dining_tables`, orders at them, the panel | create, move, rate, delete | deletion against creation; overlapping refreshes | `FloorDesk` (table deletion against orders also in `OrderBook`) |
| Sessions and sign-in | `auth.sessions`, cookies, the proxy's renewals, the page | sign in, renew, sign out, deactivate, change password | renewals shared by calls; time-outs taken for revocation | `SessionDesk` |
| Expenses | `expenses`, their keys, the page | record, void | a lost answer and a new key; pages and figures of overlapping loads | `ExpenseDesk` |
| Assistant and voice | `assistant_conversations`, `assistant_messages`, `assistant_runs`, the drawer | ask, answer, open, delete | six transactions of one question; impatient proxy | `AssistantDesk` (voice calls are not modelled) |
| Workspaces in the browser (`workspace.tsx` and the panels) | lists, filters, dialogs, timers, calls under way | load, poll, search, page, command | answers out of order, pages of a moving list, stale rows | the nine desks, joined in `Portal` |
| Rate limiter (`core/middleware.py`) | a window per client in one process | admit, refuse | none: judged and counted without an await in between | not modelled |
| Branch isolation | row level security policies | none: static | - | not modelled: static declarations, every module is about one branch |
| Analytics, exports | none | read-only reports | - | not modelled; the shares they add up are in `Billing` |

Components interact through rows of the database only, except for form, proxy
and backend (requests), and the worker and the database (five calls).
`processing_jobs` meets the reviews through `analysis_status`; orders meet the
menu and the stock through `set_order_items` and preparation, and the floor plan
through `table_id`. In the browser each panel keeps its own copy of what it
read, with a timer or a reload after a command to bring it up to date.

The hazards of this code, each at its line and with the properties that would
catch it, are the list "hazards" of `PROJECT.json`.

## The modules

Names of operators are those of the source where TLA+ allows it. A definition
`D_X` is `D` with the plausible bug `X`; no action uses it. It is there to show
that the property it is listed with (under "mutants") can fail.

### JobQueue, JobContract

`job` holds the rows of `processing_jobs`, `review` the analysis status of the
review a job is about, `rows` the stored results, each with the token under
which it was computed, `worker` the processes. Lease and back-off are
count-downs that `Tick` moves; a worker's `beat` is the time since its last
heartbeat. An action is one call to the database, or one step of the worker
between two calls:

- `Submit` is `enqueue_job`, `Retry` is `job_retry` (manual).
- `Claim` is `job_claim`: it first sweeps every job whose lease has run out with
  no attempt left (and its review), then takes one claimable job or none. A
  claim whose answer is lost leaves a leased job that nobody works on.
- `HandlerReturns`, `HandlerRaises` end the handler; `CompleteCommits`,
  `CompleteRaises`, `FailCommits`, `FailRaises` are the calls of
  `job_complete` and `job_fail`, both with and without an answer. As in
  `process_job`, every exception of the first leads to the second, also when the
  first has committed.
- `Heartbeat` runs at any moment while the job is in work; after a failed
  heartbeat the task ends (`lost`) and the handler goes on.
- `Crash` and `Restart` are those of the process (`compose.yaml` restarts it).

`JobContract` is what the rest of the system may rely on: a job is pending, then
done with one result or failed, and a failed one may become pending again.

### OrderBook

The rows of the components' tables and one atomic action per command. A refused
command changes nothing, so only accepted ones are actions. The module states
what the commands do to each other in long sequences: deletion guards, price
snapshots, the one consumption of stock at preparation, versions, and the
ledger.

An order keeps apart the foreign key of its table (`table`, which `table_delete`
nulls) and the snapshot of the table it was last taken at (`takenAt`, which stays):
an active order whose table was deleted is one where the two differ. `used` adds up
the rows of `order_consumptions`, and `Unconsumed` is their
`unique(order_item_id, ingredient_id)`, so that a second preparation would count
twice. `ConsumedOnce` ties `used` to the lines of the order and the sum of `used` over
all orders to what the ledger has recorded as consumed.

### OrderDesk

The same commands as transactions; the module extends `OrderBook`, whose variables
are the committed rows. A session has the list of statements its
command still has to run (`Plan`, extended by `Further` when a row that was read
tells what to lock next), the locks it holds, and the row its caller had read.
`Statement` waits for conflicting locks, then sees the row as it is committed
and goes on or rolls back; `Commit` makes the writes visible, by the operators
of `OrderBook` that are the bodies of its actions; `Victim` is the rollback by
which PostgreSQL resolves a cycle. `Conflict`, `Blockers`, `Reach` and `Victim`
model PostgreSQL, from how the code uses it. `ImplementsOrderBook` is `Spec`, the
specification of the book, as a property of `DeskSpec`: these interleavings have
exactly the effects of the commands run one at a time.

### Billing

The amounts of one order in minor units, the tax rate of its table, and for each
cashier the numbers on the screen. `Written` is `set_order_items` with
`allocate_order` and the tax; `Granted` is the rule of who may set a discount;
`OpenBill` and `Shown` are the browser's, `OrderPay` is the database's, with its
own computation of the amount due. `Split` shares a sum over the lines, the rest
goes to the last line in the order of random ids, so `last` is any line.

The two compute the discount of a percentage each in its own way. The database
rounds the exact product half away from zero (`PaidDiscount`). The browser multiplies
binary fractions and calls `Math.round` (`Discounted`): the product can miss the exact
one by less than any amount tells apart, except where the exact one is a tie, half
way between two units, and the product falls short of it. Which ties are lost
depends on the bits; `TiesLost` is any set of them, and the proofs hold for each.
`MCBilling` gives TLC the pair that its amounts reach: 15% of 1.50 is 0.225, the
browser takes off 0.22 and the database 0.23. `CollectedAsShown` says what the till
promises all the same: what is taken is what was shown, or one unit less, and that
only at a tie. The other branch of `order_pay` takes the discount as it was sent,
which the browser does when no percentage is entered.

### CommandGateway, CommandContract

Forms of one caller, the requests under way, and the records. A request is sent,
locked, looked up, executed and answered, and may fail or commit unheard at any
of these points; the form may give up, be closed, or send again with the same
key for the same body. `CommandContract` says what is promised: a key has one
outcome, which never changes.

### The desks

Nine modules stand for one panel or page of the browser each, together with the
part of the server it works on. They share a shape: the tables of the server,
what the screen shows, the loads and calls under way (one per slot), and
`events`, a bound on what people choose to do and on calls that fail. A load
reads at one moment and shows at a later one; loads overlap and end in any
order. A row or a dialog offers a command on what *it* shows, so a click carries
the version of then. Polls and answers cost no event: they go on for ever, which
is what the liveness properties need.

- **OrderStation** (`workspace.tsx`): the station of a manager, waiter or
  kitchen with its tabs, lists, search, date ranges, figures, dialogs, polling
  and page-wise loading (`loadEveryOrder`); others create and move orders
  between two pages. `View` is what the screen shows, `Truth` what it would show
  of the server as it is.
- **DecisionDesk** (`decisions-audit-panel.tsx`, recommendations): the feed of
  cards with its status and category pills, the audit trail with its pages, the
  dialogs, and the commands create (all kinds), approve, reject, apply and generate.
  Generators take an advisory lock and see only committed tasks; who creates through
  the API takes none.
- **ForecastDesk** (`forecasts-panel.tsx`): the page follows the jobs it knows;
  its timer runs while one is active and is set anew by every answer. A run is
  computed from the history as it was when the job ran.
- **ExpenseDesk** (`expenses-panel.tsx`): periods, pages, filters, figures,
  recording with a key per submission, voiding with a version.
- **ReceiptDesk** (`cashier-workspace.tsx`, `reviews/service.py`,
  `review/page.tsx`): from payment to the guest's review. Issuing a link is up to
  three transactions; the guest's page checks its link twice before the database
  does.
- **SessionDesk** (`route.ts`, `auth/service.py`, sign-in page): the cookie jar,
  the calls of a page and the proxy's renewals, which calls with one expired
  token share.
- **AccountDesk** (`users/service.py`, staff section): the four transactions of
  a creation under the key of the request, and edits, credentials and deletion
  of the same rows meanwhile.
- **FloorDesk** (floor and table commands, `tables-panel.tsx`): transactions
  with their row locks (`Locks`), the looks behind them (`Check`) and the
  commits, and a panel that reads the floors and then the tables of one.
- **AssistantDesk** (`assistant/service.py`, `assistant-drawer.tsx`): a question
  as the list of its transactions (`After`), each of which may fail with or
  without being stored; a backend that dies, a proxy that gives up; and the
  drawer, which opens, deletes and asks meanwhile.

**DayCoverage**, which has no page, is built in the same way:
`daily_coverage` and `historical_sales` under `day_close` and `history_import`, each
a transaction that locks its days (`Lock`, in chronological order, `NextDays`) and
looks at each once it has it, then at the rows of the file (`Look`), and commits.
`order_pay` is there with what matters to them alone: the order is locked, its day
is fixed at the beginning (`completed_at = now()`), and it may commit after
`Midnight`. `told` keeps what a manager was told to be stored. The rows of a file
have passed `parse_history`, so they do not contradict each other about an item of
a day, but may about the status of a day, which the database refuses.

**Portal** joins the ten: one desk is open, chosen in `Init`, and each step is a
step of it. The tables of the desks are disjoint, or are those of `JobQueue`,
`OrderBook`, `OrderDesk` and `Billing`, which state the server's side; so a
product of two open desks adds interleavings of steps that touch nothing in
common, and one desk open at a time is enough. `ScreenCatchesUp`, `ActedOnSeen`
and `SpinnerStops` are stated once for the desks that have them.

## The runs

| Run | Question | Instance |
|---|---|---|
| `job_queue` | Are results fenced, reviews and jobs consistent, attempts bounded, whatever is lost or late, does a punctual worker keep its job, and does every job end? | 2 workers (`w1` punctual), 2 jobs (one with a review), 2 attempts, lease 3 ticks, heartbeat every tick and at most one late, 1 retry, 1 crash |
| `order_book` | Can orders be served at the table they were taken at, is stock consumed once and accounted for, do snapshots stay, do versions tell states apart? | a dish and a drink, 2 prices, 1 order, 1 table, 5 versions of an order, 3 of a dish and of a stock row |
| `order_desk` | Are the interleaved commands serializable, and decided on what the station saw? | 2 sessions, 2 drinks, 1 order, 1 table |
| `order_desk_deadlock` | Who can wait in a cycle, and does every command still end? | 2 sessions, 2 orders for the same drinks, one meal with a recipe, deliveries, recipe edits |
| `billing` | Do receipt, drawer, screen, discount and shares agree to the minor unit? | `MCBilling`: 2 items of 70 or 80, waiter and manager, one cashier, 15% (of 70 and 150 a tie, which the browser keeps and loses), discounts and fees that leave rests |
| `command_gateway` | Is a key carried out once and answered truly? | 2 forms, 2 keys, 2 bodies, 2 requests at once |
| `portal` | Does each desk keep what it is for: screens that catch up, commands on what was seen, one application of a price, one open task, one review, the code of the receipt, one account, floors under tables, one source of a day, answers that are kept, banners that go, sessions that end? | see below |
| `billing_shares`, `billing_waiter` | two statements of docs and comments that the code does not keep | as `billing` |
| `day_sales` | "a day with completed sales cannot be marked closed" | `DayCoverage` alone, 2 closings, imports or payments |
| `expense_retry` | "a retry cannot create the same expense twice" | `ExpenseDesk` alone, 2 events |
| `session_cleared` | "explicit logout or confirmed revoked session: clean up cookies" | `SessionDesk` alone |

Why these bounds are enough. Two workers are the least with which one can be
stale while another owns; a second attempt and one retry are the least in which
tokens, attempts and sweeping differ; a lease of three ticks is the
least that a punctual worker, one tick late, can keep and any other may lose. One order suffices in `order_book` because the
commands never relate two orders except through stock and deletion guards, and
the proofs cover any number, the sum of what all of them used included
(`order_desk_deadlock` has two). Two sessions exhibit every pairwise race, and two
orders with the same two drinks the cycles of length two. Two requests under one
key, two bodies and two keys are the least for a conflict, a replay and an
independent command. Versions and edits are bounded in the guards (`MaxVersion`,
`MaxEdits`, `MaxMoves`, `MaxRetries`, `MaxCrashes`, `MaxStock`, `MaxQuantity`); the values
let an order be edited, prepared, made ready and paid, and a bound only cuts a
behaviour off at a state that the invariants have seen. `CHECK_DEADLOCK FALSE`
stands in the configurations whose state ends at such a bound, or with all
orders completed and everything deleted. Sessions are interchangeable in
`order_desk`, which checks safety only, so symmetry is sound there.

`portal` has two slots, so that two loads, calls, renewals or transactions can
overtake each other, and pages of one row, so that two rows already move between
pages. Each desk makes at most two or three rows (`MaxOrders`, `MaxRecs`,
`MaxExpenses`, `MaxTokens`, `MaxSessions`, `MaxMade`, `MaxTaken`, `MaxChats`):
two tokens are one rotation, two recommendations are two of one dish or one
each. The events of a desk (`OrderEvents` 2 to `ReceiptEvents` and
`AssistantEvents` 4) are set to the shortest story in which its mutants fail,
and some more where the state space allows: a receipt, for instance, needs a
colleague, an expiry or lost answer, and a receipt opened again. Two days, two
dishes and files of two rows (`MaxRows`) are the least with which two imports can
lock days in opposite order and one file can contradict itself about a day; two
closings, imports or payments (`DayEvents`) show every pairwise race. Timers, answers
and the ends of calls are not counted. When the events are used up and nothing
polls, a desk rests, hence `CHECK_DEADLOCK FALSE`. The property `ScreenCatchesUp`
looks at behaviours with what is left after the events: a user who has stopped
choosing, while answers still come in.

In `order_desk` no stock movement and no recipe is sent, in
`order_desk_deadlock` no deletion and no update: the two together fire every
statement.

### Fairness

`JobQueue`: time passes; a worker polls in an endless loop, each handler and each
call has a time-out, and the compose file restarts the process. These are weak
fairness of `Tick`, `Claim`, the two ends of a handler and of a call, and
`Restart`. Nothing is assumed of heartbeats, except, for the workers in
`Punctual`, that they are at most `MaxDelay` late: `Tick` waits for them.
Crashes are bounded, since a worker that always crashes settles nothing.

`OrderDesk`: a transaction that need not wait goes on, and the deadlock check
runs (weak fairness). A locking statement stands in the queue of its row, so it
runs if it is able to again and again: strong fairness of `Statement`.

`Portal`: a page's `setInterval` fires as long as the page is open (`Polls` of
`OrderStation`, `ForecastDesk`, `ExpenseDesk` and `SessionDesk`); a request ends, with an
answer or with the proxy's time-out (`Answers`, and `Proceeds` of `ExpenseDesk`, for every
slot); the
forecast worker goes on, as `EveryJobSettles` shows of the queue (`Works`); an access
token expires by the clock (`Expires`); and the proxy's renewal ends, since it
carries a time-out of 15 seconds (`Renews`); a transaction about a day that need not
wait goes on, and gets a lock that is free (`Proceeds` of `DayCoverage`). All weak: none of them, once
possible, is taken away again and again by others. Nothing is assumed of what
people do, or of failures, whose number is bounded.

`OrderBook`, `Billing` and `CommandGateway` state safety only: their users may
stop at any point.

## The proofs

Eight modules hold proofs, each for all values of the constants that satisfy the
named assumptions in the module that declares them. Every safety invariant and every
action property that a passing run checks is stated by a theorem.

**JobQueueProofs.** `TypeCorrect`, `FencedResults`, `ReviewsAgree`,
`BoundedRetries`, `CompletionIsFinal`, `QueueKeepsContract`, `HealthyOwners`. All but
the last are proved from a case analysis: `JobStep` lists the seven things a step can
do to one job (stay, be accepted, retried, claimed, given up, queued again, done)
with what they do to its review, its results and its counters, and
`StepOfEveryJob` shows that every step of the module does one of them to each
job. Two strengthenings are needed: `OwnerIsLatest` (the owner of a running job
is the last token issued, so a caller that owns the job has the latest claim) for
`FencedResults`, and `ClaimsCounted` (attempts account for the tokens issued since
the last manual retry) for `BoundedRetries`. The contract is a refinement: a step
maps to `Accept`, `Finish`, `Revive`, `GiveUp` of the jobs that are given up
together, or a stutter.

`HealthyOwners` follows a worker instead of a job. `TokensApart`: no two workers
hold the same token, and none holds one not yet issued. `LeaseKept`: while a worker
is healthy, what is left of its lease and the time since its last heartbeat are
together a whole lease. Since `Tick` waits for a punctual worker, the second never
exceeds `Interval + MaxDelay`, and the lease cannot run out when that is less than
`Lease`. This is the one assumption the theorem needs (`PunctualAssumption`). The
code sets the interval to a third of the lease; that a heartbeat is less than two
thirds late is what the word punctual means.

**OrderDeskProofs**, of the book. `BookInvariant`, `BookTypes`, `OrdersServable`,
`StockReconciles`, `ConsumedExactlyOnce`, `SnapshotsStay`, `VersionsUnique`. The
invariant joins the state properties with `StatusFits` (an order that is absent is
blank, and one that is absent or pending has not been prepared) and `DishesExist` (what
is on an order is not absent from the menu). Without the first an edit of a pending order
could not be shown to leave `ConsumedOnce` true. `OrdersServable` needs that
`table_delete` looks for every active order: no step but that one parts `table` from
`takenAt`. That stock is never negative is part of `TypeOK` and needs the guard
`Enough`; the ledger follows because each command adds the same number on both sides.
`RowStep` collects what a step may do to one order, from which the two action
properties follow.

`ConsumedExactlyOnce` has two halves. `UsedFits`, that each order used what is on
it if it was prepared and nothing else, is part of the invariant. `LedgerTied`, that the
orders' uses of a drink add up to the ledger's consumption, is proved after it:
`PreparedTied` takes the prepared order out of the sum before and after (`TakeOne`) and
leaves the rest as it was (`SameRest`); a drink comes with an empty ledger, and no
order names it yet, which is `DishesExist` (`StockProductTied`). The sums are those of
`BillingProofs`, taken by INSTANCE with the orders for its items. `OrdersAssumption`, that
the orders are finitely many, is what they need.

**OrderDeskProofs**, of the desk. `DeskInvariant`, `Serializable`, `ActedOnLatest`,
`DeskKeepsBook`. `Serializable` is the refinement: a commit is an accepted command of
the book, every other step of a session a stutter. So what an open transaction has
found must still be so when it commits, however many others have committed since.
The inductive invariant `DeskInv` says of each open transaction that

- the statements ahead of it and the locks it holds are those of its command
  (`OwnStatements`), and every lock its command needs is held or still to be taken
  (`LocksTaken`);
- what it found under a lock it holds it would find again (`StillFound`), and so it
  would what it looked for in other tables (`StillRead`): who deletes a dish or a
  table holds its row for update, and an order that would name it has to share it;
- the row its caller had on the screen is the one of the database or an older
  version of it (`Aims`), which is what makes comparing versions enough;

and of two transactions that their locks are compatible (`Apart`).
`StatementOpenOK` takes one statement on; `OthersUndisturbed` shows that a commit
writes only rows on which it holds a lock that conflicts with whatever another
transaction relies on; `CommitIsCommand` shows the mapping, command by command. The
properties of the book, those of the book's theorems, then hold of the desk
(`DeskKeepsBook`), and `ActedOnLatest`
is `StillFound` of the lock on the order.

`LockedInOrder` and `OnlyRecipesCircular` are about deadlock. Every lock has a level:
the table, the order, the dishes that a command changes, those it only reads, then
the stock in the order of the ids (`Level`). A transaction that is no recipe edit
takes its locks at rising levels (`InOrder`), except that it shares several dishes
at one, where sessions that share do not wait for each other. A session that waits therefore waits
for one whose next lock is higher (`Climbs`), and a cycle without a recipe edit would
have a highest one. `Reach` is defined as the smallest set that is closed under
waiting, so no recursion is needed.

**BillingProofs.** `BillTypes`, `DrawerCounts`, `SharesAddUp`, `FrozenBill`,
`ShownIsCollected`. The invariant adds `ScreensRecall`: no screen is ahead of the
bill, and one at the bill's version shows its lines and its tax, since every command
that writes them makes a new version. With it a payment that was compared by version
takes the amount on the screen, or one unit less at a tie, for any `TiesLost`. `SplitReconciles` is the arithmetic of
`allocate_order`: the parts of all lines but the last, each rounded down, are
together no more than the sum (`SumFloors`), so the rest is no negative number and
the shares add up. The sums are the library's folds, that is, the choice of a
recursive function. `SumsExist` builds that function for the subsets of a finite set,
`SumsAgree` shows that it does not depend on the set, and `SumTake` that any number
may be taken first. Where a proof would be an induction it takes the least number or
set that breaks the claim (`LeastNumber`, `LeastSet`), since an induction theorem has
an operator for a parameter. `MoneyAssumption` says that amounts are natural numbers,
percentages at most 100, and the items finitely many; `TiesAssumption`, that what the
browser loses are ties.

**CommandGatewayProofs.** `GatewayTypes`, `EachKeyOnce`, `AnswersTrue`,
`RepeatsReplayed`, `GatewayKeepsContract`. The inductive invariant says that the
effects and the records name each other (`EffectsRecorded`), that a request that
is done holds what is recorded (`DoneIsRecorded`), that one request per key at
most is inside the lock (`OneRunner`) and that a key whose command executes has no
record yet (`NotYetRecorded`): the last two are what makes the look-up still true
at the commit.

**DecisionProofs.** `DecisionTypes`, `AppliesWhatWasApproved`, `NoSecondTask`,
`DecidesOnSeen`. The invariant has three parts. `Kept`, of the server: a
recommendation whose dish has not changed since it was written names the dish's
price (`BasisKept`), and the trail has the approval of what is approved and one
application of what is applied (`TrailTells`). `GensKept`: one generation at
most holds the lock, and while it does nothing opens that it did not see
(`LockTells`); without this, that no second task opens is not inductive.
`ScreenKept`: a card, the dialog and a call on its way are never ahead of the
recommendation, and agree with it when the versions do (`Behind`), from which it
follows that a decision is about the status that was shown.

**FloorProofs.** `FloorsStay`, `FloorTypes`. A transaction checks what it has locked and writes
what it has checked; between the two others commit. The invariant says what
stays true for it in the meantime: transactions that hold a row have compatible
modes (no `Clash`), the rows that a transaction holds stay (`Stays`), and what a
deletion has looked for still holds when it commits (`Looked`). For the types, `Bounds`
counts the locks of a transaction and follows a refresh from the floors to the tables
of the floor it picked; that the least floor exists is well-foundedness of the naturals.

**AccountProofs.** `Provisioning`, `AccountTypes`. Every attempt has a number, which gives its
password, its provision and its user. A request that is under way fits the rows
as they are (`Fits`), and two requests never mean the same number (`Apart`). A
request of the form has a key of its own, so no other request works on its
provision, and an account that is active under that provision is the one it
made: without this the password on the card could be another attempt's. Edits and
deletions only take rows away or change what no request relies on (`Milder`).

**PortalProofs.** `PortalAppliesAsApproved`, `PortalHasOneTask`,
`PortalHasOneReview`, `PortalShowsOwnCode`, `PortalKeepsFloors`,
`PortalProvisionsOnce`: an invariant of a desk holds while that desk is open
(`DecisionsKept`, `ReceiptsKept`, `FloorsKept`, `AccountsKept`), and the other desks
leave its variables alone. For the decisions, the floors and the accounts it is the
one of the module above, and two lemmas (`SameBeginning` and `SameSteps` for the
decisions) say that the portal's instance and the one of the proofs have the same
actions. `ReceiptInv` of the receipts is proved here. One review per receipt needs
that a submission checks the token and adds the review in one transaction
(`review_submit`) and that the pages of guests only ever name tokens that were
made. The code on the screen needs to be followed through every answer under
way: each number that a look-up, a command or a repetition hands out is a place
in `links` for the receipt it was asked for (`CodesMade`), and an answer that the
till still waits for is about the receipt on its screen (`IssueFits`).
`PortalKeepsDays`, proved here of `DayCoverage` itself: no two
transactions have locked the same day (`Parted`), so what one has found on the days
it locked is still so when it commits (`FoundNoSales`, `FoundNoConflict`).
`CommitOfOne` says so of a commit, `QuietDayStep` of a step that writes nothing.
`PortalKeepsAnswers`, proved here of `AssistantDesk`: at most one question works on
a run (`OwnRuns`), and how far it has come tells what the run's conversation says
(`Works`: nothing of the run before it asks, its question once after that, then its
question and its answer); no other conversation names the run, and one that was
completed has its answer (`Filed`). Without `Works`, `Filed` is not inductive: a run
could be finished whose answer was never saved. Each call of `answer_question` has a
lemma for what it stores (`QuietStep`, `StartStep`, `SaysStep`, `FinishStep`),
whether it is heard of or not; `StoresStep` and `FollowsStep` put them together.
`PortalActsOnSeen`, proved here of `OrderStation` and `ExpenseDesk`, with
`CarriedOnSeen` of `DecisionProofs`: every row that a list, a load under way, a
dialog, a form or a command holds is one the server has had. It has no higher
version than its order or expense, and while the versions are equal it says what the
server says (`Read`, `Entries`). Whatever is loaded is of that kind, whatever the
page does with it stays so, and a change on the server only makes rows older
(`OrderMoved`, `EntryVoided`), so a command that passes the check of its version finds
what its row shows. What is asked of the constants is that a page has rows.
`PortalTypes` is the type invariant of all ten desks. Each has an invariant of its own,
and `Bounded` says which one holds while the desk is open. Most of them add numbers to
the invariants above (`OrderBounds`, `ReceiptBounds`, `DayBounds`, `AnswerBounds`). Four are
not inductive without something that is more than a type:

- sessions: on the sign-in page nothing but one sign-in is under way (`OneSignIn`), and
  one that was let go still has room (`RoomToOpen`), so two sign-ins never open a
  session for the room that is left for one;
- the assistant: a conversation may still be made for every question that was asked
  without one (`RoomToTalk` counts them, `Homeless`), and messages that were fetched or
  shown name runs that are there (`ErrandsNamed`, `DrawerNamed`);
- the receipts: no token has a code that was not handed out yet (`CodesCounted`);
- the covered days: no transaction began in the future, and none has locked a day it
  did not ask for (`TxnFits`).

`BoundsAssumption` says that the bounds are natural numbers, that dishes, days and slots
are finitely many, and that there is room for the rows of the beginning.

**Only model-checked.** All liveness: `EveryJobSettles`, `EveryCommandEnds`,
`ScreenCatchesUp`, `SpinnerStops`, `RevokedSignsOut`, which is beyond the prover.
The five runs that refute a statement. Client-side filters
(`SelectSeq`, of which the prover knows nothing) enter no proof: what they leave is
taken from the rows that were loaded (`ListedRows`, `Shown`).

## What the runs refute

- `billing_shares`: `order_pay` stores a new discount without running
  `allocate_order`, so the `discount_allocated` of the lines, which the profit
  reports add up, no longer sum to the discount of the order.
- `billing_waiter`: a waiter's `order_update` that carries no table is not
  stripped of discount and tax although the order sits at one.
- `day_sales`: a payment bears the time at which its transaction began and locks no
  day, so one that straddles midnight puts sales on a day that was meanwhile closed
  as a day without any, or covered by an import.
- `expense_retry`: the form of an expense takes a new key after any failure, also
  one in which the answer alone was lost, so its repetition records the expense
  twice; the hint under the form says that it cannot.
- `session_cleared`: the proxy takes a renewal that got no answer in time for a
  dead session and clears the cookies of a living one; its comment speaks of
  confirmed revocation.

Seen while reading, modelled where a module has it, and not stated by a run:

- Tax of an order at a table is a percentage of the full subtotal (`Billing`), and
  `docs/verification.md:56` has it taken after the discount.
- `answer_question` names `logger` and `asyncio` in the branch that tries the
  next model (`assistant/service.py:131`), and imports neither, so the next model is
  never tried. `AssistantDesk` models the failure.
- A question whose saving fails leaves its run "running" (`assistant/service.py:241`
  is outside the `try`).
- An answer that arrives after another conversation was opened is added to the
  one on the screen; a conversation deleted while it thinks is back on the
  screen with the answer, and its next question is a 404. The voice agent revives
  a deleted conversation (`on conflict` sets `deleted_at` to null).
- The kitchen's board is loaded with the dates of the history toolbar; its
  "recent cancellations" of ten minutes go by the time of creation; the month's
  total of the expenses is computed from the rows of the loaded page.
- Two overlapping refreshes of the table panel can show the tables of another
  floor than the one that is picked.
- An e-mail whose provisioning died between two transactions stays reserved until the same
  request is repeated with its key; a failed creation says so only to its author.
- A cashier who opens a receipt again may be given the recorded token of before a
  rotation or expiry: a code that leads to the right receipt, but is refused.
- A forecast is deduplicated by dish and day, also when the history has been
  imported again since; `LayoutForm` reports every 409 as "already exists".

A further property of the code that is not a contradiction of its documents: the
request of a payment always carries a discount, 0 by default, so a payment
replaces a discount that a manager stored with the bill. `PaidDiscount` models
it, and `CollectedAsShown` shows that the cashier is shown the same amount, up to
the unit of a lost tie.
`OnlyRecipesDeadlock` shows that the documented lock order prevents deadlocks
except with `recipe_set`, whose foreign keys lock the ingredients in the order
of the request; PostgreSQL's deadlock detection then ends one of the commands.

## Abstractions

- Text, names, notes, audit rows, staff snapshots and costs are left out.
- Recipes no longer constrain an order; `recipe_set` only changes a version and,
  in `OrderDesk`, takes locks.
- Amounts of money appear in `Billing` only; a price elsewhere is a value that is
  to be kept. Widths of numbers are not reached by valid amounts.
- The discount of a payment is none or a percentage of at most two decimals. The form
  steps by one percent; with more decimals `order_pay` would round the percentage first.
- An order is edited with its items: `OrderUpdate` of `orders/schemas.py` requires them,
  so the branch of `order_update` without items is never taken.
- In `DecisionDesk` an update of the menu and one of the recipe are one kind, which
  leaves the price and makes a new version of the dish. A task written through
  the API waits for no generation and has no `target_id`, so `OneOpenPerTarget`, which
  is about targets, speaks of generated tasks only.
- A job's result is its token; the handler returns or raises.
- Keys, bodies and results are model values; records belong to one caller and
  one operation, whose requests do not meet those of another.
- Writes of a transaction become visible in one step, as they do in PostgreSQL;
  a foreign key check is part of the statement that causes it.
- A desk has one user and one or two others; what the others' screens show is
  left out. A load of several requests at once is one read, except where a
  list is read page by page or the code awaits between two requests.
- Dates are periods (today, earlier), searches are the thing that is searched
  for or nothing; figures are sums over the rows they are computed from.
- `AssistantDesk`: what a model says, its evidence and its citations are a
  completed answer or none; the list of conversations in the drawer may be of
  any earlier moment.
- A person's click while a dialog is open is possible only where the dialog
  leaves the page reachable.

## Not modelled

- **Rate limiter**: a window of time stamps in one process, judged and counted
  without an await in between; nothing interleaves with it.
- **Branch isolation**: policies without state. Every module is about one branch.
- **Analytics, exports, role insights, the manager's list of reviews**: reports
  that are read and drawn once; the shares they add up are in `Billing`.
- **Voice calls**: LiveKit runs the agent's tasks, so their order is not this
  code's.
- **Numeric forecasting**: floating-point library code.
- The tabs for menu and stock in the workspace: forms over the commands of
  `OrderBook`, with no state but the list; `OrderStation` and `ExpenseDesk` have
  the same loads and the same dialogs.

## Plan

Written, in this order: `JobQueue` with its contract and proofs; `OrderBook` and
`OrderDesk` that runs it; `Billing`; `CommandGateway` with its contract; proofs
of `OrderBook` and `CommandGateway`; the nine desks, `DayCoverage` and `Portal`; proofs of
`DecisionDesk`, `ReceiptDesk`, `FloorDesk` and `AccountDesk`, lifted to `Portal`, and
of `DayCoverage` and `AssistantDesk` in it; that `OrderDesk` implements `OrderBook`, and
its lock order; punctual workers; `Billing`; what `OrderStation` and `ExpenseDesk` act on;
the types of all desks in `Portal`.

What is left: the voice agent's writes next to those of `AssistantDesk`.
