------------------------------- MODULE Billing -------------------------------
(***************************************************************************)
(* The money of one order, from the waiter's basket to the cashier's       *)
(* drawer: line amounts, discount, fees, tax, how discount and fees are    *)
(* shared among the lines for the reports, and the payment.  Amounts are   *)
(* whole numbers of the minor unit, as columns numeric(14,2) are; a        *)
(* discount in percent is a number of hundredths of a percent.             *)
(*                                                                         *)
(* Each command is one transaction on the locked order (see OrderDesk).    *)
(* What the cashier has on the screen is a state of its own: the browser   *)
(* computes the amount due from it and sends the version with the payment. *)
(* The database computes with decimals and the browser with binary         *)
(* fractions: where the exact discount lies half way between two amounts,  *)
(* the browser's product may fall short of it and be rounded down.         *)
(***************************************************************************)
EXTENDS Integers, FiniteSets, Functions

CONSTANTS
  Items,        \* menu items an order may hold
  Amounts,      \* quantity * price of a line
  Rates,        \* tax rates of tables, in percent
  Taxes,        \* tax amounts sent with an order (the schema's default is 0)
  Discounts,    \* discount amounts sent with an order (the default is 0)
  Fees,         \* platform fee and delivery cost together
  Percents,     \* discounts a cashier may enter, in hundredths of a percent, 0 for none
  TiesLost,     \* the <<subtotal, percent>> that the browser rounds down at a tie
  Cash,         \* amounts of cash handed over
  Roles,        \* who takes and edits orders: waiter, manager
  Cashiers,     \* browsers at the till
  MaxVersion    \* bound: version of the order

Hundredths == 0..10000
ASSUME MoneyAssumption ==
  /\ IsFiniteSet(Items) /\ MaxVersion \in Nat \ {0}
  /\ Amounts \subseteq Nat \ {0} /\ Rates \subseteq 0..100 /\ Percents \subseteq Hundredths
  /\ Taxes \subseteq Nat /\ Discounts \subseteq Nat /\ Fees \subseteq Nat /\ Cash \subseteq Nat

\* The discount of so many hundredths of a percent is a number of half units.
Tie(subtotal, pct) == (subtotal * pct) % 10000 = 5000
ASSUME TiesAssumption == \A t \in TiesLost : Tie(t[1], t[2])

VARIABLES
  rate,   \* tax_rate of the dining table
  bill,   \* the order and its order_items
  screen  \* what each cashier has open

vars == <<rate, bill, screen>>

\* The quotient n/d in the numeric type, rounded half away from zero.
HalfUp(n, d) == (2 * n + d) \div (2 * d)

NoBill ==
  [status |-> "absent", version |-> 0, amount |-> [i \in Items |-> 0], seated |-> FALSE,
   discount |-> 0, fee |-> 0, tax |-> 0, rate |-> 15, percent |-> 0,
   discountShare |-> [i \in Items |-> 0], feeShare |-> [i \in Items |-> 0],
   cash |-> 0, change |-> 0]
Closed == [version |-> 0, subtotal |-> 0, tax |-> 0]

Subtotal(b) == SumFunction(b.amount)
Total(b) == Subtotal(b) - b.discount + b.tax

Statuses == {"absent", "pending", "preparing", "ready", "completed", "cancelled"}
Lines == [Items -> Amounts \cup {0}]
Shares == [Items -> Nat]
StoredRates == Rates \cup {15}
Bill == [status : Statuses, version : 0..MaxVersion, amount : Lines, seated : BOOLEAN,
         discount : Nat, fee : Fees \cup {0}, tax : Nat, rate : StoredRates,
         percent : Hundredths, discountShare : Shares, feeShare : Shares,
         cash : Nat, change : Nat]
Screen == [version : Nat, subtotal : Nat, tax : Nat]

TypeOK ==
  /\ rate \in Rates
  /\ bill \in Bill
  /\ screen \in [Cashiers -> Screen]

Init == /\ rate \in Rates
        /\ bill = NoBill
        /\ screen = [c \in Cashiers |-> Closed]

-----------------------------------------------------------------------------
\* allocate_order: every line bears its part, rounded down; the last one in
\* the random order of the line ids bears the rest.
Split_NoRest(sum, amount, last) == [i \in Items |-> (sum * amount[i]) \div SumFunction(amount)]
Split(sum, amount, last) ==
  LET part == [i \in Items |-> (sum * amount[i]) \div SumFunction(amount)]
  IN  [part EXCEPT ![last] = sum - SumFunctionOnSet(part, Items \ {last})]

Within(discount, amount) == discount <= SumFunction(amount)

TableTax(amount) == HalfUp(SumFunction(amount) * rate, 100)

\* set_order_items and allocate_order write the lines of the order b.  For an
\* order with a table in the request tax and rate then come from the table.
Written(b, amount, atTable, discount, fee, tax) ==
  /\ \E i \in Items : amount[i] > 0
  /\ Within(discount, amount)
  /\ \E last \in {i \in Items : amount[i] > 0} :
       bill' = [b EXCEPT !.status = "pending", !.version = @ + 1, !.amount = amount,
                  !.seated = @ \/ atTable, !.discount = discount, !.fee = fee,
                  !.tax = IF atTable THEN TableTax(amount) ELSE tax,
                  !.rate = IF atTable THEN rate ELSE @,
                  !.discountShare = Split(discount, amount, last),
                  !.feeShare = Split(fee, amount, last)]
  /\ UNCHANGED <<rate, screen>>

\* With a table in the request only a manager's discount is taken.
Granted(role, atTable, discount) ==
  IF atTable /\ role # "manager" THEN bill.discount ELSE discount

OrderCreate(role, amount, atTable, discount, fee, tax) ==
  /\ bill.status = "absent"
  /\ Written(NoBill, amount, atTable, Granted(role, atTable, discount), fee, tax)

Editable_Unfinished == bill.status \in {"pending", "preparing", "ready"}
Editable == bill.status = "pending"
OrderUpdate(role, amount, atTable, discount, fee, tax) ==
  /\ Editable
  /\ bill.version < MaxVersion
  /\ Written(bill, amount, atTable, Granted(role, atTable, discount), fee, tax)

\* order_transition; preparation takes its costs from the stock (OrderBook).
Follows(s) == CASE s = "preparing" -> {"pending"}
                [] s = "ready" -> {"preparing"}
                [] s = "cancelled" -> {"pending", "preparing", "ready"}
OrderTransition(s) ==
  /\ bill.status \in Follows(s)
  /\ bill.version < MaxVersion
  /\ bill' = [bill EXCEPT !.status = s, !.version = @ + 1]
  /\ UNCHANGED <<rate, screen>>

\* table_update and floor_set_tax.
RateSet(r) == rate' = r /\ UNCHANGED <<bill, screen>>

-----------------------------------------------------------------------------
\* The till.

\* The cashier opens a bill, of any status.
OpenBill(c) ==
  /\ bill.status # "absent"
  /\ screen' = [screen EXCEPT ![c] = [version |-> bill.version, subtotal |-> Subtotal(bill),
                                      tax |-> bill.tax]]
  /\ UNCHANGED <<rate, bill>>

\* The discount and the amount due on the screen, for the percentage entered.
Discounted(c, pct) ==
  LET n == screen[c].subtotal
  IN  HalfUp(n * pct, 10000) - (IF <<n, pct>> \in TiesLost THEN 1 ELSE 0)
Shown(c, pct) == screen[c].subtotal - Discounted(c, pct) + screen[c].tax

\* The request holds the discount of the screen, and the percentage if there is
\* one; the percentage goes first.
PaidDiscount(pct, sent) == IF pct > 0 THEN HalfUp(Subtotal(bill) * pct, 10000) ELSE sent
PaidPercent(pct, sent) ==
  IF pct > 0 THEN pct
  ELSE IF Subtotal(bill) > 0 THEN HalfUp(sent * 10000, Subtotal(bill)) ELSE 0

Due_Stored(discount) == Total(bill)
Due(discount) == Subtotal(bill) - discount + bill.tax
SameVersion_Unchecked(c) == TRUE
SameVersion(c) == screen[c].version = bill.version
\* The browser asks for enough cash, and order_pay does again.
Covers_AnyCash(cash, due) == TRUE
Covers(cash, due) == cash >= due
OrderPay(c, pct, cash) ==
  LET sent == Discounted(c, pct)
      given == PaidDiscount(pct, sent)
      due == Due(given)
  IN  /\ bill.status = "ready"
      /\ bill.version < MaxVersion
      /\ screen[c] # Closed /\ SameVersion(c)
      /\ given <= Subtotal(bill)
      /\ Covers(cash, Shown(c, pct)) /\ Covers(cash, due)
      /\ bill' = [bill EXCEPT !.status = "completed", !.version = @ + 1,
                    !.discount = given, !.percent = PaidPercent(pct, sent),
                    !.cash = cash, !.change = cash - due]
      /\ UNCHANGED <<rate, screen>>

-----------------------------------------------------------------------------
Next ==
  \/ \E role \in Roles, amount \in Lines, atTable \in BOOLEAN,
        discount \in Discounts, fee \in Fees, tax \in Taxes :
       \/ OrderCreate(role, amount, atTable, discount, fee, tax)
       \/ OrderUpdate(role, amount, atTable, discount, fee, tax)
  \/ \E s \in {"preparing", "ready", "cancelled"} : OrderTransition(s)
  \/ \E r \in Rates : RateSet(r)
  \/ \E c \in Cashiers :
       OpenBill(c) \/ \E pct \in Percents, cash \in Cash : OrderPay(c, pct, cash)

Spec == Init /\ [][Next]_vars

-----------------------------------------------------------------------------
\* Properties.

Unpaid == {"pending", "preparing", "ready", "cancelled"}

\* What stays in the drawer for a completed order is the total of its receipt,
\* whose discount may be younger than the bill (order_pay, order_json).
DrawerMatchesReceipt ==
  bill.status = "completed" => bill.cash - bill.change = Total(bill)

\* No edit leaves a discount above the lines that are left, whoever granted the
\* discount and whoever removed the lines; and the shares that the profit reports
\* add up are the discount and the fees of the order, to the last minor unit,
\* until it is paid (allocate_order).
SharesReconcile ==
  /\ bill.discount <= Subtotal(bill)
  /\ bill.status \in Unpaid =>
       /\ SumFunction(bill.discountShare) = bill.discount /\ SumFunction(bill.feeShare) = bill.fee
       /\ \A i \in Items : bill.discountShare[i] >= 0 /\ bill.feeShare[i] >= 0

\* The columns that neither a transition nor the payment may touch.
Fixed(b) == [b EXCEPT !.status = "", !.version = 0, !.discount = 0, !.percent = 0,
                      !.cash = 0, !.change = 0]

\* From preparation on the lines, the fees and the tax of an order are what they
\* were, whatever becomes of the tax rate of its table; only the payment may
\* still set a discount, and a paid bill does not change.
BillFrozen ==
  [][bill.status \notin {"absent", "pending"} =>
       /\ Fixed(bill') = Fixed(bill)
       /\ bill'.status # "completed" \/ bill.status = "completed" =>
            bill'.discount = bill.discount /\ bill'.cash = bill.cash]_vars

\* A payment takes the amount that was on the cashier's screen, however old the
\* screen is: the version sent with it stands for the lines and the tax the
\* amount was computed from.  The two ways of rounding come to differ only where
\* the exact discount is a tie, by one unit, and never to the guest's loss
\* (cashier-workspace.tsx:107, order_pay).
CollectedAsShown ==
  [][bill.status = "ready" /\ bill'.status = "completed" =>
       \E c \in Cashiers :
         LET taken == bill'.cash - bill'.change
             shown == Shown(c, bill'.percent)
         IN  taken = shown \/ (taken = shown - 1 /\ Tie(screen[c].subtotal, bill'.percent))]_vars

\* docs/database.md:5, "Monetary values use decimal arithmetic and reconcile
\* allocated discounts/fees", of a paid order.
PaidSharesReconcile ==
  bill.status = "completed" => SumFunction(bill.discountShare) = bill.discount

\* Comment at 20260911020000_table_tax_cashier_discount.sql:115, "Waiters cannot
\* set discount or tax", of an order at a table that only waiters work on.
WaiterSetsNoDiscountOrTax ==
  bill.seated /\ bill.status \in Unpaid =>
    bill.discount = 0 /\ bill.tax = HalfUp(Subtotal(bill) * bill.rate, 100)

=============================================================================
