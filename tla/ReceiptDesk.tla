------------------------------ MODULE ReceiptDesk ------------------------------
(***************************************************************************)
(* The cashier's workspace: the bills, the payment of one, and the receipt *)
(* with the QR code of its review link.  A colleague at another till pays  *)
(* and opens receipts too, and guests scan the codes that were shown and   *)
(* send their review.                                                      *)
(*                                                                         *)
(* Issuing a link takes up to three transactions: a look at the recorded   *)
(* answers, the command review_token_create, and the rotation of a token   *)
(* that exists already (ReviewService.issue_token).  The guest's page asks *)
(* whether its link is good, and the submission asks again before it       *)
(* writes (get_token_info, submit).                                        *)
(***************************************************************************)
EXTENDS Integers, Sequences, FiniteSets

CONSTANTS Bills,      \* the bills, 1 .. n
          Tills,      \* bound: the cashiers
          Own,        \* the till of Tills whose screen is modelled
          Phones,     \* bound: guests' pages
          MaxTokens,  \* bound: tokens made
          MaxEvents   \* bound: choices of the users, expiries, failed calls

VARIABLES bills,    \* status of every bill
          tokens,   \* the row of review_tokens of every bill, or NoToken
          reviews,  \* reviews recorded for every bill
          records,  \* answers of review_token_create recorded for a cashier and a bill, or 0
          made,     \* the tokens made: whose bill each belongs to
          codes,    \* tokens that were on a cashier's screen
          issues,   \* issue_token under way at a till, or NoIssue
          till,     \* the state of CashierWorkspace at Own
          pages,    \* the guests' pages
          events    \* bound

vars == <<bills, tokens, reviews, records, made, codes, issues, till, pages, events>>

Sections == {"today", "history"}
NoToken == [code |-> 0, used |-> FALSE, expired |-> FALSE]
NoIssue == [step |-> "none", bill |-> 0, active |-> FALSE]
NoPage == [step |-> "none", code |-> 0]

TypeOK ==
  /\ bills \in [Bills -> {"ready", "completed"}]
  /\ tokens \in [Bills -> [code : 0 .. MaxTokens, used : BOOLEAN, expired : BOOLEAN]]
  /\ reviews \in [Bills -> Nat]
  /\ records \in [Tills -> [Bills -> 0 .. Len(made)]]
  /\ made \in Seq(Bills) /\ Len(made) <= MaxTokens
  /\ codes \subseteq 1 .. Len(made)
  /\ issues \in [Tills -> [step : {"none", "look", "command", "rotate"}, bill : Bills \cup {0}, active : BOOLEAN]]
  /\ till.section \in Sections /\ till.filter \in {"unpaid", "paid", "all"}
  /\ till.bill \in Bills \cup {0} /\ till.qr \in 0 .. Len(made)
  /\ pages \in [Phones -> [step : {"none", "opening", "form", "checking", "sending", "refused", "done"},
                        code : 0 .. Len(made)]]
  /\ events \in 0 .. MaxEvents

Event == events < MaxEvents /\ events' = events + 1
Server == <<bills, tokens, reviews, records, made>>

-----------------------------------------------------------------------------
\* What the workspace makes of the bills that were loaded.

visible(t) ==
  {b \in t.rows : /\ t.section = "history" \/ b.status = "ready" \/ b.mine
                  /\ t.filter \in {"all", IF b.status = "completed" THEN "paid" ELSE "unpaid"}}

ReceiptOf(b) == bills[b]

\* Bound: the user, both lists and their pages are read at one moment.
load(mine) == {[n |-> b, status |-> bills[b], mine |-> b \in mine] : b \in Bills}

-----------------------------------------------------------------------------
\* The lists.

Listed(t) == till' = t /\ UNCHANGED <<Server, codes, issues, pages>>

Poll ==
  /\ till.rows # load(till.paid)
  /\ Listed([till EXCEPT !.rows = load(till.paid)])
  /\ UNCHANGED events

Free == till.bill = 0

\* Each section starts with the filter of its own.
PickSection(s) ==
  /\ Event /\ Free
  /\ s # till.section
  /\ Listed([till EXCEPT !.section = s, !.filter = IF s = "today" THEN "unpaid" ELSE "all"])
PickFilter(f) ==
  /\ Event /\ Free
  /\ till.section = "today" /\ f \in {"unpaid", "paid"} \ {till.filter}
  /\ Listed([till EXCEPT !.filter = f])

-----------------------------------------------------------------------------
\* A receipt that is completed, or becomes so, asks for its code.

StartIssue(b) == [step |-> "look", bill |-> b, active |-> TRUE]

\* Bound: a till starts an issue when the one before has come to its end.
Shows(b, status) ==
  /\ till' = [till EXCEPT !.bill = b, !.status = status, !.qr = 0, !.recorded = FALSE]
  /\ IF status = "completed"
     THEN issues[Own] = NoIssue /\ issues' = [issues EXCEPT ![Own] = StartIssue(b)]
     ELSE UNCHANGED issues

openBill(b) ==
  /\ Event /\ Free
  /\ b \in {r.n : r \in visible(till)}
  /\ Shows(b, ReceiptOf(b))
  /\ UNCHANGED <<Server, codes, pages>>

\* The answer of an issue that was asked for before is not for this receipt.
CloseBill ==
  /\ ~Free /\ ~till.paying
  /\ till' = [till EXCEPT !.bill = 0, !.qr = 0]
  /\ issues' = [issues EXCEPT ![Own].active = FALSE]
  /\ UNCHANGED <<Server, codes, pages, events>>

-----------------------------------------------------------------------------
\* The payment.  A retry of the same payment carries the same key.

pay ==
  /\ till.bill # 0 /\ till.status = "ready" /\ ~till.paying
  /\ till' = [till EXCEPT !.paying = TRUE]
  /\ UNCHANGED <<Server, codes, issues, pages, events>>

Paid(b) ==
  /\ issues[Own] = NoIssue
  /\ till' = [till EXCEPT !.paying = FALSE, !.status = "completed", !.paid = @ \cup {b},
                          !.rows = {[n |-> r.n, status |-> IF r.n = b THEN "completed" ELSE bills[r.n],
                                     mine |-> r.mine \/ r.n = b] : r \in load(till.paid)}]
  /\ issues' = [issues EXCEPT ![Own] = StartIssue(b)]

PayCommits ==
  /\ till.paying
  /\ till.recorded \/ bills[till.bill] = "ready"
  /\ bills' = [bills EXCEPT ![till.bill] = "completed"]
  /\ Paid(till.bill)
  /\ UNCHANGED <<tokens, reviews, records, made, codes, pages, events>>

PayLosesAnswer ==
  /\ Event
  /\ till.paying
  /\ till.recorded \/ bills[till.bill] = "ready"
  /\ bills' = [bills EXCEPT ![till.bill] = "completed"]
  /\ till' = [till EXCEPT !.paying = FALSE, !.recorded = TRUE, !.paid = @ \cup {till.bill}]
  /\ UNCHANGED <<tokens, reviews, records, made, codes, issues, pages>>

\* Refused because the colleague was first: the receipt is fetched again.
PayRefused ==
  /\ till.paying
  /\ ~till.recorded /\ bills[till.bill] = "completed"
  /\ issues[Own] = NoIssue
  /\ till' = [till EXCEPT !.paying = FALSE, !.status = "completed"]
  /\ issues' = [issues EXCEPT ![Own] = StartIssue(till.bill)]
  /\ UNCHANGED <<Server, codes, pages, events>>

ColleaguePays(b) ==
  /\ Event
  /\ bills[b] = "ready"
  /\ bills' = [bills EXCEPT ![b] = "completed"]
  /\ UNCHANGED <<tokens, reviews, records, made, codes, issues, till, pages>>

-----------------------------------------------------------------------------
\* issue_token at a till.

ColleagueOpens(c, b) ==
  /\ Event
  /\ c # Own /\ issues[c] = NoIssue /\ bills[b] = "completed"
  /\ issues' = [issues EXCEPT ![c] = StartIssue(b)]
  /\ UNCHANGED <<Server, codes, till, pages>>

Step(c, s) == issues' = [issues EXCEPT ![c].step = s]

\* An answer for a receipt that was left is dropped.
Delivers_Late(c, code) ==
  /\ issues' = [issues EXCEPT ![c] = NoIssue] /\ codes' = codes \cup {code}
  /\ till' = IF c = Own THEN [till EXCEPT !.qr = code] ELSE till
Delivers(c, code) ==
  /\ issues' = [issues EXCEPT ![c] = NoIssue]
  /\ codes' = IF issues[c].active THEN codes \cup {code} ELSE codes
  /\ till' = IF c = Own /\ issues[c].active THEN [till EXCEPT !.qr = code] ELSE till
Fails(c) == issues' = [issues EXCEPT ![c] = NoIssue] /\ UNCHANGED <<codes, till>>

\* The newest recorded answer of any cashier.
RecordedFor(b) == {records[c][b] : c \in Tills} \ {0}
Look(c) ==
  LET b == issues[c].bill
  IN  /\ issues[c].step = "look"
      /\ IF RecordedFor(b) = {} THEN Step(c, "command") /\ UNCHANGED <<codes, till>>
         ELSE \E n \in RecordedFor(b) : (\A m \in RecordedFor(b) : m <= n) /\ Delivers(c, n)
      /\ UNCHANGED <<Server, pages, events>>

\* A failed look is as good as none.
LookFails(c) ==
  /\ Event
  /\ issues[c].step = "look"
  /\ Step(c, "command")
  /\ UNCHANGED <<Server, codes, till, pages>>

NewCode(b) ==
  /\ Len(made) < MaxTokens
  /\ made' = Append(made, b)
  /\ tokens' = [tokens EXCEPT ![b] = [code |-> Len(made) + 1, used |-> FALSE, expired |-> FALSE]]

\* review_token_create under the key of the receipt: a cashier who asked before
\* gets the answer of then.
Command(c) ==
  LET b == issues[c].bill
  IN  /\ issues[c].step = "command"
      /\ \/ /\ records[c][b] # 0
            /\ Delivers(c, records[c][b])
            /\ UNCHANGED <<tokens, records, made>>
         \/ /\ records[c][b] = 0 /\ tokens[b] # NoToken
            /\ Step(c, "rotate")
            /\ UNCHANGED <<tokens, records, made, codes, till>>
         \/ /\ records[c][b] = 0 /\ tokens[b] = NoToken
            /\ NewCode(b)
            /\ records' = [records EXCEPT ![c][b] = Len(made) + 1]
            /\ Delivers(c, Len(made) + 1)
      /\ UNCHANGED <<bills, reviews, pages, events>>

\* The rotated token is recorded nowhere.
MayRotate_Any(b) == TRUE
MayRotate(b) == ~tokens[b].used
Rotate(c) ==
  LET b == issues[c].bill
  IN  /\ issues[c].step = "rotate"
      /\ IF MayRotate(b) THEN NewCode(b) /\ Delivers(c, Len(made) + 1)
         ELSE Fails(c) /\ UNCHANGED <<tokens, made>>
      /\ UNCHANGED <<bills, reviews, records, pages, events>>

IssueFails(c) ==
  /\ Event
  /\ issues[c] # NoIssue
  /\ Fails(c)
  /\ UNCHANGED <<Server, pages>>

\* The records of a cashier who is deleted go with the account (sd_delete_staff).
ColleagueDeleted(c) ==
  /\ Event
  /\ c # Own /\ issues[c] = NoIssue
  /\ records' = [records EXCEPT ![c] = [b \in Bills |-> 0]] /\ records' # records
  /\ UNCHANGED <<bills, tokens, reviews, made, codes, issues, till, pages>>

Expires(b) ==
  /\ Event
  /\ tokens[b] # NoToken /\ ~tokens[b].expired
  /\ tokens' = [tokens EXCEPT ![b].expired = TRUE]
  /\ UNCHANGED <<bills, reviews, records, made, codes, issues, till, pages>>

-----------------------------------------------------------------------------
\* The guest's page.

Good(code) == LET t == tokens[made[code]]
              IN  t.code = code /\ ~t.used /\ ~t.expired

Turns(p, s) ==
  /\ pages' = [pages EXCEPT ![p].step = s]
  /\ UNCHANGED <<bills, records, made, codes, issues, till>>

Scan(p, code) ==
  /\ pages[p] = NoPage
  /\ pages' = [pages EXCEPT ![p] = [step |-> "opening", code |-> code]]
  /\ UNCHANGED <<Server, codes, issues, till, events>>
InfoAnswers(p) ==
  /\ pages[p].step = "opening"
  /\ Turns(p, IF Good(pages[p].code) THEN "form" ELSE "refused")
  /\ UNCHANGED <<tokens, reviews, events>>

\* A rating of the visit and of every dish, and a comment, have been given.
submit(p) ==
  /\ pages[p].step = "form"
  /\ Turns(p, "checking") /\ UNCHANGED <<tokens, reviews, events>>
Check(p) ==
  /\ pages[p].step = "checking"
  /\ Turns(p, IF Good(pages[p].code) THEN "sending" ELSE "refused")
  /\ UNCHANGED <<tokens, reviews, events>>

\* review_submit locks the token and looks once more.
review_submit(p) ==
  LET b == made[pages[p].code]
  IN  /\ Good(pages[p].code)
      /\ reviews[b] = 0
      /\ reviews' = [reviews EXCEPT ![b] = @ + 1]
      /\ tokens' = [tokens EXCEPT ![b].used = TRUE]
Received(p) ==
  /\ pages[p].step = "sending"
  /\ review_submit(p)
  /\ Turns(p, "done") /\ UNCHANGED events
\* The guest may send a form again whose answer was lost.
ReceiptLost(p) ==
  /\ Event
  /\ pages[p].step = "sending"
  /\ review_submit(p)
  /\ Turns(p, "form")
NotReceived(p) ==
  /\ pages[p].step = "sending"
  /\ ~(Good(pages[p].code) /\ reviews[made[pages[p].code]] = 0)
  /\ Turns(p, "refused") /\ UNCHANGED <<tokens, reviews, events>>

-----------------------------------------------------------------------------
Init ==
  /\ bills = [b \in Bills |-> IF b = 1 THEN "ready" ELSE "completed"]
  /\ tokens = [b \in Bills |-> NoToken] /\ reviews = [b \in Bills |-> 0]
  /\ records = [c \in Tills |-> [b \in Bills |-> 0]] /\ made = <<>>
  /\ codes = {} /\ events = 0
  /\ issues = [c \in Tills |-> NoIssue]
  /\ till = [section |-> "today", filter |-> "unpaid", rows |-> {}, paid |-> {}, bill |-> 0,
             status |-> "ready", paying |-> FALSE, recorded |-> FALSE, qr |-> 0]
  /\ pages = [p \in Phones |-> NoPage]

AtTheTill ==
  \/ Poll \/ CloseBill \/ pay \/ PayCommits \/ PayLosesAnswer \/ PayRefused
  \/ \E s \in Sections : PickSection(s)
  \/ \E f \in {"unpaid", "paid"} : PickFilter(f)
  \/ \E b \in Bills : openBill(b)

Issuing ==
  \/ \E c \in Tills : \/ Look(c) \/ LookFails(c) \/ Command(c) \/ Rotate(c) \/ IssueFails(c)
                      \/ ColleagueDeleted(c)
                      \/ \E b \in Bills : ColleagueOpens(c, b)
  \/ \E b \in Bills : ColleaguePays(b) \/ Expires(b)

AtTheTable ==
  \E p \in Phones : \/ \E code \in codes : Scan(p, code)
                    \/ InfoAnswers(p) \/ submit(p) \/ Check(p)
                    \/ Received(p) \/ ReceiptLost(p) \/ NotReceived(p)

Next == AtTheTill \/ Issuing \/ AtTheTable

Spec == Init /\ [][Next]_vars

-----------------------------------------------------------------------------
\* A receipt is reviewed at most once, a reviewed receipt has no good link, and
\* a guest whose page says so has been heard, however the link was rotated,
\* reopened or sent again meanwhile (issue_token against submit).
ReviewOnce ==
  /\ \A b \in Bills : reviews[b] = IF tokens[b].used THEN 1 ELSE 0
  /\ \A p \in Phones : pages[p].step = "done" => reviews[made[pages[p].code]] = 1

\* The code on a receipt is a token of that receipt, which was paid (the effect
\* that asks for it and forgets the answer of another).
CodeOfReceipt ==
  till.qr # 0 => made[till.qr] = till.bill /\ bills[till.bill] = "completed"

=============================================================================
