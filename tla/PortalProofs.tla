----------------------------- MODULE PortalProofs -----------------------------
(***************************************************************************)
(* What holds of the desks holds in the portal: no other desk touches the  *)
(* tables of the one that is open.  The receipts, the covered days, the    *)
(* questions to the assistant, the orders, the expenses, the forecasts and *)
(* the sessions are proved about here, on the portal's own instances: what *)
(* each of them keeps, and then the bounds of its counters, which its      *)
(* types need.                                                             *)
(*                                                                         *)
(* Modules DecisionProofs, FloorProofs and AccountProofs prove about the   *)
(* other three.  The portal names the actions of such a desk through one   *)
(* instance, the proofs through another; two lemmas say that they are the  *)
(* same.  Those instances come last: every proof below them sees all that  *)
(* they bring in, and takes longer for it.                                 *)
(***************************************************************************)
EXTENDS Portal, SequenceTheorems, FiniteSetTheorems, TLAPS

\* The receipts.  Every number that the tables, the answers under way and the pages
\* hold is the place of a token in links, and that of the receipt they hold it for
\* (CodesMade), and the answer the till waits for is about the receipt on its
\* screen (IssueFits).
LinkRows == [code : Nat, used : BOOLEAN, expired : BOOLEAN]
Issues == [step : {"none", "look", "command", "rotate"}, bill : Bills \cup {0}, active : BOOLEAN]
PageSteps == {"none", "opening", "form", "checking", "sending", "refused", "done"}
GuestPages == [step : PageSteps, code : Nat]
TillShape(t) ==
  t \in [section : {t.section}, filter : {t.filter}, rows : {t.rows}, paid : {t.paid},
         bill : Bills \cup {0}, status : {"ready", "completed"}, paying : BOOLEAN,
         recorded : BOOLEAN, qr : Nat]

LinksTyped ==
  /\ bills \in [Bills -> {"ready", "completed"}]
  /\ tokens \in [Bills -> LinkRows]
  /\ reviews \in [Bills -> Nat]
  /\ records \in [Tills -> [Bills -> Nat]]
  /\ links \in Seq(Bills)
ReceiptScreens ==
  /\ codes \subseteq Nat
  /\ issues \in [Tills -> Issues]
  /\ pages \in [Phones -> GuestPages]
  /\ TillShape(till)

\* Every number that was handed out is the place of a token in links.
CodesMade ==
  /\ \A n \in codes : n \in 1 .. Len(links)
  /\ \A c \in Tills, b \in Bills : records[c][b] # 0 => records[c][b] <= Len(links) /\ links[records[c][b]] = b
  /\ \A p \in Phones : pages[p].step # "none" => pages[p].code \in 1 .. Len(links)
  /\ till.qr <= Len(links)

\* A code is asked for once the receipt is paid, and the one that is waited for
\* is of the receipt on the screen.
IssueFits ==
  /\ \A c \in Tills : issues[c].step # "none" => issues[c].bill \in Bills /\ bills[issues[c].bill] = "completed"
  /\ issues[Own].step # "none" /\ issues[Own].active => till.bill = issues[Own].bill
  /\ till.paying => till.bill \in Bills

ReceiptInv == LinksTyped /\ ReceiptScreens /\ CodesMade /\ IssueFits /\ Receipts!ReviewOnce /\ Receipts!CodeOfReceipt

-----------------------------------------------------------------------------
\* Bookkeeping: one entry of the answers under way, of the pages, of links.
LEMMA IssueEnds ==
  ASSUME ReceiptScreens, NEW c \in Tills, NEW x \in Issues, issues' = [issues EXCEPT ![c] = x]
  PROVE  /\ issues' \in [Tills -> Issues] /\ issues'[c] = x
         /\ \A d \in Tills : d # c => issues'[d] = issues[d]
BY DEF ReceiptScreens

LEMMA IssueSteps ==
  ASSUME ReceiptScreens, NEW c \in Tills, NEW s \in {"look", "command", "rotate"}, Receipts!Step(c, s)
  PROVE  /\ issues' \in [Tills -> Issues]
         /\ issues'[c].bill = issues[c].bill /\ issues'[c].active = issues[c].active
         /\ \A d \in Tills : d # c => issues'[d] = issues[d]
BY DEF ReceiptScreens, Receipts!Step, Issues

LEMMA PageTurned ==
  ASSUME ReceiptScreens, NEW p \in Phones, NEW s \in PageSteps, pages' = [pages EXCEPT ![p].step = s]
  PROVE  /\ pages' \in [Phones -> GuestPages] /\ pages'[p].step = s /\ pages'[p].code = pages[p].code
         /\ \A q \in Phones : q # p => pages'[q] = pages[q]
BY DEF ReceiptScreens, GuestPages

LEMMA OneMoreCode ==
  ASSUME LinksTyped, NEW b \in Bills, Receipts!NewCode(b)
  PROVE  /\ links' \in Seq(Bills) /\ Len(links') = Len(links) + 1 /\ links'[Len(links) + 1] = b
         /\ \A n \in 1 .. Len(links) : links'[n] = links[n]
         /\ tokens' \in [Bills -> LinkRows] /\ ~tokens'[b].used
         /\ \A a \in Bills : a # b => tokens'[a] = tokens[a]
BY DEF LinksTyped, Receipts!NewCode, LinkRows

-----------------------------------------------------------------------------
\* The screen of the till, when no answer comes and none is asked for.
LEMMA ScreenOnly ==
  ASSUME ReceiptInv, UNCHANGED <<Receipts!Server, codes, issues, pages>>, TillShape(till'),
         till'.bill = till.bill, till'.qr = till.qr,
         till'.paying => till.paying \/ till.bill \in Bills
  PROVE  ReceiptInv'
BY DEF ReceiptInv, LinksTyped, ReceiptScreens, CodesMade, IssueFits, Receipts!ReviewOnce,
    Receipts!CodeOfReceipt, Receipts!Server

\* A receipt is opened, or becomes paid: its code is asked for.
LEMMA CodeAsked ==
  ASSUME ReceiptInv, Own \in Tills, NEW b \in Bills, bills' \in [Bills -> {"ready", "completed"}],
         \A a \in Bills : bills[a] = "completed" => bills'[a] = "completed",
         bills'[b] = "completed", issues[Own] = Receipts!NoIssue,
         issues' = [issues EXCEPT ![Own] = Receipts!StartIssue(b)],
         TillShape(till'), till'.bill = b, ~till'.paying, till'.qr # 0 => till'.qr = till.qr /\ till.bill = b,
         UNCHANGED <<tokens, reviews, records, links, codes, pages>>
  PROVE  ReceiptInv'
<1>1. Receipts!StartIssue(b) \in Issues BY DEF Receipts!StartIssue, Issues
<1>2. /\ issues' \in [Tills -> Issues] /\ issues'[Own] = Receipts!StartIssue(b)
      /\ \A d \in Tills : d # Own => issues'[d] = issues[d]
  BY <1>1, IssueEnds DEF ReceiptInv
<1>3. LinksTyped' /\ ReceiptScreens' BY <1>2 DEF ReceiptInv, LinksTyped, ReceiptScreens
<1>4. CodesMade' BY DEF ReceiptInv, CodesMade
<1>5. IssueFits' BY <1>2 DEF ReceiptInv, IssueFits, Receipts!StartIssue
<1>6. Receipts!ReviewOnce' BY DEF ReceiptInv, Receipts!ReviewOnce
<1>7. Receipts!CodeOfReceipt' BY DEF ReceiptInv, Receipts!CodeOfReceipt, LinksTyped
<1> QED BY <1>3, <1>4, <1>5, <1>6, <1>7 DEF ReceiptInv

\* A code of the receipt comes to the till that asked for it.
LEMMA CodeCame ==
  ASSUME ReceiptInv, Own \in Tills, 0 \notin Bills, NEW c \in Tills, issues[c].step # "none",
         LinksTyped', NEW code \in Nat \ {0}, Receipts!Delivers(c, code),
         code <= Len(links'), links'[code] = issues[c].bill, Len(links) <= Len(links'),
         \A n \in 1 .. Len(links) : links'[n] = links[n],
         \A d \in Tills, b \in Bills : records'[d][b] # 0 =>
           records'[d][b] <= Len(links') /\ links'[records'[d][b]] = b,
         \A b \in Bills : tokens'[b].used = tokens[b].used,
         UNCHANGED <<bills, reviews, pages>>
  PROVE  ReceiptInv'
<1>1. Receipts!NoIssue \in Issues BY DEF Receipts!NoIssue, Issues
<1>2. /\ issues' \in [Tills -> Issues] /\ issues'[c] = Receipts!NoIssue
      /\ \A d \in Tills : d # c => issues'[d] = issues[d]
  BY <1>1, IssueEnds DEF ReceiptInv, Receipts!Delivers
<1>3. \/ till' = till
      \/ c = Own /\ issues[c].active /\ till' = [till EXCEPT !.qr = code]
  BY DEF Receipts!Delivers
<1>4. codes' \subseteq codes \cup {code} BY DEF Receipts!Delivers
<1>5. TillShape(till') /\ till'.bill = till.bill /\ till'.paying = till.paying
      /\ (till'.qr = till.qr \/ till'.qr = code)
  BY <1>3 DEF ReceiptInv, ReceiptScreens, TillShape
<1>6. ReceiptScreens' BY <1>2, <1>4, <1>5 DEF ReceiptInv, ReceiptScreens
<1>7. CodesMade'
  <2>7. links \in Seq(Bills) /\ links' \in Seq(Bills) BY DEF ReceiptInv, LinksTyped
  <2>1. Len(links) \in Nat /\ Len(links') \in Nat BY <2>7
  <2>6. code \in 1 .. Len(links') BY <2>1
  <2>2. \A n \in codes' : n \in 1 .. Len(links')
    BY <1>4, <2>6, <2>1 DEF ReceiptInv, CodesMade
  <2>3. \A p \in Phones : pages'[p].step # "none" => pages'[p].code \in 1 .. Len(links')
    BY <2>1 DEF ReceiptInv, CodesMade
  <2>4. till.qr \in Nat BY DEF ReceiptInv, ReceiptScreens, TillShape
  <2>5. till'.qr <= Len(links') BY <1>5, <2>1, <2>4 DEF ReceiptInv, CodesMade
  <2> QED BY <2>2, <2>3, <2>5 DEF CodesMade
<1>8. IssueFits' BY <1>2, <1>5 DEF ReceiptInv, IssueFits, Receipts!NoIssue
<1>9. Receipts!ReviewOnce' BY DEF ReceiptInv, Receipts!ReviewOnce, CodesMade
<1>10. Receipts!CodeOfReceipt'
  <2>1. CASE till' = till
    <3>1. till.qr \in Nat /\ Len(links) \in Nat
      BY DEF ReceiptInv, ReceiptScreens, LinksTyped, TillShape
    <3>2. till.qr # 0 => links'[till.qr] = links[till.qr] BY <3>1 DEF ReceiptInv, CodesMade
    <3> QED BY <2>1, <3>2 DEF ReceiptInv, Receipts!CodeOfReceipt
  <2>2. CASE c = Own /\ issues[c].active /\ till' = [till EXCEPT !.qr = code]
    BY <2>2, <1>5 DEF ReceiptInv, Receipts!CodeOfReceipt, IssueFits, ReceiptScreens,
        TillShape
  <2> QED BY <1>3, <2>1, <2>2
<1> QED BY <1>6, <1>7, <1>8, <1>9, <1>10 DEF ReceiptInv

\* An answer is awaited for another step, or given up.
LEMMA IssueGoesOn ==
  ASSUME ReceiptInv, Own \in Tills, NEW c \in Tills, NEW s \in {"look", "command", "rotate"}, Receipts!Step(c, s),
         issues[c].step # "none", UNCHANGED <<Receipts!Server, codes, till, pages>>
  PROVE  ReceiptInv'
<1>1. /\ issues' \in [Tills -> Issues]
      /\ issues'[c].bill = issues[c].bill /\ issues'[c].active = issues[c].active
      /\ \A d \in Tills : d # c => issues'[d] = issues[d]
  BY IssueSteps DEF ReceiptInv
<1>2. IssueFits' BY <1>1 DEF ReceiptInv, IssueFits, Receipts!Server
<1> QED
  BY <1>1, <1>2 DEF ReceiptInv, LinksTyped, ReceiptScreens, CodesMade,
         Receipts!ReviewOnce, Receipts!CodeOfReceipt, Receipts!Server

LEMMA IssueGivenUp ==
  ASSUME ReceiptInv, NEW c \in Tills, Receipts!Fails(c), UNCHANGED <<Receipts!Server, pages>>
  PROVE  ReceiptInv'
<1>1. Receipts!NoIssue \in Issues BY DEF Receipts!NoIssue, Issues
<1>2. /\ issues' \in [Tills -> Issues] /\ issues'[c] = Receipts!NoIssue
      /\ \A d \in Tills : d # c => issues'[d] = issues[d]
  BY <1>1, IssueEnds DEF ReceiptInv, Receipts!Fails
<1>3. IssueFits'
  BY <1>2 DEF ReceiptInv, IssueFits, Receipts!Server, Receipts!Fails, Receipts!NoIssue
<1> QED
  BY <1>2, <1>3 DEF ReceiptInv, LinksTyped, ReceiptScreens, CodesMade,
         Receipts!ReviewOnce, Receipts!CodeOfReceipt, Receipts!Server, Receipts!Fails

\* A guest's page goes on, and a review is received.
LEMMA PageGoesOn ==
  ASSUME ReceiptInv, NEW p \in Phones, pages[p].step # "none",
         NEW s \in PageSteps \ {"none", "done"}, Receipts!Turns(p, s), UNCHANGED <<tokens, reviews>>
  PROVE  ReceiptInv'
<1>1. /\ pages' \in [Phones -> GuestPages] /\ pages'[p].step = s /\ pages'[p].code = pages[p].code
      /\ \A q \in Phones : q # p => pages'[q] = pages[q]
  BY PageTurned DEF ReceiptInv, Receipts!Turns
<1>2. CodesMade' BY <1>1 DEF ReceiptInv, CodesMade, Receipts!Turns
<1>3. Receipts!ReviewOnce' BY <1>1 DEF ReceiptInv, Receipts!ReviewOnce, Receipts!Turns
<1> QED
  BY <1>1, <1>2, <1>3 DEF ReceiptInv, LinksTyped, ReceiptScreens, IssueFits,
         Receipts!CodeOfReceipt, Receipts!Turns

LEMMA ReviewReceived ==
  ASSUME ReceiptInv, NEW p \in Phones, pages[p].step = "sending", Receipts!review_submit(p),
         NEW s \in {"form", "done"}, Receipts!Turns(p, s)
  PROVE  ReceiptInv'
<1> DEFINE b == links[pages[p].code]
<1>1. b \in Bills BY DEF ReceiptInv, CodesMade, LinksTyped
<1>2. /\ pages' \in [Phones -> GuestPages] /\ pages'[p].step = s /\ pages'[p].code = pages[p].code
      /\ \A q \in Phones : q # p => pages'[q] = pages[q]
  BY PageTurned DEF ReceiptInv, Receipts!Turns, PageSteps
<1>3. /\ tokens' \in [Bills -> LinkRows] /\ tokens'[b].used /\ reviews' \in [Bills -> Nat] /\ reviews'[b] = 1
      /\ \A a \in Bills : a # b => tokens'[a] = tokens[a] /\ reviews'[a] = reviews[a]
  <2>1. tokens[b] \in LinkRows /\ tokens \in [Bills -> LinkRows] /\ reviews \in [Bills -> Nat]
    BY <1>1 DEF ReceiptInv, LinksTyped
  <2>2. tokens' = [tokens EXCEPT ![b].used = TRUE] /\ reviews' = [reviews EXCEPT ![b] = @ + 1] /\ reviews[b] = 0
    BY DEF Receipts!review_submit
  <2>3. [tokens[b] EXCEPT !.used = TRUE] \in LinkRows /\ [tokens[b] EXCEPT !.used = TRUE].used
    BY <2>1 DEF LinkRows
  <2> HIDE DEF b
  <2>4. /\ tokens' \in [Bills -> LinkRows] /\ tokens'[b].used
        /\ \A a \in Bills : a # b => tokens'[a] = tokens[a]
    BY <1>1, <2>1, <2>2, <2>3
  <2> QED BY <1>1, <2>1, <2>2, <2>4
<1>4. LinksTyped' /\ ReceiptScreens'
  BY <1>2, <1>3 DEF ReceiptInv, LinksTyped, ReceiptScreens, Receipts!Turns
<1>5. CodesMade' BY <1>2 DEF ReceiptInv, CodesMade, Receipts!Turns
<1>6. Receipts!ReviewOnce'
  <2>1. \A a \in Bills : reviews'[a] = IF tokens'[a].used THEN 1 ELSE 0
    BY <1>3 DEF ReceiptInv, Receipts!ReviewOnce
  <2>2. \A q \in Phones : pages'[q].step = "done" => reviews'[links'[pages'[q].code]] = 1
    <3> SUFFICES ASSUME NEW q \in Phones, pages'[q].step = "done"
                 PROVE  reviews'[links[pages'[q].code]] = 1
      BY DEF Receipts!Turns
    <3>1. CASE q = p BY <3>1, <1>2, <1>3
    <3>2. CASE q # p
      <4>1. pages[q].code \in 1 .. Len(links) BY <3>2, <1>2 DEF ReceiptInv, CodesMade
      <4>2. links[pages[q].code] \in Bills BY <4>1 DEF ReceiptInv, LinksTyped
      <4>3. reviews[links[pages[q].code]] = 1
        BY <3>2, <1>2 DEF ReceiptInv, Receipts!ReviewOnce
      <4> QED BY <3>2, <4>2, <4>3, <1>2, <1>3
    <3> QED BY <3>1, <3>2
  <2> QED BY <2>1, <2>2 DEF Receipts!ReviewOnce
<1> QED
  BY <1>4, <1>5, <1>6 DEF ReceiptInv, IssueFits, Receipts!CodeOfReceipt, Receipts!Turns

-----------------------------------------------------------------------------
LEMMA FirstReceipts ==
  ASSUME Receipts!Init, Own \in Tills, 0 \notin Bills
  PROVE  ReceiptInv
BY DEF Receipts!Init, ReceiptInv, LinksTyped, ReceiptScreens, CodesMade, IssueFits,
    Receipts!ReviewOnce, Receipts!CodeOfReceipt, LinkRows,
       Issues, GuestPages, PageSteps, TillShape, Receipts!NoToken, Receipts!NoIssue, Receipts!NoPage

LEMMA TillStep ==
  ASSUME ReceiptInv, Receipts!AtTheTill, Own \in Tills, 0 \notin Bills
  PROVE  ReceiptInv'
<1>1. CASE Receipts!Poll
  BY <1>1, ScreenOnly DEF Receipts!Poll, Receipts!Listed, ReceiptInv, ReceiptScreens,
         TillShape
<1>2. ASSUME NEW s \in Receipts!Sections, Receipts!PickSection(s) PROVE ReceiptInv'
  BY <1>2, ScreenOnly DEF Receipts!PickSection, Receipts!Listed, ReceiptInv,
      ReceiptScreens, TillShape
<1>3. ASSUME NEW f \in {"unpaid", "paid"}, Receipts!PickFilter(f) PROVE ReceiptInv'
  BY <1>3, ScreenOnly DEF Receipts!PickFilter, Receipts!Listed, ReceiptInv,
      ReceiptScreens, TillShape
<1>4. ASSUME NEW b \in Bills, Receipts!openBill(b) PROVE ReceiptInv'
  <2>1. till' = [till EXCEPT !.bill = b, !.status = bills[b], !.qr = 0, !.recorded = FALSE]
    BY <1>4 DEF Receipts!openBill, Receipts!Shows, Receipts!ReceiptOf
  <2>2. bills[b] \in {"ready", "completed"} BY DEF ReceiptInv, LinksTyped
  <2>3. TillShape(till') /\ till'.bill = b /\ till'.qr = 0 /\ till'.paying = till.paying
    BY <2>1, <2>2 DEF ReceiptInv, ReceiptScreens, TillShape
  <2>4. ~till.paying BY <1>4 DEF Receipts!openBill, Receipts!Free, ReceiptInv, IssueFits
  <2>5. UNCHANGED <<Receipts!Server, codes, pages>> BY <1>4 DEF Receipts!openBill
  <2>6. CASE bills[b] = "completed"
    BY <1>4, <2>3, <2>4, <2>5, <2>6, CodeAsked DEF Receipts!openBill, Receipts!Shows,
        Receipts!ReceiptOf, Receipts!Server, ReceiptInv, LinksTyped
  <2>7. CASE bills[b] # "completed"
    <3>1. UNCHANGED issues
      BY <1>4, <2>7 DEF Receipts!openBill, Receipts!Shows, Receipts!ReceiptOf
    <3> QED BY <1>4, <2>3, <2>4, <2>5, <3>1
        DEF Receipts!openBill, Receipts!Free, ReceiptInv, LinksTyped, ReceiptScreens,
            CodesMade, IssueFits, Receipts!ReviewOnce, Receipts!CodeOfReceipt,
            Receipts!Server
  <2> QED BY <2>6, <2>7
<1>5. CASE Receipts!CloseBill
  <2>1. TillShape(till') /\ till'.qr = 0 /\ till'.paying = till.paying
    BY <1>5 DEF Receipts!CloseBill, ReceiptInv, ReceiptScreens, TillShape
  <2>2. [issues[Own] EXCEPT !.active = FALSE] \in Issues
    BY DEF ReceiptInv, ReceiptScreens, Issues
  <2>3. /\ issues' \in [Tills -> Issues] /\ issues'[Own] = [issues[Own] EXCEPT !.active = FALSE]
        /\ \A d \in Tills : d # Own => issues'[d] = issues[d]
    BY <1>5, <2>2 DEF Receipts!CloseBill, ReceiptInv, ReceiptScreens
  <2>4. issues'[Own].step = issues[Own].step /\ issues'[Own].bill = issues[Own].bill /\ ~issues'[Own].active
    BY <2>3 DEF ReceiptInv, ReceiptScreens, Issues
  <2>5. IssueFits'
    BY <1>5, <2>1, <2>3, <2>4 DEF Receipts!CloseBill, ReceiptInv, IssueFits, Receipts!Server
  <2> QED BY <1>5, <2>1, <2>3, <2>5
      DEF Receipts!CloseBill, ReceiptInv, LinksTyped, ReceiptScreens, CodesMade,
          Receipts!ReviewOnce, Receipts!CodeOfReceipt, Receipts!Server
<1>6. CASE Receipts!pay
  <2>1. till.bill \in Bills BY <1>6 DEF Receipts!pay, ReceiptInv, ReceiptScreens, TillShape
  <2> QED BY <1>6, <2>1, ScreenOnly DEF Receipts!pay, ReceiptInv, ReceiptScreens, TillShape
<1>7. CASE Receipts!PayCommits
  <2>1. till.bill \in Bills BY <1>7 DEF Receipts!PayCommits, ReceiptInv, IssueFits
  <2>2. TillShape(till') /\ till'.bill = till.bill /\ till'.qr = till.qr /\ ~till'.paying
    BY <1>7 DEF Receipts!PayCommits, Receipts!Paid, ReceiptInv, ReceiptScreens, TillShape
  <2>3. /\ bills' \in [Bills -> {"ready", "completed"}] /\ bills'[till.bill] = "completed"
        /\ \A a \in Bills : bills[a] = "completed" => bills'[a] = "completed"
    BY <1>7, <2>1 DEF Receipts!PayCommits, ReceiptInv, LinksTyped
  <2> QED BY <1>7, <2>1, <2>2, <2>3, CodeAsked DEF Receipts!PayCommits, Receipts!Paid
<1>8. CASE Receipts!PayLosesAnswer
  <2>1. till.bill \in Bills BY <1>8 DEF Receipts!PayLosesAnswer, ReceiptInv, IssueFits
  <2>2. TillShape(till') /\ till'.bill = till.bill /\ till'.qr = till.qr /\ ~till'.paying
    BY <1>8 DEF Receipts!PayLosesAnswer, ReceiptInv, ReceiptScreens, TillShape
  <2>3. /\ bills' \in [Bills -> {"ready", "completed"}]
        /\ \A a \in Bills : bills[a] = "completed" => bills'[a] = "completed"
    BY <1>8, <2>1 DEF Receipts!PayLosesAnswer, ReceiptInv, LinksTyped
  <2>4. Receipts!CodeOfReceipt'
    BY <1>8, <2>1, <2>2, <2>3 DEF Receipts!PayLosesAnswer, ReceiptInv,
           Receipts!CodeOfReceipt
  <2>5. IssueFits' BY <1>8, <2>2, <2>3 DEF Receipts!PayLosesAnswer, ReceiptInv, IssueFits
  <2> QED BY <1>8, <2>2, <2>3, <2>4, <2>5
      DEF Receipts!PayLosesAnswer, ReceiptInv, LinksTyped, ReceiptScreens, CodesMade,
          Receipts!ReviewOnce
<1>9. CASE Receipts!PayRefused
  <2>1. till.bill \in Bills BY <1>9 DEF Receipts!PayRefused, ReceiptInv, IssueFits
  <2>2. TillShape(till') /\ till'.bill = till.bill /\ till'.qr = till.qr /\ ~till'.paying
    BY <1>9 DEF Receipts!PayRefused, ReceiptInv, ReceiptScreens, TillShape
  <2> QED
    BY <1>9, <2>1, <2>2, CodeAsked DEF Receipts!PayRefused, Receipts!Server, ReceiptInv,
           LinksTyped
<1> QED BY <1>1, <1>2, <1>3, <1>4, <1>5, <1>6, <1>7, <1>8, <1>9 DEF Receipts!AtTheTill

LEMMA IssuingStep ==
  ASSUME ReceiptInv, Receipts!Issuing, Own \in Tills, 0 \notin Bills
  PROVE  ReceiptInv'
<1>1. ASSUME NEW c \in Tills, Receipts!Look(c) PROVE ReceiptInv'
  <2> DEFINE b == issues[c].bill
  <2>1. issues[c].step # "none" BY <1>1 DEF Receipts!Look
  <2>2. b \in Bills BY <2>1 DEF ReceiptInv, IssueFits
  <2>3. CASE Receipts!RecordedFor(b) = {} BY <1>1, <2>1, <2>3, IssueGoesOn DEF Receipts!Look
  <2>4. CASE Receipts!RecordedFor(b) # {}
    <3>1. PICK n \in Receipts!RecordedFor(b) : Receipts!Delivers(c, n)
      BY <1>1, <2>4 DEF Receipts!Look
    <3>2. PICK d \in Tills : n = records[d][b] /\ n # 0 BY DEF Receipts!RecordedFor
    <3>3. n \in Nat \ {0} /\ n <= Len(links) /\ links[n] = b
      BY <2>2, <3>2 DEF ReceiptInv, LinksTyped, CodesMade
    <3>4. LinksTyped' /\ UNCHANGED <<bills, reviews, pages, tokens, records, links>>
      BY <1>1 DEF Receipts!Look, Receipts!Server, ReceiptInv, LinksTyped
    <3>5. Len(links) \in Nat BY DEF ReceiptInv, LinksTyped
    <3> QED BY <2>1, <3>1, <3>3, <3>4, <3>5, CodeCame DEF ReceiptInv, CodesMade
  <2> QED BY <2>3, <2>4
<1>2. ASSUME NEW c \in Tills, Receipts!LookFails(c) PROVE ReceiptInv'
  BY <1>2, IssueGoesOn DEF Receipts!LookFails
<1>3. ASSUME NEW c \in Tills, Receipts!Command(c) PROVE ReceiptInv'
  <2> DEFINE b == issues[c].bill
  <2>1. issues[c].step # "none" BY <1>3 DEF Receipts!Command
  <2>2. b \in Bills BY <2>1 DEF ReceiptInv, IssueFits
  <2>3. UNCHANGED <<bills, reviews, pages>> BY <1>3 DEF Receipts!Command
  <2>4. CASE records[c][b] # 0
    <3>1. Receipts!Delivers(c, records[c][b]) /\ UNCHANGED <<tokens, records, links>>
      BY <1>3, <2>4 DEF Receipts!Command
    <3>2. records[c][b] \in Nat \ {0} /\ records[c][b] <= Len(links) /\ links[records[c][b]] = b
      BY <2>2, <2>4 DEF ReceiptInv, LinksTyped, CodesMade
    <3>3. LinksTyped' /\ Len(links) \in Nat BY <2>3, <3>1 DEF ReceiptInv, LinksTyped
    <3> QED BY <2>1, <2>3, <3>1, <3>2, <3>3, CodeCame DEF ReceiptInv, CodesMade
  <2>5. CASE records[c][b] = 0 /\ tokens[b] # Receipts!NoToken
    BY <1>3, <2>1, <2>5, IssueGoesOn DEF Receipts!Command, Receipts!Server
  <2>6. CASE records[c][b] = 0 /\ tokens[b] = Receipts!NoToken
    <3>1. /\ Receipts!NewCode(b) /\ Receipts!Delivers(c, Len(links) + 1)
          /\ records' = [records EXCEPT ![c][b] = Len(links) + 1]
      BY <1>3, <2>6 DEF Receipts!Command
    <3>2. /\ links' \in Seq(Bills) /\ Len(links') = Len(links) + 1 /\ links'[Len(links) + 1] = b
          /\ \A n \in 1 .. Len(links) : links'[n] = links[n]
          /\ tokens' \in [Bills -> LinkRows] /\ ~tokens'[b].used
          /\ \A a \in Bills : a # b => tokens'[a] = tokens[a]
      BY <2>2, <3>1, OneMoreCode DEF ReceiptInv
    <3>3. Len(links) \in Nat BY DEF ReceiptInv, LinksTyped
    <3>4. /\ records' \in [Tills -> [Bills -> Nat]] /\ records'[c][b] = Len(links) + 1
          /\ \A d \in Tills, a \in Bills : d # c \/ a # b => records'[d][a] = records[d][a]
      BY <2>2, <3>1, <3>3 DEF ReceiptInv, LinksTyped
    <3>5. LinksTyped' BY <2>3, <3>2, <3>4 DEF ReceiptInv, LinksTyped
    <3>6. \A d \in Tills, a \in Bills : records'[d][a] # 0 =>
            records'[d][a] <= Len(links') /\ links'[records'[d][a]] = a
      <4> SUFFICES ASSUME NEW d \in Tills, NEW a \in Bills, records'[d][a] # 0
                   PROVE  records'[d][a] <= Len(links') /\ links'[records'[d][a]] = a
        OBVIOUS
      <4>1. CASE d = c /\ a = b BY <4>1, <3>2, <3>3, <3>4
      <4>2. CASE d # c \/ a # b
        <5>1. records[d][a] \in Nat /\ records'[d][a] = records[d][a]
          BY <4>2, <3>4 DEF ReceiptInv, LinksTyped
        <5>2. records[d][a] \in 1 .. Len(links) /\ links[records[d][a]] = a
          BY <5>1, <3>3 DEF ReceiptInv, CodesMade
        <5> QED BY <5>1, <5>2, <3>2, <3>3
      <4> QED BY <4>1, <4>2
    <3>7. \A a \in Bills : tokens'[a].used = tokens[a].used
      <4>1. tokens[b].used = FALSE BY <2>6 DEF Receipts!NoToken
      <4>2. tokens'[b].used = FALSE BY <2>2, <3>2 DEF LinkRows
      <4> QED BY <3>2, <4>1, <4>2
    <3> DEFINE new == Len(links) + 1
    <3>8. /\ new \in Nat \ {0} /\ new <= Len(links') /\ Len(links) <= Len(links')
          /\ links'[new] = issues[c].bill /\ Receipts!Delivers(c, new)
      BY <3>1, <3>2, <3>3
    <3>9. \A n \in 1 .. Len(links) : links'[n] = links[n] BY <3>2
    <3> HIDE DEF new
    <3> QED BY <2>1, <2>3, <3>5, <3>6, <3>7, <3>8, <3>9, CodeCame
  <2> QED BY <2>4, <2>5, <2>6
<1>4. ASSUME NEW c \in Tills, Receipts!Rotate(c) PROVE ReceiptInv'
  <2> DEFINE b == issues[c].bill
  <2>1. issues[c].step # "none" BY <1>4 DEF Receipts!Rotate
  <2>2. b \in Bills BY <2>1 DEF ReceiptInv, IssueFits
  <2>3. UNCHANGED <<bills, reviews, records, pages>> BY <1>4 DEF Receipts!Rotate
  <2>4. CASE Receipts!MayRotate(b)
    <3>1. Receipts!NewCode(b) /\ Receipts!Delivers(c, Len(links) + 1)
      BY <1>4, <2>4 DEF Receipts!Rotate
    <3>2. /\ links' \in Seq(Bills) /\ Len(links') = Len(links) + 1 /\ links'[Len(links) + 1] = b
          /\ \A n \in 1 .. Len(links) : links'[n] = links[n]
          /\ tokens' \in [Bills -> LinkRows] /\ ~tokens'[b].used
          /\ \A a \in Bills : a # b => tokens'[a] = tokens[a]
      BY <2>2, <3>1, OneMoreCode DEF ReceiptInv
    <3>3. Len(links) \in Nat BY DEF ReceiptInv, LinksTyped
    <3>5. LinksTyped' BY <2>3, <3>2 DEF ReceiptInv, LinksTyped
    <3>6. \A d \in Tills, a \in Bills : records'[d][a] # 0 =>
            records'[d][a] <= Len(links') /\ links'[records'[d][a]] = a
      <4> SUFFICES ASSUME NEW d \in Tills, NEW a \in Bills, records[d][a] # 0
                   PROVE  records[d][a] <= Len(links') /\ links'[records[d][a]] = a
        BY <2>3
      <4>1. records[d][a] \in 1 .. Len(links) /\ links[records[d][a]] = a
        BY <3>3 DEF ReceiptInv, LinksTyped, CodesMade
      <4> QED BY <4>1, <3>2, <3>3
    <3>7. \A a \in Bills : tokens'[a].used = tokens[a].used
      <4>1. tokens[b].used = FALSE
        BY <2>2, <2>4 DEF ReceiptInv, LinksTyped, LinkRows, Receipts!MayRotate
      <4>2. tokens'[b].used = FALSE BY <2>2, <3>2 DEF LinkRows
      <4> QED BY <3>2, <4>1, <4>2
    <3> DEFINE new == Len(links) + 1
    <3>8. /\ new \in Nat \ {0} /\ new <= Len(links') /\ Len(links) <= Len(links')
          /\ links'[new] = issues[c].bill /\ Receipts!Delivers(c, new)
      BY <3>1, <3>2, <3>3
    <3>9. \A n \in 1 .. Len(links) : links'[n] = links[n] BY <3>2
    <3> HIDE DEF new
    <3> QED BY <2>1, <2>3, <3>5, <3>6, <3>7, <3>8, <3>9, CodeCame
  <2>5. CASE ~Receipts!MayRotate(b)
    BY <1>4, <2>5, IssueGivenUp DEF Receipts!Rotate, Receipts!Server
  <2> QED BY <2>4, <2>5
<1>5. ASSUME NEW c \in Tills, Receipts!IssueFails(c) PROVE ReceiptInv'
  BY <1>5, IssueGivenUp DEF Receipts!IssueFails
<1>6. ASSUME NEW c \in Tills, Receipts!ColleagueDeleted(c) PROVE ReceiptInv'
  <2>1. /\ records' \in [Tills -> [Bills -> Nat]]
        /\ \A d \in Tills, b \in Bills : records'[d][b] # 0 => records'[d][b] = records[d][b]
    BY <1>6 DEF Receipts!ColleagueDeleted, ReceiptInv, LinksTyped
  <2>2. CodesMade' BY <1>6, <2>1 DEF Receipts!ColleagueDeleted, ReceiptInv, CodesMade
  <2> QED BY <1>6, <2>1, <2>2
      DEF Receipts!ColleagueDeleted, ReceiptInv, LinksTyped, ReceiptScreens, IssueFits,
          Receipts!ReviewOnce, Receipts!CodeOfReceipt
<1>7. ASSUME NEW c \in Tills, NEW b \in Bills, Receipts!ColleagueOpens(c, b) PROVE ReceiptInv'
  <2>1. Receipts!StartIssue(b) \in Issues BY DEF Receipts!StartIssue, Issues
  <2>2. /\ issues' \in [Tills -> Issues] /\ issues'[c] = Receipts!StartIssue(b)
        /\ \A d \in Tills : d # c => issues'[d] = issues[d]
    BY <1>7, <2>1, IssueEnds DEF Receipts!ColleagueOpens, ReceiptInv
  <2>3. IssueFits'
    BY <1>7, <2>2 DEF Receipts!ColleagueOpens, ReceiptInv, IssueFits, Receipts!StartIssue,
           Receipts!Server
  <2> QED BY <1>7, <2>2, <2>3
      DEF Receipts!ColleagueOpens, ReceiptInv, LinksTyped, ReceiptScreens, CodesMade,
          Receipts!ReviewOnce, Receipts!CodeOfReceipt, Receipts!Server
<1>8. ASSUME NEW b \in Bills, Receipts!ColleaguePays(b) PROVE ReceiptInv'
  BY <1>8 DEF Receipts!ColleaguePays, ReceiptInv, LinksTyped, ReceiptScreens, CodesMade,
      IssueFits, Receipts!ReviewOnce, Receipts!CodeOfReceipt
<1>9. ASSUME NEW b \in Bills, Receipts!Expires(b) PROVE ReceiptInv'
  <2>1. [tokens[b] EXCEPT !.expired = TRUE] \in LinkRows /\ [tokens[b] EXCEPT !.expired = TRUE].used = tokens[b].used
    BY DEF ReceiptInv, LinksTyped, LinkRows
  <2>2. /\ tokens' \in [Bills -> LinkRows] /\ tokens'[b].used = tokens[b].used
        /\ \A a \in Bills : a # b => tokens'[a] = tokens[a]
    BY <1>9, <2>1 DEF Receipts!Expires, ReceiptInv, LinksTyped
  <2>3. Receipts!ReviewOnce'
    BY <1>9, <2>2 DEF Receipts!Expires, ReceiptInv, Receipts!ReviewOnce
  <2> QED BY <1>9, <2>2, <2>3
      DEF Receipts!Expires, ReceiptInv, LinksTyped, ReceiptScreens, CodesMade, IssueFits,
          Receipts!CodeOfReceipt
<1> QED BY <1>1, <1>2, <1>3, <1>4, <1>5, <1>6, <1>7, <1>8, <1>9 DEF Receipts!Issuing

LEMMA TableStep ==
  ASSUME ReceiptInv, Receipts!AtTheTable
  PROVE  ReceiptInv'
<1>1. ASSUME NEW p \in Phones, NEW code \in codes, Receipts!Scan(p, code) PROVE ReceiptInv'
  <2>1. [step |-> "opening", code |-> code] \in GuestPages
    BY DEF ReceiptInv, ReceiptScreens, GuestPages, PageSteps
  <2>2. /\ pages' \in [Phones -> GuestPages] /\ pages'[p] = [step |-> "opening", code |-> code]
        /\ \A q \in Phones : q # p => pages'[q] = pages[q]
    BY <1>1, <2>1 DEF Receipts!Scan, ReceiptInv, ReceiptScreens
  <2>3. CodesMade' BY <1>1, <2>2 DEF Receipts!Scan, Receipts!Server, ReceiptInv, CodesMade
  <2>4. Receipts!ReviewOnce'
    BY <1>1, <2>2 DEF Receipts!Scan, Receipts!Server, ReceiptInv, Receipts!ReviewOnce
  <2> QED
    BY <1>1, <2>2, <2>3, <2>4 DEF Receipts!Scan, Receipts!Server, ReceiptInv, LinksTyped,
           ReceiptScreens, IssueFits, Receipts!CodeOfReceipt
<1>2. ASSUME NEW p \in Phones, Receipts!InfoAnswers(p) PROVE ReceiptInv'
  BY <1>2, PageGoesOn DEF Receipts!InfoAnswers, PageSteps
<1>3. ASSUME NEW p \in Phones, Receipts!submit(p) PROVE ReceiptInv'
  BY <1>3, PageGoesOn DEF Receipts!submit, PageSteps
<1>4. ASSUME NEW p \in Phones, Receipts!Check(p) PROVE ReceiptInv'
  BY <1>4, PageGoesOn DEF Receipts!Check, PageSteps
<1>5. ASSUME NEW p \in Phones, Receipts!Received(p) PROVE ReceiptInv'
  BY <1>5, ReviewReceived DEF Receipts!Received
<1>6. ASSUME NEW p \in Phones, Receipts!ReceiptLost(p) PROVE ReceiptInv'
  BY <1>6, ReviewReceived DEF Receipts!ReceiptLost
<1>7. ASSUME NEW p \in Phones, Receipts!NotReceived(p) PROVE ReceiptInv'
  BY <1>7, PageGoesOn DEF Receipts!NotReceived, PageSteps
<1> QED BY <1>1, <1>2, <1>3, <1>4, <1>5, <1>6, <1>7 DEF Receipts!AtTheTable

LEMMA ReceiptSteps ==
  ASSUME ReceiptInv, Receipts!Next \/ UNCHANGED Receipts!vars, Own \in Tills, 0 \notin Bills
  PROVE  ReceiptInv'
<1>1. CASE Receipts!AtTheTill BY <1>1, TillStep
<1>2. CASE Receipts!Issuing BY <1>2, IssuingStep
<1>3. CASE Receipts!AtTheTable BY <1>3, TableStep
<1>4. CASE UNCHANGED Receipts!vars
  BY <1>4 DEF Receipts!vars, ReceiptInv, LinksTyped, ReceiptScreens, CodesMade, IssueFits,
      Receipts!ReviewOnce, Receipts!CodeOfReceipt
<1> QED BY <1>1, <1>2, <1>3, <1>4 DEF Receipts!Next

ReceiptsKept == desk = "receipts" => ReceiptInv

LEMMA ReceiptsInit ==
  ASSUME Init
  PROVE  ReceiptsKept
BY FirstReceipts, PortalAssumption DEF Init, ReceiptsKept

LEMMA ReceiptsNext ==
  ASSUME ReceiptsKept, [Next]_vars
  PROVE  ReceiptsKept'
<1>1. UNCHANGED desk
  BY DEF Next, vars, AtOrders, AtDecisions, AtForecasts, AtExpenses, AtReceipts, AtSessions,
         AtAccounts, AtFloorPlan, AtAssistant, AtDays
<1> SUFFICES ASSUME desk = "receipts" PROVE ReceiptInv'
  BY <1>1 DEF ReceiptsKept
<1>2. Receipts!Next \/ UNCHANGED <<ReceiptVars, events>>
  BY DEF Next, vars, AtOrders, AtDecisions, AtForecasts, AtExpenses, AtSessions, AtAccounts,
         AtFloorPlan, AtAssistant, AtDays
<1>3. Receipts!Next \/ UNCHANGED Receipts!vars
  BY <1>2 DEF ReceiptVars, Receipts!vars
<1> QED BY <1>3, ReceiptSteps, PortalAssumption DEF ReceiptsKept

LEMMA AlwaysReceiptsKept == Spec => []ReceiptsKept
<1>1. Init => ReceiptsKept BY ReceiptsInit
<1>2. ReceiptsKept /\ [Next]_vars => ReceiptsKept' BY ReceiptsNext
<1> QED BY <1>1, <1>2, PTL DEF Spec

\* In the portal: a receipt has one review at most, and a guest who was told so
\* was heard (issue_token against submit).
THEOREM PortalHasOneReview == Spec => []ReviewOnce
<1>1. ReceiptsKept => ReviewOnce
  BY DEF ReceiptsKept, ReviewOnce, Receipts!ReviewOnce, ReceiptInv
<1> QED BY <1>1, AlwaysReceiptsKept, PTL

\* In the portal: the code on the screen belongs to the paid receipt there (the
\* effect that asks for it).
THEOREM PortalShowsOwnCode == Spec => []CodeOfReceipt
<1>1. ReceiptsKept => CodeOfReceipt
  BY DEF ReceiptsKept, CodeOfReceipt, Receipts!CodeOfReceipt, ReceiptInv
<1> QED BY <1>1, AlwaysReceiptsKept, PTL

-----------------------------------------------------------------------------
\* The covered days.  A transaction about days knows what it has found on those it
\* has locked, and no other transaction has locked them.
DayTxns ==
  [kind : {"none", "day_close", "history_import", "order_pay"}, date : Int, days : SUBSET Days,
   locked : SUBSET Days, status : DayBook!Statuses \cup {"none"}, rows : DayBook!Files \cup {<<>>},
   looked : BOOLEAN, order : Bills \cup {0}]

DaysTyped ==
  /\ date \in Int
  /\ coverage \in [Days -> {DayBook!NoCoverage} \cup [source : {"live", "historical"}, status : DayBook!Statuses]]
  /\ imported \in [DayBook!Cells -> {DayBook!NoSale} \cup DayBook!Observations]
  /\ reporting \in [Slots -> DayTxns]

Reports(t) ==
  /\ t.kind = "day_close" => t.status \in DayBook!Statuses
  /\ t.kind = "history_import" => t.rows \in DayBook!Files /\ t.days = DayBook!DaysOf(t.rows)

FoundNoSales(t) ==
  t.kind = "history_import" => \A d \in t.locked : coverage[d].source # "live"

FoundNoConflict(t) ==
  t.kind = "history_import" /\ t.looked =>
    /\ t.locked = t.days
    /\ \A c \in DOMAIN t.rows :
         /\ imported[c] \in {DayBook!NoSale, t.rows[c]}
         /\ coverage[c[1]] \in {DayBook!NoCoverage, [source |-> "historical", status |-> t.rows[c].status]}
         /\ \A e \in DOMAIN t.rows : e[1] = c[1] => t.rows[e].status = t.rows[c].status

Knows(t) == Reports(t) /\ FoundNoSales(t) /\ FoundNoConflict(t)
Parted == \A j, k \in Slots : j # k => reporting[j].locked \cap reporting[k].locked = {}

DaysInv ==
  /\ DaysTyped /\ Parted
  /\ \A k \in Slots : Knows(reporting[k])
  /\ DayBook!OneSourcePerDay /\ DayBook!ToldIsStored
  /\ \A r \in told : r[1] \in DayBook!Cells /\ r[2] \in DayBook!Observations

LEMMA FileRows ==
  ASSUME NEW rows \in DayBook!Files
  PROVE  /\ DOMAIN rows \subseteq DayBook!Cells
         /\ \A c \in DOMAIN rows : rows[c] \in DayBook!Observations /\ c[1] \in Days
         /\ DayBook!DaysOf(rows) \subseteq Days
         /\ \A c \in DOMAIN rows : c[1] \in DayBook!DaysOf(rows)
BY DEF DayBook!Files, DayBook!Cells, DayBook!DaysOf

LEMMA Distinct ==
  /\ DayBook!NoSale \notin DayBook!Observations
  /\ DayBook!NoCoverage \notin [source : {"live", "historical"}, status : DayBook!Statuses]
BY DEF DayBook!NoSale, DayBook!Observations, DayBook!NoCoverage, DayBook!Statuses

\* A step that writes nothing and leaves one transaction with what it knows.
LEMMA QuietDayStep ==
  ASSUME DaysInv, UNCHANGED <<coverage, imported, told>>, date' \in Int,
         NEW k \in Slots, NEW n \in DayTxns, reporting' = [reporting EXCEPT ![k] = n],
         Knows(n), \A j \in Slots \ {k} : reporting[j].locked \cap n.locked = {}
  PROVE  DaysInv'
<1>1. DaysTyped'
  BY DEF DaysInv, DaysTyped
<1>2. Parted'
  BY DEF DaysInv, DaysTyped, Parted
<1>3. ASSUME NEW j \in Slots PROVE Knows(reporting[j])'
  <2>1. reporting'[j] = IF j = k THEN n ELSE reporting[j]
    BY DEF DaysInv, DaysTyped
  <2> QED BY <2>1 DEF DaysInv, Knows, Reports, FoundNoSales, FoundNoConflict
<1>4. (DayBook!OneSourcePerDay /\ DayBook!ToldIsStored)'
  BY DEF DaysInv, DayBook!OneSourcePerDay, DayBook!ToldIsStored
<1> QED BY <1>1, <1>2, <1>3, <1>4 DEF DaysInv

\* A commit of transaction k writes on its own days only, so the others still know
\* what they knew.
LEMMA CommitOfOne ==
  ASSUME DaysInv, NEW k \in Slots, reporting[k].locked = reporting[k].days,
         reporting' = [reporting EXCEPT ![k] = DayBook!NoTxn],
         \A d \in Days \ reporting[k].days : coverage'[d] = coverage[d],
         \A c \in DayBook!Cells : c[1] \notin reporting[k].days => imported'[c] = imported[c]
  PROVE  Parted' /\ \A j \in Slots : Knows(reporting[j])'
<1>1. Parted'
  BY DEF DaysInv, DaysTyped, Parted, DayBook!NoTxn
<1>2. ASSUME NEW j \in Slots PROVE Knows(reporting[j])'
  <2>1. reporting'[j] = IF j = k THEN DayBook!NoTxn ELSE reporting[j]
    BY DEF DaysInv, DaysTyped
  <2>2. CASE j = k
    BY <2>1, <2>2 DEF Knows, Reports, FoundNoSales, FoundNoConflict, DayBook!NoTxn
  <2>3. CASE j # k
    <3>1. reporting'[j] = reporting[j] /\ Knows(reporting[j]) /\ reporting[j] \in DayTxns
      BY <2>1, <2>3 DEF DaysInv, DaysTyped
    <3>2. \A d \in reporting[j].locked : d \in Days /\ d \notin reporting[k].days
      BY <2>3, <3>1 DEF DaysInv, Parted, DayTxns
    <3>3. Reports(reporting[j])' /\ FoundNoSales(reporting[j])'
      BY <3>1, <3>2 DEF Knows, Reports, FoundNoSales
    <3>4. FoundNoConflict(reporting[j])'
      <4> SUFFICES ASSUME reporting[j].kind = "history_import", reporting[j].looked
                   PROVE  FoundNoConflict(reporting[j])'
        BY <3>1 DEF FoundNoConflict
      <4>1. ASSUME NEW c \in DOMAIN reporting[j].rows
            PROVE  c \in DayBook!Cells /\ c[1] \in reporting[j].locked
        BY <3>1, FileRows DEF Knows, Reports, FoundNoConflict
      <4>2. ASSUME NEW c \in DOMAIN reporting[j].rows
            PROVE  imported'[c] = imported[c] /\ coverage'[c[1]] = coverage[c[1]]
        BY <4>1, <3>2
      <4> QED BY <3>1, <4>2 DEF Knows, FoundNoConflict
    <3> QED BY <3>3, <3>4 DEF Knows
  <2> QED BY <2>2, <2>3
<1> QED BY <1>1, <1>2

LEMMA EmptyTxn == DayBook!NoTxn \in DayTxns /\ Knows(DayBook!NoTxn)
<1>1. DayBook!NoTxn \in DayTxns
  <2>1. DayBook!NoTxn.rows \in DayBook!Files \cup {<<>>}
    BY DEF DayBook!NoTxn
  <2>2. DayBook!NoTxn.date \in Int
    BY DEF DayBook!NoTxn
  <2>3. DayBook!NoTxn.order \in Bills \cup {0}
    BY DEF DayBook!NoTxn
  <2> QED BY <2>1, <2>2, <2>3 DEF DayTxns, DayBook!NoTxn
<1>2. Knows(DayBook!NoTxn)
  BY DEF DayBook!NoTxn, Knows, Reports, FoundNoSales, FoundNoConflict
<1> QED BY <1>1, <1>2

LEMMA DaysEnd ==
  ASSUME DaysInv, NEW k \in Slots, DayBook!Ends(k), UNCHANGED <<coverage, imported, told, date>>
  PROVE  DaysInv'
<1>1. date' \in Int /\ \A j \in Slots \ {k} : reporting[j].locked \cap DayBook!NoTxn.locked = {}
  BY DEF DaysInv, DaysTyped, DayBook!NoTxn
<1> QED BY <1>1, EmptyTxn, QuietDayStep DEF DayBook!Ends

LEMMA DaysBegin ==
  ASSUME DaysInv, NEW k \in Slots, NEW n \in DayTxns, DayBook!Begins(k, n),
         n.locked = {}, ~n.looked, Reports(n)
  PROVE  DaysInv'
<1>1. Knows(n)
  BY DEF Knows, FoundNoSales, FoundNoConflict
<1>2. date' \in Int
  BY DEF DaysInv, DaysTyped, DayBook!Begins
<1> QED BY <1>1, <1>2, QuietDayStep DEF DayBook!Begins

LEMMA DaysStart ==
  ASSUME DaysInv, NEW k \in Slots,
         \/ \E d \in Days, s \in DayBook!Statuses : DayBook!day_close(k, d, s)
         \/ \E rows \in DayBook!Files : DayBook!history_import(k, rows)
         \/ \E o \in Bills : DayBook!order_pay(k, o)
  PROVE  DaysInv'
<1>1. ASSUME NEW d \in Days, NEW s \in DayBook!Statuses, DayBook!day_close(k, d, s)
      PROVE  DaysInv'
  <2> DEFINE n == [DayBook!NoTxn EXCEPT !.kind = "day_close", !.days = {d}, !.status = s]
  <2>1. n \in DayTxns /\ n.locked = {} /\ ~n.looked /\ Reports(n)
    <3>1. n \in DayTxns
      BY EmptyTxn DEF DayTxns
    <3>2. n.locked = {} /\ ~n.looked /\ Reports(n)
      BY DEF DayBook!NoTxn, Reports
    <3> QED BY <3>1, <3>2
  <2> QED BY <1>1, <2>1, DaysBegin DEF DayBook!day_close
<1>2. ASSUME NEW rows \in DayBook!Files, DayBook!history_import(k, rows)
      PROVE  DaysInv'
  <2> DEFINE n == [DayBook!NoTxn EXCEPT !.kind = "history_import", !.days = DayBook!DaysOf(rows), !.rows = rows]
  <2>1. n \in DayTxns /\ n.locked = {} /\ ~n.looked /\ Reports(n)
    <3>1. n \in DayTxns
      BY EmptyTxn, FileRows DEF DayTxns
    <3>2. n.locked = {} /\ ~n.looked /\ Reports(n)
      BY DEF DayBook!NoTxn, Reports
    <3> QED BY <3>1, <3>2
  <2> QED BY <1>2, <2>1, DaysBegin DEF DayBook!history_import
<1>3. ASSUME NEW o \in Bills, DayBook!order_pay(k, o)
      PROVE  DaysInv'
  <2> DEFINE n == [DayBook!NoTxn EXCEPT !.kind = "order_pay", !.order = o, !.date = date]
  <2>1. n \in DayTxns /\ n.locked = {} /\ ~n.looked /\ Reports(n)
    <3>1. n \in DayTxns
      BY EmptyTxn DEF DayTxns, DaysInv, DaysTyped
    <3>2. n.locked = {} /\ ~n.looked /\ Reports(n)
      BY DEF DayBook!NoTxn, Reports
    <3> QED BY <3>1, <3>2
  <2> QED BY <1>3, <2>1, DaysBegin DEF DayBook!order_pay
<1> QED BY <1>1, <1>2, <1>3

LEMMA DaysLock ==
  ASSUME DaysInv, NEW k \in Slots, DayBook!Lock(k)
  PROVE  DaysInv'
<1> DEFINE t == reporting[k]
<1>1. t \in DayTxns /\ Knows(t) /\ UNCHANGED <<coverage, imported, told, date>>
  BY DEF DaysInv, DaysTyped, DayBook!Lock
<1>2. PICK d \in DayBook!NextDays(t) :
        /\ DayBook!Free(k, d)
        /\ IF DayBook!Refuses(t, d) THEN DayBook!Ends(k) ELSE DayBook!Goes(k, [t EXCEPT !.locked = @ \cup {d}])
  BY DEF DayBook!Lock
<1>3. CASE DayBook!Refuses(t, d)
  BY <1>1, <1>2, <1>3, DaysEnd
<1>4. CASE ~DayBook!Refuses(t, d)
  <2> DEFINE n == [t EXCEPT !.locked = @ \cup {d}]
  <2>1. d \in t.days /\ d \notin t.locked /\ d \in Days
    BY <1>1, <1>2 DEF DayBook!NextDays, DayTxns
  <2>2. n \in DayTxns
    BY <1>1, <2>1 DEF DayTxns
  <2>3. \A j \in Slots \ {k} : reporting[j].locked \cap n.locked = {}
    BY <1>1, <1>2 DEF DayBook!Free, DaysInv, Parted, DayTxns
  <2>4. t.kind = "history_import" => coverage[d].source # "live"
    BY <1>4 DEF DayBook!Refuses
  <2>5. Knows(n)
    <3>1. Reports(n) /\ FoundNoSales(n)
      BY <1>1, <2>4 DEF Knows, Reports, FoundNoSales, DayTxns
    <3>2. FoundNoConflict(n)
      BY <1>1, <2>1 DEF Knows, FoundNoConflict, DayTxns
    <3> QED BY <3>1, <3>2 DEF Knows
  <2>6. date' \in Int
    BY <1>1 DEF DaysInv, DaysTyped
  <2> QED BY <1>1, <1>2, <1>4, <2>2, <2>3, <2>5, <2>6, QuietDayStep DEF DayBook!Goes
<1> QED BY <1>3, <1>4

LEMMA DaysLook ==
  ASSUME DaysInv, NEW k \in Slots, DayBook!Look(k)
  PROVE  DaysInv'
<1> DEFINE t == reporting[k]
<1>1. /\ t \in DayTxns /\ Knows(t) /\ t.kind = "history_import" /\ t.locked = t.days
      /\ UNCHANGED <<coverage, imported, told, date>> /\ date' \in Int
  BY DEF DaysInv, DaysTyped, DayBook!Look
<1>2. CASE DayBook!Contradicts(t.rows)
  BY <1>1, <1>2, DaysEnd DEF DayBook!Look
<1>3. CASE ~DayBook!Contradicts(t.rows)
  <2> DEFINE n == [t EXCEPT !.looked = TRUE]
  <2>1. n \in DayTxns /\ reporting' = [reporting EXCEPT ![k] = n]
    BY <1>1, <1>3 DEF DayBook!Look, DayBook!Goes, DayTxns
  <2>2. \A j \in Slots \ {k} : reporting[j].locked \cap n.locked = {}
    BY <1>1 DEF DaysInv, Parted, DayTxns
  <2>3. ASSUME NEW c \in DOMAIN t.rows
        PROVE  /\ imported[c] \in {DayBook!NoSale, t.rows[c]}
               /\ coverage[c[1]] \in {DayBook!NoCoverage, [source |-> "historical", status |-> t.rows[c].status]}
               /\ \A e \in DOMAIN t.rows : e[1] = c[1] => t.rows[e].status = t.rows[c].status
    <3>1. c[1] \in Days /\ c[1] \in t.locked
      BY <1>1, FileRows DEF Knows, Reports
    <3>2. coverage[c[1]].source # "live"
      BY <1>1, <3>1 DEF Knows, FoundNoSales
    <3>3. coverage[c[1]] \in {DayBook!NoCoverage} \cup [source : {"live", "historical"}, status : DayBook!Statuses]
      BY <3>1 DEF DaysInv, DaysTyped
    <3>4. coverage[c[1]] = DayBook!NoCoverage \/ coverage[c[1]].status = t.rows[c].status
      BY <1>3 DEF DayBook!Contradicts, DayBook!Covered
    <3>5. coverage[c[1]] \in {DayBook!NoCoverage, [source |-> "historical", status |-> t.rows[c].status]}
      BY <3>2, <3>3, <3>4
    <3> QED BY <1>3, <3>5 DEF DayBook!Contradicts
  <2>4. Knows(n)
    BY <1>1, <2>3 DEF Knows, Reports, FoundNoSales, FoundNoConflict, DayTxns
  <2> QED BY <1>1, <2>1, <2>2, <2>4, QuietDayStep
<1> QED BY <1>2, <1>3

LEMMA DaysClose ==
  ASSUME DaysInv, NEW k \in Slots, DayBook!CloseCommits(k)
  PROVE  DaysInv'
<1> DEFINE t == reporting[k]
<1>1. /\ t \in DayTxns /\ t.status \in DayBook!Statuses /\ t.locked = t.days
      /\ UNCHANGED <<imported, told, date>>
      /\ coverage' = [d \in Days |-> IF d \in t.days /\ coverage[d] = DayBook!NoCoverage
                                     THEN [source |-> "live", status |-> t.status] ELSE coverage[d]]
      /\ reporting' = [reporting EXCEPT ![k] = DayBook!NoTxn]
  BY DEF DaysInv, DaysTyped, Knows, Reports, DayBook!CloseCommits, DayBook!Covered,
      DayBook!Ends
<1>2. Parted' /\ \A j \in Slots : Knows(reporting[j])'
  BY <1>1, CommitOfOne
<1>3. DaysTyped'
  BY <1>1, EmptyTxn DEF DaysInv, DaysTyped
<1>4. DayBook!OneSourcePerDay'
  <2> SUFFICES ASSUME NEW d \in Days
               PROVE  /\ \A i \in Dishes : imported[<<d, i>>] # DayBook!NoSale =>
                           coverage'[d] = [source |-> "historical", status |-> imported[<<d, i>>].status]
                      /\ coverage'[d].source = "historical" => \E i \in Dishes : imported[<<d, i>>] # DayBook!NoSale
    BY <1>1 DEF DayBook!OneSourcePerDay
  <2>1. /\ \A i \in Dishes : imported[<<d, i>>] # DayBook!NoSale =>
             coverage[d] = [source |-> "historical", status |-> imported[<<d, i>>].status]
        /\ coverage[d].source = "historical" => \E i \in Dishes : imported[<<d, i>>] # DayBook!NoSale
    BY DEF DaysInv, DayBook!OneSourcePerDay
  <2>2. coverage'[d] = coverage[d]
        \/ (coverage[d] = DayBook!NoCoverage /\ coverage'[d] = [source |-> "live", status |-> t.status])
    BY <1>1
  <2> QED BY <2>1, <2>2 DEF DayBook!NoCoverage
<1> QED BY <1>1, <1>2, <1>3, <1>4 DEF DaysInv, DayBook!ToldIsStored

LEMMA DaysImport ==
  ASSUME DaysInv, NEW k \in Slots, DayBook!ImportCommits(k)
  PROVE  DaysInv'
<1> DEFINE t == reporting[k]
           rows == t.rows
           Of(d) == CHOOSE c \in DOMAIN rows : c[1] = d
<1>1. /\ t \in DayTxns /\ rows \in DayBook!Files /\ t.days = DayBook!DaysOf(rows) /\ t.locked = t.days
      /\ UNCHANGED date
      /\ imported' = [c \in DayBook!Cells |-> IF c \in DOMAIN rows /\ imported[c] = DayBook!NoSale
                                              THEN rows[c] ELSE imported[c]]
      /\ coverage' = [d \in Days |-> IF d \in t.days /\ coverage[d] = DayBook!NoCoverage
                                     THEN [source |-> "historical", status |-> rows[Of(d)].status]
                                     ELSE coverage[d]]
      /\ told' = told \cup {<<c, rows[c]>> : c \in DOMAIN rows}
      /\ reporting' = [reporting EXCEPT ![k] = DayBook!NoTxn]
  BY DEF DaysInv, DaysTyped, Knows, Reports, FoundNoConflict, DayBook!ImportCommits,
      DayBook!Covered,
         DayBook!Ends
<1>2. ASSUME NEW c \in DOMAIN rows
      PROVE  /\ imported[c] \in {DayBook!NoSale, rows[c]}
             /\ coverage[c[1]] \in {DayBook!NoCoverage, [source |-> "historical", status |-> rows[c].status]}
             /\ \A e \in DOMAIN rows : e[1] = c[1] => rows[e].status = rows[c].status
  BY DEF DaysInv, Knows, FoundNoConflict, DayBook!ImportCommits
<1>3. /\ DOMAIN rows \subseteq DayBook!Cells
      /\ \A c \in DOMAIN rows : rows[c] \in DayBook!Observations /\ c[1] \in Days /\ c[1] \in t.days
  BY <1>1, FileRows
<1>4. ASSUME NEW d \in t.days
      PROVE  Of(d) \in DOMAIN rows /\ Of(d)[1] = d
  <2>1. \E c \in DOMAIN rows : c[1] = d
    BY <1>1 DEF DayBook!DaysOf
  <2> QED BY <2>1
<1>5. \A c \in DOMAIN rows : coverage'[c[1]] = [source |-> "historical", status |-> rows[c].status]
  <2> SUFFICES ASSUME NEW c \in DOMAIN rows
               PROVE  coverage'[c[1]] = [source |-> "historical", status |-> rows[c].status]
    OBVIOUS
  <2>1. Of(c[1]) \in DOMAIN rows /\ Of(c[1])[1] = c[1]
    BY <1>3, <1>4
  <2>2. rows[Of(c[1])].status = rows[c].status
    BY <1>2, <2>1
  <2>3. coverage'[c[1]] = IF coverage[c[1]] = DayBook!NoCoverage
                          THEN [source |-> "historical", status |-> rows[Of(c[1])].status] ELSE coverage[c[1]]
    BY <1>1, <1>3
  <2> QED BY <1>2, <2>2, <2>3
<1>6. \A c \in DOMAIN rows : imported'[c] = rows[c]
  BY <1>1, <1>2, <1>3
<1>7. \A c \in DayBook!Cells \ DOMAIN rows : imported'[c] = imported[c]
  BY <1>1
<1>8. \A d \in Days \ t.days : coverage'[d] = coverage[d]
  BY <1>1
<1>9. Parted' /\ \A j \in Slots : Knows(reporting[j])'
  <2>1. \A c \in DayBook!Cells : c[1] \notin t.days => imported'[c] = imported[c]
    BY <1>3, <1>7
  <2> QED BY <1>1, <1>8, <2>1, CommitOfOne
<1>10. DaysTyped'
  <2>1. imported' \in [DayBook!Cells -> {DayBook!NoSale} \cup DayBook!Observations]
    BY <1>1, <1>3 DEF DaysInv, DaysTyped
  <2>2. \A d \in t.days : rows[Of(d)].status \in DayBook!Statuses
    BY <1>3, <1>4 DEF DayBook!Observations
  <2>3. coverage' \in [Days -> {DayBook!NoCoverage} \cup [source : {"live", "historical"}, status : DayBook!Statuses]]
    BY <1>1, <2>2 DEF DaysInv, DaysTyped
  <2> QED BY <1>1, <2>1, <2>3, EmptyTxn DEF DaysInv, DaysTyped
<1>11. DayBook!OneSourcePerDay'
  <2> SUFFICES ASSUME NEW d \in Days
               PROVE  /\ \A i \in Dishes : imported'[<<d, i>>] # DayBook!NoSale =>
                           coverage'[d] = [source |-> "historical", status |-> imported'[<<d, i>>].status]
                      /\ coverage'[d].source = "historical" => \E i \in Dishes : imported'[<<d, i>>] # DayBook!NoSale
    BY DEF DayBook!OneSourcePerDay
  <2>1. /\ \A i \in Dishes : imported[<<d, i>>] # DayBook!NoSale =>
             coverage[d] = [source |-> "historical", status |-> imported[<<d, i>>].status]
        /\ coverage[d].source = "historical" => \E i \in Dishes : imported[<<d, i>>] # DayBook!NoSale
    BY DEF DaysInv, DayBook!OneSourcePerDay
  <2>2. \A i \in Dishes : <<d, i>> \in DayBook!Cells /\ <<d, i>>[1] = d
    BY DEF DayBook!Cells
  <2>3. CASE d \notin t.days
    <3>1. \A i \in Dishes : imported'[<<d, i>>] = imported[<<d, i>>]
      BY <1>3, <1>7, <2>2, <2>3
    <3> QED BY <1>8, <2>1, <2>3, <3>1
  <2>4. CASE d \in t.days
    <3> DEFINE c == Of(d)
    <3>1. c \in DOMAIN rows /\ c[1] = d /\ c \in DayBook!Cells
      BY <1>3, <1>4, <2>4
    <3>2. PICK j \in Dishes : c = <<d, j>>
      BY <3>1 DEF DayBook!Cells
    <3>3. coverage'[d] = [source |-> "historical", status |-> rows[c].status]
      BY <1>5, <3>1
    <3>4. imported'[<<d, j>>] # DayBook!NoSale
      BY <1>3, <1>6, <3>1, <3>2, Distinct
    <3>5. ASSUME NEW i \in Dishes, imported'[<<d, i>>] # DayBook!NoSale
          PROVE  coverage'[d] = [source |-> "historical", status |-> imported'[<<d, i>>].status]
      <4>1. CASE <<d, i>> \in DOMAIN rows
        BY <1>5, <1>6, <2>2, <4>1
      <4>2. CASE <<d, i>> \notin DOMAIN rows
        <5>1. imported'[<<d, i>>] = imported[<<d, i>>]
          BY <1>7, <2>2, <4>2
        <5>2. coverage[d] = [source |-> "historical", status |-> imported[<<d, i>>].status]
          BY <2>1, <3>5, <5>1
        <5>3. coverage[d] \in {DayBook!NoCoverage, [source |-> "historical", status |-> rows[c].status]}
          BY <1>2, <3>1
        <5> QED BY <3>3, <5>1, <5>2, <5>3 DEF DayBook!NoCoverage
      <4> QED BY <4>1, <4>2
    <3> QED BY <3>4, <3>5
  <2> QED BY <2>3, <2>4
<1>12. DayBook!ToldIsStored' /\ \A r \in told' : r[1] \in DayBook!Cells /\ r[2] \in DayBook!Observations
  <2> SUFFICES ASSUME NEW r \in told'
               PROVE  imported'[r[1]] = r[2] /\ r[1] \in DayBook!Cells /\ r[2] \in DayBook!Observations
    BY DEF DayBook!ToldIsStored
  <2>1. CASE r \in told
    <3>1. imported[r[1]] = r[2] /\ r[1] \in DayBook!Cells /\ r[2] \in DayBook!Observations
      BY <2>1 DEF DaysInv, DayBook!ToldIsStored
    <3> QED BY <1>1, <3>1, Distinct
  <2>2. CASE r \notin told
    <3>1. PICK c \in DOMAIN rows : r = <<c, rows[c]>>
      BY <1>1, <2>2
    <3> QED BY <1>3, <1>6, <3>1
  <2> QED BY <2>1, <2>2
<1> QED BY <1>9, <1>10, <1>11, <1>12 DEF DaysInv

LEMMA DaysNext ==
  ASSUME DaysInv, DayBook!Next
  PROVE  DaysInv'
<1>1. CASE DayBook!Midnight
  <2>1. date' \in Int /\ UNCHANGED <<coverage, imported, told, reporting>>
    BY <1>1 DEF DaysInv, DaysTyped, DayBook!Midnight
  <2>2. DaysTyped' /\ Parted'
    BY <2>1 DEF DaysInv, DaysTyped, Parted
  <2>3. ASSUME NEW k \in Slots PROVE Knows(reporting[k])'
    BY <2>1 DEF DaysInv, Knows, Reports, FoundNoSales, FoundNoConflict
  <2>4. (DayBook!OneSourcePerDay /\ DayBook!ToldIsStored)'
    BY <2>1 DEF DaysInv, DayBook!OneSourcePerDay, DayBook!ToldIsStored
  <2> QED BY <2>1, <2>2, <2>3, <2>4 DEF DaysInv
<1>2. ASSUME NEW k \in Slots, DayBook!Proceeds(k)
      PROVE  DaysInv'
  <2>1. CASE DayBook!PayCommits(k)
    <3>1. DayBook!Ends(k) /\ UNCHANGED <<coverage, imported, told, date>>
      BY <2>1 DEF DayBook!PayCommits
    <3> QED BY <3>1, DaysEnd
  <2> QED BY <1>2, <2>1, DaysLock, DaysLook, DaysClose, DaysImport DEF DayBook!Proceeds
<1> QED BY <1>1, <1>2, DaysStart DEF DayBook!Next

DaysKept == desk = "days" => DaysInv

LEMMA DaysInit ==
  ASSUME DayBook!Init
  PROVE  DaysInv
<1>1. DaysTyped
  <2>1. date \in Int /\ reporting \in [Slots -> DayTxns]
    BY EmptyTxn DEF DayBook!Init
  <2>2. coverage \in [Days -> {DayBook!NoCoverage} \cup [source : {"live", "historical"}, status : DayBook!Statuses]]
    BY DEF DayBook!Init
  <2>3. imported \in [DayBook!Cells -> {DayBook!NoSale} \cup DayBook!Observations]
    BY DEF DayBook!Init
  <2> QED BY <2>1, <2>2, <2>3 DEF DaysTyped
<1>2. Parted /\ \A k \in Slots : Knows(reporting[k])
  BY EmptyTxn DEF DayBook!Init, Parted, DayBook!NoTxn
<1>3. DayBook!OneSourcePerDay /\ DayBook!ToldIsStored
  BY DEF DayBook!Init, DayBook!OneSourcePerDay, DayBook!ToldIsStored, DayBook!NoCoverage,
      DayBook!Cells
<1> QED BY <1>1, <1>2, <1>3 DEF DaysInv, DayBook!Init

LEMMA DaysKeptNext ==
  ASSUME DaysKept, [Next]_vars
  PROVE  DaysKept'
<1>1. UNCHANGED desk
  BY DEF Next, vars, AtOrders, AtDecisions, AtForecasts, AtExpenses, AtReceipts, AtSessions,
         AtAccounts, AtFloorPlan, AtAssistant, AtDays
<1> SUFFICES ASSUME desk = "days" PROVE DaysInv'
  BY <1>1 DEF DaysKept
<1>2. DayBook!Next \/ UNCHANGED DayVars
  BY DEF Next, vars, AtOrders, AtDecisions, AtForecasts, AtExpenses, AtReceipts, AtSessions,
         AtAccounts, AtFloorPlan, AtAssistant
<1>3. CASE UNCHANGED DayVars
  BY <1>3 DEF DayVars, DaysKept, DaysInv, DaysTyped, Parted, Knows, Reports, FoundNoSales,
              FoundNoConflict, DayBook!OneSourcePerDay, DayBook!ToldIsStored
<1> QED BY <1>2, <1>3, DaysNext DEF DaysKept

\* In the portal: a past day has one source, and what a manager was told to be
\* imported is stored, however many closings, imports and payments run at once
\* (day_close, history_import).
THEOREM PortalKeepsDays == Spec => []DaysKeepSource
<1>1. Init => DaysKept
  BY DaysInit DEF Init, DaysKept
<1>2. DaysKept /\ [Next]_vars => DaysKept'
  BY DaysKeptNext
<1>3. DaysKept => DaysKeepSource
  BY DEF DaysKept, DaysInv, DaysKeepSource
<1> QED BY <1>1, <1>2, <1>3, PTL DEF Spec

-----------------------------------------------------------------------------
\* The questions to the assistant.  What is stored of a run is told by how far the
\* one question that works on it has come.
Message == [role : {"user", "assistant"}, of : Nat]
Conversations == [deleted : BOOLEAN, messages : Seq(Message)]
Asks == [step : {"none"} \cup Assistant!Steps, chat : Nat, of : Nat, small : BOOLEAN, heard : BOOLEAN]
RunStates == {"running", "completed", "failed"}

\* The messages of a conversation, also of one that is not there yet.
Msgs(c) == IF c \in 1 .. Len(chats) THEN chats[c].messages ELSE <<>>

Has(c, role, r) == \E i \in DOMAIN Msgs(c) : Msgs(c)[i] = [role |-> role, of |-> r]
Once(c, role, r, i) ==
  /\ i \in DOMAIN Msgs(c) /\ Msgs(c)[i] = [role |-> role, of |-> r]
  /\ \A j \in DOMAIN Msgs(c) : Msgs(c)[j] = [role |-> role, of |-> r] => j = i

Unasked(c, r) == ~Has(c, "user", r) /\ ~Has(c, "assistant", r)
Asked(c, r) == (\E q \in Nat : Once(c, "user", r, q)) /\ ~Has(c, "assistant", r)
Answered(c, r) == \E q, a \in Nat : q < a /\ Once(c, "user", r, q) /\ Once(c, "assistant", r, a)

ChatsTyped ==
  /\ chats \in Seq(Conversations)
  /\ inquiries \in Seq([chat : Nat, status : RunStates])

\* A question and the run it has started.
Works(x) ==
  /\ x \in Asks
  /\ x.chat \in 0 .. Len(chats) /\ x.of \in 0 .. Len(inquiries)
  /\ x.step \in {"none", "ensure", "start"} \/ x.small <=> x.of = 0
  /\ x.step \notin {"none", "ensure"} => x.chat # 0
  /\ x.small => x.step \in {"none", "ensure", "ask", "keep"}
  /\ x.of # 0 =>
       /\ inquiries[x.of].chat = x.chat
       /\ x.step # "fail" => inquiries[x.of].status = "running"
       /\ x.step = "ask" => Unasked(x.chat, x.of)
       /\ x.step \in {"model", "keep"} => Asked(x.chat, x.of)
       /\ x.step = "finish" => Answered(x.chat, x.of)

\* A run, and the messages that name it.
Filed(r) ==
  /\ inquiries[r].chat \in 1 .. Len(chats)
  /\ \A c \in Nat : c # inquiries[r].chat => Unasked(c, r)
  /\ inquiries[r].status = "completed" => Answered(inquiries[r].chat, r)

NamesRuns == \A c \in Nat : \A i \in DOMAIN Msgs(c) : Msgs(c)[i].of \in 0 .. Len(inquiries)
OwnRuns == \A j, k \in Slots : j # k /\ asks[j].of = asks[k].of => asks[k].of = 0

Shelf == ChatsTyped /\ NamesRuns /\ \A r \in 1 .. Len(inquiries) : Filed(r)
Desk ==
  /\ asks \in [Slots -> Asks] /\ OwnRuns
  /\ \A k \in Slots : Works(asks[k])

LEMMA Replaced ==
  ASSUME NEW S, NEW s \in Seq(S), NEW i \in 1 .. Len(s)
  PROVE  /\ s[i] \in S
         /\ \A e \in S :
              /\ [s EXCEPT ![i] = e] \in Seq(S) /\ Len([s EXCEPT ![i] = e]) = Len(s)
              /\ [s EXCEPT ![i] = e][i] = e /\ \A j \in 1 .. Len(s) : j # i => [s EXCEPT ![i] = e][j] = s[j]
OBVIOUS

LEMMA MsgsTyped ==
  ASSUME ChatsTyped, NEW c \in Nat
  PROVE  Msgs(c) \in Seq(Message)
<1>1. ASSUME c \in 1 .. Len(chats) PROVE chats[c].messages \in Seq(Message)
  <2>1. chats[c] \in Conversations
    BY <1>1, Replaced DEF ChatsTyped
  <2> QED BY <2>1 DEF Conversations
<1>2. <<>> \in Seq(Message)
  OBVIOUS
<1> QED BY <1>1, <1>2 DEF Msgs

\* A new conversation, and one that is deleted, say nothing.
LEMMA SaidNothing ==
  ASSUME ChatsTyped,
         \/ chats' = chats
         \/ chats' = Append(chats, [deleted |-> FALSE, messages |-> <<>>])
         \/ \E c \in 1 .. Len(chats) : chats' = [chats EXCEPT ![c].deleted = TRUE]
  PROVE  /\ chats' \in Seq(Conversations)
         /\ Len(chats') \in Nat /\ Len(chats) <= Len(chats')
         /\ \A c \in Nat : Msgs(c)' = Msgs(c)
<1>1. CASE chats' = chats
  BY <1>1 DEF ChatsTyped, Msgs
<1>2. CASE chats' = Append(chats, [deleted |-> FALSE, messages |-> <<>>])
  <2>1. [deleted |-> FALSE, messages |-> <<>>] \in Conversations
    BY DEF Conversations
  <2>2. chats' \in Seq(Conversations) /\ Len(chats') = Len(chats) + 1
    BY <1>2, <2>1 DEF ChatsTyped
  <2>3. \A c \in 1 .. Len(chats) : chats'[c] = chats[c]
    BY <1>2 DEF ChatsTyped
  <2>4. chats'[Len(chats) + 1].messages = <<>>
    BY <1>2 DEF ChatsTyped
  <2>5. Len(chats) \in Nat
    BY DEF ChatsTyped
  <2>6. ASSUME NEW c \in Nat PROVE Msgs(c)' = Msgs(c)
    BY <2>2, <2>3, <2>4, <2>5 DEF Msgs
  <2> QED BY <2>2, <2>5, <2>6
<1>3. ASSUME NEW c \in 1 .. Len(chats), chats' = [chats EXCEPT ![c].deleted = TRUE]
      PROVE  /\ chats' \in Seq(Conversations)
             /\ Len(chats') = Len(chats)
             /\ \A d \in Nat : Msgs(d)' = Msgs(d)
  <2> DEFINE e == [chats[c] EXCEPT !.deleted = TRUE]
  <2>1. chats[c] \in Conversations
    BY Replaced DEF ChatsTyped
  <2>2. e \in Conversations /\ e.messages = chats[c].messages
    BY <2>1 DEF Conversations
  <2>3. chats' = [chats EXCEPT ![c] = e]
    BY <1>3
  <2> HIDE DEF e
  <2>4. /\ chats' \in Seq(Conversations) /\ Len(chats') = Len(chats)
        /\ chats'[c] = e /\ \A j \in 1 .. Len(chats) : j # c => chats'[j] = chats[j]
    BY <2>2, <2>3, Replaced DEF ChatsTyped
  <2>5. \A j \in 1 .. Len(chats) : chats'[j].messages = chats[j].messages
    BY <2>2, <2>4
  <2> QED BY <2>4, <2>5 DEF Msgs
<1>4. Len(chats) \in Nat
  BY DEF ChatsTyped
<1>5. ASSUME NEW c \in 1 .. Len(chats), chats' = [chats EXCEPT ![c].deleted = TRUE]
      PROVE  Len(chats') \in Nat /\ Len(chats) <= Len(chats')
  <2>1. Len(chats') = Len(chats)
    BY <1>3, <1>5
  <2> QED BY <1>4, <2>1
<1> QED BY <1>1, <1>2, <1>3, <1>5

\* A message is said in one conversation.
LEMMA SaidOne ==
  ASSUME ChatsTyped, NEW c \in 1 .. Len(chats), NEW role \in {"user", "assistant"}, NEW r \in Nat,
         chats' = Assistant!Says(c, role, r)
  PROVE  /\ chats' \in Seq(Conversations)
         /\ Len(chats') = Len(chats)
         /\ Msgs(c)' = Append(Msgs(c), [role |-> role, of |-> r])
         /\ \A d \in Nat \ {c} : Msgs(d)' = Msgs(d)
<1>1. [role |-> role, of |-> r] \in Message
  BY DEF Message
<1>2. chats' \in Seq(Conversations) /\ Len(chats') = Len(chats)
  <2> DEFINE e == [chats[c] EXCEPT !.messages = Append(@, [role |-> role, of |-> r])]
  <2>1. chats[c] \in Conversations
    BY Replaced DEF ChatsTyped
  <2>2. e \in Conversations
    <3>1. Append(chats[c].messages, [role |-> role, of |-> r]) \in Seq(Message)
      BY <1>1, <2>1 DEF Conversations
    <3> QED BY <2>1, <3>1 DEF Conversations
  <2>3. chats' = [chats EXCEPT ![c] = e]
    BY DEF Assistant!Says
  <2> HIDE DEF e
  <2> QED BY <2>2, <2>3, Replaced DEF ChatsTyped
<1>3. chats'[c].messages = Append(chats[c].messages, [role |-> role, of |-> r])
  BY DEF ChatsTyped, Assistant!Says
<1>4. \A d \in 1 .. Len(chats) : d # c => chats'[d] = chats[d]
  BY DEF ChatsTyped, Assistant!Says
<1> QED BY <1>2, <1>3, <1>4 DEF Msgs

\* Messages that name another run, or none, change nothing for a run.
LEMMA OtherRuns ==
  ASSUME ChatsTyped, NEW c \in Nat, NEW r \in Nat, NEW m \in Message, m.of # r,
         Msgs(c)' = Append(Msgs(c), m)
  PROVE  /\ \A role \in {"user", "assistant"} : Has(c, role, r)' = Has(c, role, r)
         /\ \A role \in {"user", "assistant"}, i \in Nat : Once(c, role, r, i) => Once(c, role, r, i)'
<1>1. Msgs(c) \in Seq(Message) /\ Len(Msgs(c)) \in Nat
  BY MsgsTyped
<1>2. /\ DOMAIN Msgs(c)' = 1 .. Len(Msgs(c)) + 1 /\ DOMAIN Msgs(c) = 1 .. Len(Msgs(c))
      /\ \A i \in 1 .. Len(Msgs(c)) : Msgs(c)'[i] = Msgs(c)[i]
      /\ Msgs(c)'[Len(Msgs(c)) + 1] = m
  BY <1>1
<1>3. \A role \in {"user", "assistant"} : m # [role |-> role, of |-> r]
  OBVIOUS
<1>4. ASSUME NEW role \in {"user", "assistant"} PROVE Has(c, role, r)' = Has(c, role, r)
  <2>1. Has(c, role, r)' => Has(c, role, r)
    BY <1>1, <1>2, <1>3 DEF Has
  <2>2. Has(c, role, r) => Has(c, role, r)'
    BY <1>1, <1>2 DEF Has
  <2> QED BY <2>1, <2>2 DEF Has
<1>5. ASSUME NEW role \in {"user", "assistant"}, NEW i \in Nat, Once(c, role, r, i)
      PROVE  Once(c, role, r, i)'
  BY <1>1, <1>2, <1>3, <1>5 DEF Once
<1> QED BY <1>4, <1>5

\* What a step on the shelf leaves of the questions that do not work on run n, and
\* of the answers of completed runs.
Completed(r) == r = 0 \/ (r \in 1 .. Len(inquiries) /\ inquiries[r].status = "completed")
Others(n) ==
  /\ \A z \in Asks : Works(z) /\ (z.of = 0 \/ z.of # n) => Works(z)'
  /\ \A r \in Nat : Completed(r) => Completed(r)'
  /\ Len(chats) <= Len(chats') /\ Len(inquiries) <= Len(inquiries')

LEMMA SaidAlike ==
  ASSUME NEW c \in Nat, NEW r \in Nat, Msgs(c)' = Msgs(c)
  PROVE  /\ Unasked(c, r) => Unasked(c, r)'
         /\ Asked(c, r) => Asked(c, r)'
         /\ Answered(c, r) => Answered(c, r)'
BY DEF Unasked, Asked, Answered, Has, Once

\* What is said of other runs changes nothing for a run.
LEMMA SaidApart ==
  ASSUME ChatsTyped, NEW c \in Nat, NEW r \in Nat, NEW m \in Message, m.of # r,
         Msgs(c)' = Append(Msgs(c), m)
  PROVE  /\ Unasked(c, r) => Unasked(c, r)'
         /\ Asked(c, r) => Asked(c, r)'
         /\ Answered(c, r) => Answered(c, r)'
<1>1. /\ \A role \in {"user", "assistant"} : Has(c, role, r)' = Has(c, role, r)
      /\ \A role \in {"user", "assistant"}, i \in Nat : Once(c, role, r, i) => Once(c, role, r, i)'
  BY OtherRuns
<1>2. Unasked(c, r) => Unasked(c, r)'
  BY <1>1 DEF Unasked
<1>3. Asked(c, r) => Asked(c, r)'
  BY <1>1 DEF Asked
<1>4. Answered(c, r) => Answered(c, r)'
  BY <1>1 DEF Answered
<1> QED BY <1>2, <1>3, <1>4

\* A step that says nothing of a run, and does not touch the run, leaves it filed
\* and its question at work.
LEMMA WorksAlike ==
  ASSUME NEW z \in Asks, Works(z), Len(chats) \in Nat, Len(inquiries) \in Nat,
         Len(chats') \in Nat, Len(chats) <= Len(chats'),
         Len(inquiries') \in Nat, Len(inquiries) <= Len(inquiries'),
         z.of # 0 =>
           /\ inquiries'[z.of] = inquiries[z.of]
           /\ Unasked(z.chat, z.of) => Unasked(z.chat, z.of)'
           /\ Asked(z.chat, z.of) => Asked(z.chat, z.of)'
           /\ Answered(z.chat, z.of) => Answered(z.chat, z.of)'
  PROVE  Works(z)'
<1>1. z.chat \in 0 .. Len(chats') /\ z.of \in 0 .. Len(inquiries')
  BY DEF Works
<1>2. ASSUME z.of # 0
      PROVE  /\ inquiries'[z.of].chat = z.chat
             /\ z.step # "fail" => inquiries'[z.of].status = "running"
             /\ z.step = "ask" => Unasked(z.chat, z.of)'
             /\ z.step \in {"model", "keep"} => Asked(z.chat, z.of)'
             /\ z.step = "finish" => Answered(z.chat, z.of)'
  BY <1>2 DEF Works
<1> HIDE DEF Unasked, Asked, Answered
<1> QED BY <1>1, <1>2 DEF Works

LEMMA FiledAlike ==
  ASSUME NEW r \in Nat, Filed(r), Len(chats) \in Nat, inquiries[r].chat \in Nat,
         Len(chats') \in Nat, Len(chats) <= Len(chats'),
         inquiries'[r].chat = inquiries[r].chat,
         inquiries'[r].status = "completed" =>
           inquiries[r].status = "completed" \/ Answered(inquiries[r].chat, r),
         \A c \in Nat :
           /\ Unasked(c, r) /\ c # inquiries[r].chat => Unasked(c, r)'
           /\ Answered(c, r) /\ inquiries'[r].status = "completed" => Answered(c, r)'
  PROVE  Filed(r)'
BY DEF Filed

LEMMA Lengths ==
  ASSUME ChatsTyped
  PROVE  /\ Len(chats) \in Nat /\ Len(inquiries) \in Nat
         /\ \A r \in 1 .. Len(inquiries) : /\ inquiries[r] \in [chat : Nat, status : RunStates]
                                           /\ inquiries[r].chat \in Nat
<1>1. Len(chats) \in Nat /\ Len(inquiries) \in Nat
  BY DEF ChatsTyped
<1>2. ASSUME NEW r \in 1 .. Len(inquiries)
      PROVE  inquiries[r] \in [chat : Nat, status : RunStates]
  BY <1>2, Replaced DEF ChatsTyped
<1> QED BY <1>1, <1>2

\* A conversation is made or deleted.
LEMMA QuietStep ==
  ASSUME Shelf, UNCHANGED inquiries,
         \/ chats' = chats
         \/ chats' = Append(chats, [deleted |-> FALSE, messages |-> <<>>])
         \/ \E c \in 1 .. Len(chats) : chats' = [chats EXCEPT ![c].deleted = TRUE]
  PROVE  Shelf' /\ Others(0)
<1>1. /\ chats' \in Seq(Conversations) /\ Len(chats') \in Nat /\ Len(chats) <= Len(chats')
      /\ \A c \in Nat : Msgs(c)' = Msgs(c)
  BY SaidNothing DEF Shelf
<1>2. /\ Len(chats) \in Nat /\ Len(inquiries) \in Nat
      /\ \A r \in 1 .. Len(inquiries) : inquiries[r].chat \in Nat
  BY Lengths DEF Shelf
<1>3. ChatsTyped' /\ NamesRuns'
  BY <1>1 DEF Shelf, ChatsTyped, NamesRuns
<1>4. ASSUME NEW r \in 1 .. Len(inquiries)' PROVE Filed(r)'
  <2>1. r \in 1 .. Len(inquiries) /\ r \in Nat /\ Filed(r)
    <3>1. r \in 1 .. Len(inquiries) /\ r \in Nat
      BY <1>2
    <3> QED BY <3>1 DEF Shelf
  <2>2. \A c \in Nat : /\ Unasked(c, r) => Unasked(c, r)'
                       /\ Answered(c, r) => Answered(c, r)'
    BY <1>1, <2>1, SaidAlike
  <2>3. inquiries'[r].status = "completed" => inquiries[r].status = "completed"
    OBVIOUS
  <2> QED BY <1>1, <1>2, <2>1, <2>2, <2>3, FiledAlike
<1>5. ASSUME NEW z \in Asks, Works(z) PROVE Works(z)'
  <2>1. z.chat \in Nat /\ z.of \in Nat
    BY DEF Asks
  <2>2. /\ Unasked(z.chat, z.of) => Unasked(z.chat, z.of)'
        /\ Asked(z.chat, z.of) => Asked(z.chat, z.of)'
        /\ Answered(z.chat, z.of) => Answered(z.chat, z.of)'
    BY <1>1, <2>1, SaidAlike
  <2>3. Len(inquiries') \in Nat /\ Len(inquiries) <= Len(inquiries') /\ inquiries'[z.of] = inquiries[z.of]
    BY <1>2
  <2> QED BY <1>1, <1>2, <1>5, <2>2, <2>3, WorksAlike
<1>6. \A r \in Nat : Completed(r) => Completed(r)'
  BY DEF Completed
<1> QED BY <1>1, <1>2, <1>3, <1>4, <1>5, <1>6 DEF Shelf, Others

\* A run is recorded.
LEMMA StartStep ==
  ASSUME Shelf, UNCHANGED chats, NEW c \in 1 .. Len(chats), NEW n, n = Len(inquiries) + 1,
         inquiries' = Append(inquiries, [chat |-> c, status |-> "running"])
  PROVE  /\ Shelf' /\ Others(0)
         /\ Len(inquiries') = n /\ inquiries'[n] = [chat |-> c, status |-> "running"]
         /\ \A d \in Nat : Unasked(d, n)'
<1>1. /\ Len(chats) \in Nat /\ Len(inquiries) \in Nat
      /\ \A r \in 1 .. Len(inquiries) : inquiries[r].chat \in Nat
  BY Lengths DEF Shelf
<1>2. inquiries \in Seq([chat : Nat, status : RunStates])
  BY DEF Shelf, ChatsTyped
<1>3. [chat |-> c, status |-> "running"] \in [chat : Nat, status : RunStates]
  BY <1>1 DEF RunStates
<1>4. /\ inquiries' \in Seq([chat : Nat, status : RunStates]) /\ Len(inquiries') = n
      /\ \A r \in 1 .. Len(inquiries) : inquiries'[r] = inquiries[r]
      /\ inquiries'[n] = [chat |-> c, status |-> "running"]
  BY <1>2, <1>3
<1>5. \A d \in Nat : Msgs(d)' = Msgs(d)
  BY DEF Msgs
<1>6. ChatsTyped' /\ NamesRuns'
  BY <1>1, <1>4, <1>5 DEF Shelf, ChatsTyped, NamesRuns
<1>7. ASSUME NEW d \in Nat PROVE Unasked(d, n) /\ Unasked(d, n)'
  <2>1. \A i \in DOMAIN Msgs(d) : Msgs(d)[i].of # n
    BY <1>1 DEF Shelf, NamesRuns
  <2>2. Unasked(d, n)
    BY <2>1 DEF Unasked, Has
  <2>3. Unasked(d, n)'
    BY <1>5, <2>1 DEF Unasked, Has
  <2> QED BY <2>2, <2>3
<1>8. ASSUME NEW r \in 1 .. Len(inquiries)' PROVE Filed(r)'
  <2>1. CASE r = n
    <3>1. inquiries'[r].chat = c /\ inquiries'[r].status = "running"
      BY <1>4, <2>1
    <3>2. \A d \in Nat : Unasked(d, r)'
      BY <1>7, <2>1
    <3> QED BY <3>1, <3>2 DEF Filed
  <2>2. CASE r \in 1 .. Len(inquiries)
    <3>1. r \in Nat /\ Filed(r)
      BY <2>2 DEF Shelf
    <3>2. \A d \in Nat : /\ Unasked(d, r) => Unasked(d, r)'
                         /\ Answered(d, r) => Answered(d, r)'
      BY <1>5, <3>1, SaidAlike
    <3>3. inquiries'[r] = inquiries[r]
      BY <1>4, <2>2
    <3> QED BY <1>1, <2>2, <3>1, <3>2, <3>3, FiledAlike
  <2> QED BY <1>1, <1>4, <2>1, <2>2
<1>9. ASSUME NEW z \in Asks, Works(z) PROVE Works(z)'
  <2>1. z.chat \in Nat /\ z.of \in Nat
    BY DEF Asks
  <2>2. /\ Unasked(z.chat, z.of) => Unasked(z.chat, z.of)'
        /\ Asked(z.chat, z.of) => Asked(z.chat, z.of)'
        /\ Answered(z.chat, z.of) => Answered(z.chat, z.of)'
    BY <1>5, <2>1, SaidAlike
  <2>3. z.of # 0 => inquiries'[z.of] = inquiries[z.of]
    BY <1>1, <1>4, <1>9 DEF Works
  <2>4. Len(inquiries') \in Nat /\ Len(inquiries) <= Len(inquiries')
    BY <1>1, <1>4
  <2>5. Len(chats') \in Nat /\ Len(chats) <= Len(chats')
    BY <1>1
  <2> QED BY <1>1, <1>9, <2>2, <2>3, <2>4, <2>5, WorksAlike
<1>10. \A r \in Nat : Completed(r) => Completed(r)'
  BY <1>1, <1>4 DEF Completed
<1> QED BY <1>1, <1>4, <1>6, <1>7, <1>8, <1>9, <1>10 DEF Shelf, Others

\* A run ends, unless it has ended.
LEMMA FinishStep ==
  ASSUME Shelf, UNCHANGED chats, NEW n \in 1 .. Len(inquiries), NEW status \in {"completed", "failed"},
         inquiries' = Assistant!Finished(n, status),
         status = "completed" => Answered(inquiries[n].chat, n)
  PROVE  /\ Shelf' /\ Others(n)
         /\ Len(inquiries') = Len(inquiries) /\ inquiries'[n].chat = inquiries[n].chat
         /\ inquiries[n].status = "running" => inquiries'[n].status = status
<1>1. /\ Len(chats) \in Nat /\ Len(inquiries) \in Nat
      /\ \A r \in 1 .. Len(inquiries) : inquiries[r].chat \in Nat
  BY Lengths DEF Shelf
<1> DEFINE e == [inquiries[n] EXCEPT !.status = IF @ = "running" THEN status ELSE @]
<1>2. inquiries[n] \in [chat : Nat, status : RunStates]
  BY Lengths DEF Shelf
<1>3. /\ e \in [chat : Nat, status : RunStates] /\ e.chat = inquiries[n].chat
      /\ e.status = IF inquiries[n].status = "running" THEN status ELSE inquiries[n].status
  BY <1>2 DEF RunStates
<1>4. inquiries' = [inquiries EXCEPT ![n] = e]
  BY DEF Assistant!Finished
<1> HIDE DEF e
<1>5. /\ inquiries' \in Seq([chat : Nat, status : RunStates]) /\ Len(inquiries') = Len(inquiries)
      /\ inquiries'[n] = e /\ \A r \in 1 .. Len(inquiries) : r # n => inquiries'[r] = inquiries[r]
  BY <1>3, <1>4, Replaced DEF Shelf, ChatsTyped
<1>6. \A d \in Nat : Msgs(d)' = Msgs(d)
  BY DEF Msgs
<1>7. ChatsTyped' /\ NamesRuns'
  BY <1>5, <1>6 DEF Shelf, ChatsTyped, NamesRuns
<1>8. ASSUME NEW r \in 1 .. Len(inquiries)' PROVE Filed(r)'
  <2>1. r \in 1 .. Len(inquiries) /\ r \in Nat /\ Filed(r)
    <3>1. r \in 1 .. Len(inquiries) /\ r \in Nat
      BY <1>1, <1>5
    <3> QED BY <3>1 DEF Shelf
  <2>2. \A d \in Nat : /\ Unasked(d, r) => Unasked(d, r)'
                       /\ Answered(d, r) => Answered(d, r)'
    BY <1>6, <2>1, SaidAlike
  <2>3. inquiries'[r].chat = inquiries[r].chat
    BY <1>3, <1>5, <2>1
  <2>4. inquiries'[r].status = "completed" =>
          inquiries[r].status = "completed" \/ Answered(inquiries[r].chat, r)
    BY <1>3, <1>5, <2>1
  <2> QED BY <1>1, <2>1, <2>2, <2>3, <2>4, FiledAlike
<1>9. ASSUME NEW z \in Asks, Works(z), z.of = 0 \/ z.of # n PROVE Works(z)'
  <2>1. z.chat \in Nat /\ z.of \in Nat
    BY DEF Asks
  <2>2. /\ Unasked(z.chat, z.of) => Unasked(z.chat, z.of)'
        /\ Asked(z.chat, z.of) => Asked(z.chat, z.of)'
        /\ Answered(z.chat, z.of) => Answered(z.chat, z.of)'
    BY <1>6, <2>1, SaidAlike
  <2>3. z.of # 0 => inquiries'[z.of] = inquiries[z.of]
    BY <1>1, <1>5, <1>9 DEF Works
  <2>4. Len(inquiries') \in Nat /\ Len(inquiries) <= Len(inquiries')
    BY <1>1, <1>5
  <2> QED BY <1>1, <1>9, <2>2, <2>3, <2>4, WorksAlike
<1>10. \A r \in Nat : Completed(r) => Completed(r)'
  BY <1>1, <1>3, <1>5 DEF Completed
<1>11. inquiries'[n].chat = inquiries[n].chat
       /\ (inquiries[n].status = "running" => inquiries'[n].status = status)
  BY <1>3, <1>5
<1> QED BY <1>1, <1>5, <1>7, <1>8, <1>9, <1>10, <1>11 DEF Shelf, Others

\* A question is saved.
LEMMA AsksOnce ==
  ASSUME ChatsTyped, NEW c \in Nat, NEW r \in Nat, Unasked(c, r),
         Msgs(c)' = Append(Msgs(c), [role |-> "user", of |-> r])
  PROVE  Asked(c, r)'
<1>1. Msgs(c) \in Seq(Message)
  BY MsgsTyped
<1>2. PICK l \in Nat : l = Len(Msgs(c)) /\ DOMAIN Msgs(c) = 1 .. l
  BY <1>1
<1>3. /\ DOMAIN Msgs(c)' = 1 .. l + 1
      /\ \A i \in 1 .. l : Msgs(c)'[i] = Msgs(c)[i]
      /\ Msgs(c)'[l + 1] = [role |-> "user", of |-> r]
  BY <1>1, <1>2
<1>4. \A i \in 1 .. l : /\ Msgs(c)[i] # [role |-> "user", of |-> r]
                        /\ Msgs(c)[i] # [role |-> "assistant", of |-> r]
  BY <1>2 DEF Unasked, Has
<1>5. Once(c, "user", r, l + 1)'
  BY <1>2, <1>3, <1>4 DEF Once
<1>6. [role |-> "user", of |-> r] # [role |-> "assistant", of |-> r]
  OBVIOUS
<1>7. ~Has(c, "assistant", r)'
  <2>1. ASSUME NEW i \in 1 .. l + 1 PROVE Msgs(c)'[i] # [role |-> "assistant", of |-> r]
    <3>1. i \in 1 .. l \/ i = l + 1
      BY <1>2
    <3> QED BY <1>3, <1>4, <1>6, <3>1
  <2> QED BY <1>3, <2>1 DEF Has
<1>8. l + 1 \in Nat
  BY <1>2
<1> QED BY <1>5, <1>7, <1>8 DEF Asked

\* An answer is saved.
LEMMA AnswersOnce ==
  ASSUME ChatsTyped, NEW c \in Nat, NEW r \in Nat, Asked(c, r),
         Msgs(c)' = Append(Msgs(c), [role |-> "assistant", of |-> r])
  PROVE  Answered(c, r)'
<1>1. Msgs(c) \in Seq(Message)
  BY MsgsTyped
<1>2. PICK l \in Nat : l = Len(Msgs(c)) /\ DOMAIN Msgs(c) = 1 .. l
  BY <1>1
<1>3. /\ DOMAIN Msgs(c)' = 1 .. l + 1
      /\ \A i \in 1 .. l : Msgs(c)'[i] = Msgs(c)[i]
      /\ Msgs(c)'[l + 1] = [role |-> "assistant", of |-> r]
  BY <1>1, <1>2
<1>4. [role |-> "user", of |-> r] # [role |-> "assistant", of |-> r]
  OBVIOUS
<1>5. \A i \in 1 .. l + 1 : i \in 1 .. l \/ i = l + 1
  BY <1>2
<1>6. PICK q \in Nat : Once(c, "user", r, q)
  BY DEF Asked
<1>7. q \in 1 .. l /\ l + 1 \in Nat /\ q < l + 1
  BY <1>2, <1>6 DEF Once
<1>8. Once(c, "user", r, q)'
  <2>1. q \in DOMAIN Msgs(c)' /\ Msgs(c)'[q] = [role |-> "user", of |-> r]
    BY <1>2, <1>3, <1>6, <1>7 DEF Once
  <2>2. ASSUME NEW j \in 1 .. l + 1, Msgs(c)'[j] = [role |-> "user", of |-> r] PROVE j = q
    BY <1>2, <1>3, <1>4, <1>5, <1>6, <2>2 DEF Once
  <2> QED BY <1>3, <2>1, <2>2 DEF Once
<1>9. Once(c, "assistant", r, l + 1)'
  <2>1. \A i \in 1 .. l : Msgs(c)[i] # [role |-> "assistant", of |-> r]
    BY <1>2 DEF Asked, Has
  <2>2. l + 1 \in 1 .. l + 1
    BY <1>2
  <2> QED BY <1>3, <1>5, <2>1, <2>2 DEF Once
<1> QED BY <1>6, <1>7, <1>8, <1>9 DEF Answered

\* A question or an answer is saved.
LEMMA SaysStep ==
  ASSUME Shelf, UNCHANGED inquiries, NEW c \in 1 .. Len(chats), NEW n \in 0 .. Len(inquiries),
         NEW role \in {"user", "assistant"}, chats' = Assistant!Says(c, role, n),
         n # 0 => inquiries[n].status = "running" /\ inquiries[n].chat = c
  PROVE  /\ Shelf' /\ Others(n)
         /\ Len(chats') = Len(chats)
         /\ role = "user" /\ Unasked(c, n) => Asked(c, n)'
         /\ role = "assistant" /\ Asked(c, n) => Answered(c, n)'
<1>1. /\ Len(chats) \in Nat /\ Len(inquiries) \in Nat
      /\ \A r \in 1 .. Len(inquiries) : inquiries[r].chat \in Nat
  BY Lengths DEF Shelf
<1>2. c \in Nat /\ n \in Nat
  BY <1>1
<1>3. /\ chats' \in Seq(Conversations) /\ Len(chats') = Len(chats)
      /\ Msgs(c)' = Append(Msgs(c), [role |-> role, of |-> n])
      /\ \A d \in Nat \ {c} : Msgs(d)' = Msgs(d)
  BY <1>2, SaidOne DEF Shelf
<1>4. [role |-> role, of |-> n] \in Message
  BY <1>2 DEF Message
<1>5. ChatsTyped' /\ NamesRuns'
  <2>1. ASSUME NEW i \in DOMAIN Msgs(c)' PROVE Msgs(c)'[i].of \in 0 .. Len(inquiries)
    <3>1. Msgs(c) \in Seq(Message)
      BY <1>2, MsgsTyped DEF Shelf
    <3>2. (i \in DOMAIN Msgs(c) /\ Msgs(c)'[i] = Msgs(c)[i]) \/ Msgs(c)'[i] = [role |-> role, of |-> n]
      BY <1>3, <3>1
    <3> QED BY <1>2, <3>2 DEF Shelf, NamesRuns
  <2>2. \A d \in Nat : \A i \in DOMAIN Msgs(d)' : Msgs(d)'[i].of \in 0 .. Len(inquiries)
    BY <1>3, <2>1 DEF Shelf, NamesRuns
  <2>3. NamesRuns'
    BY <2>2 DEF NamesRuns
  <2> QED BY <1>3, <2>3 DEF Shelf, ChatsTyped
<1>6. ASSUME NEW d \in Nat, NEW r \in Nat, d # c \/ r # n
      PROVE  /\ Unasked(d, r) => Unasked(d, r)'
             /\ Asked(d, r) => Asked(d, r)'
             /\ Answered(d, r) => Answered(d, r)'
  <2>1. CASE d # c
    BY <1>3, <2>1, SaidAlike
  <2>2. CASE d = c /\ r # n
    <3>1. [role |-> role, of |-> n].of # r
      BY <2>2
    <3> QED BY <1>2, <1>3, <1>4, <2>2, <3>1, SaidApart DEF Shelf
  <2> QED BY <1>6, <2>1, <2>2
<1>7. ASSUME NEW r \in 1 .. Len(inquiries)' PROVE Filed(r)'
  <2>1. r \in 1 .. Len(inquiries) /\ r \in Nat /\ r # 0 /\ Filed(r)
    <3>1. r \in 1 .. Len(inquiries) /\ r \in Nat /\ r # 0
      BY <1>1
    <3> QED BY <3>1 DEF Shelf
  <2>2. \A d \in Nat : /\ Unasked(d, r) /\ d # inquiries[r].chat => Unasked(d, r)'
                       /\ Answered(d, r) /\ inquiries'[r].status = "completed" => Answered(d, r)'
    BY <1>6, <2>1
  <2>3. Len(chats') \in Nat /\ Len(chats) <= Len(chats')
    BY <1>1, <1>3
  <2> QED BY <1>1, <2>1, <2>2, <2>3, FiledAlike
<1>8. ASSUME NEW z \in Asks, Works(z), z.of = 0 \/ z.of # n PROVE Works(z)'
  <2>1. z.chat \in Nat /\ z.of \in Nat
    BY DEF Asks
  <2>2. z.of # 0 =>
        /\ Unasked(z.chat, z.of) => Unasked(z.chat, z.of)'
        /\ Asked(z.chat, z.of) => Asked(z.chat, z.of)'
        /\ Answered(z.chat, z.of) => Answered(z.chat, z.of)'
    BY <1>6, <1>8, <2>1
  <2>3. /\ Len(inquiries') \in Nat /\ Len(inquiries) <= Len(inquiries') /\ inquiries'[z.of] = inquiries[z.of]
        /\ Len(chats') \in Nat /\ Len(chats) <= Len(chats')
    BY <1>1, <1>3
  <2> QED BY <1>1, <1>8, <2>2, <2>3, WorksAlike
<1>9. \A r \in Nat : Completed(r) => Completed(r)'
  BY DEF Completed
<1>10. role = "user" /\ Unasked(c, n) => Asked(c, n)'
  BY <1>2, <1>3, AsksOnce DEF Shelf
<1>11. role = "assistant" /\ Asked(c, n) => Answered(c, n)'
  BY <1>2, <1>3, AnswersOnce DEF Shelf
<1>12. Len(chats) <= Len(chats') /\ Len(inquiries) <= Len(inquiries')
  BY <1>1, <1>3
<1> QED BY <1>3, <1>5, <1>7, <1>8, <1>9, <1>10, <1>11, <1>12 DEF Shelf, Others

\* What the drawer shows, and what it asked for.
Shown == [kind : {"question", "answer", "error", "saved"}, of : Nat]
Drawers == [chat : Nat, thinking : BOOLEAN, messages : Seq(Shown)]
Errands == [verb : {"GET", "DELETE"}, chat : Nat, seen : Nat, served : BOOLEAN, messages : Seq(Message)]
Told ==
  /\ drawer \in Drawers /\ drawer.chat \in 0 .. Len(chats)
  /\ \A i \in DOMAIN drawer.messages :
       drawer.messages[i].kind = "answer" => Completed(drawer.messages[i].of)
Fetched == \A e \in errands : e \in Errands /\ e.chat \in 1 .. Len(chats)

AnswersInv == Shelf /\ Desk /\ Told /\ Fetched

LEMMA Idle ==
  ASSUME Shelf, UNCHANGED <<chats, inquiries>>, NEW n \in Nat
  PROVE  Shelf' /\ Others(n)
BY QuietStep DEF Others

LEMMA AskFields ==
  ASSUME Shelf, NEW x \in Asks, Works(x)
  PROVE  /\ x.chat \in Nat /\ x.of \in Nat /\ x.small \in BOOLEAN
         /\ x.chat # 0 => x.chat \in 1 .. Len(chats)
         /\ x.of # 0 => x.of \in 1 .. Len(inquiries) /\ inquiries[x.of].chat = x.chat
         /\ (x.step \in {"none", "ensure", "start"} \/ x.small) <=> x.of = 0
<1>1. Len(chats) \in Nat /\ Len(inquiries) \in Nat
  BY Lengths DEF Shelf
<1>2. x.chat \in Nat /\ x.of \in Nat /\ x.small \in BOOLEAN
  BY DEF Asks
<1> QED BY <1>1, <1>2 DEF Works

\* What a call stores leaves the rest as it was, whether it is heard of or not.
LEMMA StoresStep ==
  ASSUME Shelf, NEW x \in Asks, Works(x), Assistant!Stores(x) \/ UNCHANGED <<chats, inquiries>>
  PROVE  /\ Shelf' /\ Others(x.of)
         /\ x.of # 0 => inquiries'[x.of].chat = x.chat
         /\ Assistant!Stores(x) /\ x.step = "finish" => Completed(x.of)'
<1>1. /\ x.chat \in Nat /\ x.of \in Nat
      /\ x.chat # 0 => x.chat \in 1 .. Len(chats)
      /\ x.of # 0 => x.of \in 1 .. Len(inquiries) /\ inquiries[x.of].chat = x.chat
      /\ (x.step \in {"none", "ensure", "start"} \/ x.small) <=> x.of = 0
  BY AskFields
<1>2. CASE UNCHANGED <<chats, inquiries>> /\ ~(Assistant!Stores(x) /\ x.step = "finish")
  BY <1>1, <1>2, Idle
<1>3. CASE Assistant!Stores(x) /\ x.step = "ensure"
  <2>1. UNCHANGED inquiries /\ (chats' = chats \/ chats' = Append(chats, [deleted |-> FALSE, messages |-> <<>>]))
    BY <1>3 DEF Assistant!Stores
  <2>2. x.of = 0
    BY <1>1, <1>3
  <2> QED BY <1>3, <2>1, <2>2, QuietStep
<1>4. CASE Assistant!Stores(x) /\ x.step = "start"
  <2>1. UNCHANGED chats /\ inquiries' = Append(inquiries, [chat |-> x.chat, status |-> "running"])
    BY <1>4 DEF Assistant!Stores
  <2>2. x.of = 0 /\ x.chat \in 1 .. Len(chats)
    BY <1>1, <1>4 DEF Works
  <2> QED BY <1>4, <2>1, <2>2, StartStep
<1>5. CASE Assistant!Stores(x) /\ x.step \in {"ask", "keep"}
  <2>1. PICK role \in {"user", "assistant"} : chats' = Assistant!Says(x.chat, role, x.of)
    BY <1>5 DEF Assistant!Stores
  <2>2. UNCHANGED inquiries
    BY <1>5 DEF Assistant!Stores
  <2>3. x.chat \in 1 .. Len(chats)
    BY <1>1, <1>5 DEF Works
  <2>4. x.of # 0 => inquiries[x.of].status = "running" /\ inquiries[x.of].chat = x.chat
    BY <1>5 DEF Works
  <2>5. x.of \in 0 .. Len(inquiries)
    BY DEF Works
  <2>6. Shelf' /\ Others(x.of)
    BY <2>1, <2>2, <2>3, <2>4, <2>5, SaysStep
  <2> QED BY <1>1, <1>5, <2>2, <2>6
<1>6. ASSUME Assistant!Stores(x), x.step \in {"finish", "fail"}
      PROVE  /\ Shelf' /\ Others(x.of)
             /\ x.of # 0 => inquiries'[x.of].chat = x.chat
             /\ x.step = "finish" => Completed(x.of)'
  <2>1. PICK status \in {"completed", "failed"} :
          inquiries' = Assistant!Finished(x.of, status) /\ (status = "completed" <=> x.step = "finish")
    BY <1>6 DEF Assistant!Stores
  <2>2. UNCHANGED chats
    BY <1>6 DEF Assistant!Stores
  <2>3. x.of # 0
    BY <1>1, <1>6 DEF Works
  <2>4. x.of \in 1 .. Len(inquiries) /\ inquiries[x.of].chat = x.chat
    BY <1>1, <2>3
  <2>5. x.step = "finish" => Answered(x.chat, x.of) /\ inquiries[x.of].status = "running"
    BY <2>3 DEF Works
  <2>6. status = "completed" => Answered(inquiries[x.of].chat, x.of)
    BY <2>1, <2>4, <2>5
  <2>7. /\ Shelf' /\ Others(x.of)
        /\ Len(inquiries') = Len(inquiries) /\ inquiries'[x.of].chat = inquiries[x.of].chat
        /\ inquiries[x.of].status = "running" => inquiries'[x.of].status = status
    BY <2>1, <2>2, <2>4, <2>6, FinishStep
  <2>8. x.step = "finish" => Completed(x.of)'
    BY <2>1, <2>4, <2>5, <2>7 DEF Completed
  <2> QED BY <2>4, <2>7, <2>8
<1>7. CASE Assistant!Stores(x) /\ x.step \in {"none", "model"}
  <2>1. UNCHANGED <<chats, inquiries>>
    BY <1>7 DEF Assistant!Stores
  <2> QED BY <1>1, <1>7, <2>1, Idle
<1>8. x.step \in {"none", "ensure", "start", "ask", "model", "keep", "finish", "fail"}
  BY DEF Asks, Assistant!Steps
<1>9. UNCHANGED <<chats, inquiries>> => Shelf' /\ Others(x.of) /\ (x.of # 0 => inquiries'[x.of].chat = x.chat)
  BY <1>1, Idle
<1> QED BY <1>2, <1>3, <1>4, <1>5, <1>6, <1>7, <1>8, <1>9

\* The next call of a question finds it as far as it must be.
LEMMA FollowsStep ==
  ASSUME Shelf, NEW x \in Asks, Works(x), Assistant!Stores(x), NEW y,
         y = [x EXCEPT !.step = Assistant!After(x),
                       !.chat = IF @ = 0 THEN Len(chats') ELSE @,
                       !.of = IF x.step = "start" THEN Len(inquiries') ELSE @],
         y.step # "none"
  PROVE  y \in Asks /\ Works(y)' /\ (y.of = x.of \/ y.of = Len(inquiries) + 1)
<1>1. /\ x.chat \in Nat /\ x.of \in Nat /\ x.small \in BOOLEAN
      /\ x.chat # 0 => x.chat \in 1 .. Len(chats)
      /\ x.of # 0 => x.of \in 1 .. Len(inquiries) /\ inquiries[x.of].chat = x.chat
      /\ (x.step \in {"none", "ensure", "start"} \/ x.small) <=> x.of = 0
  BY AskFields
<1>2. Shelf' /\ Others(x.of)
  BY StoresStep
<1>3. /\ Len(chats) \in Nat /\ Len(inquiries) \in Nat
      /\ Len(chats)' \in Nat /\ Len(inquiries)' \in Nat
      /\ Len(chats) <= Len(chats') /\ Len(inquiries) <= Len(inquiries')
  <2>1. ChatsTyped /\ ChatsTyped'
    BY <1>2 DEF Shelf
  <2> QED BY <1>2, <2>1 DEF Others, ChatsTyped
<1>4. Assistant!After(x) \in {"none", "start", "ask", "model", "keep", "finish"}
  BY DEF Assistant!After
<1>5. /\ y.step = Assistant!After(x)
      /\ y.chat = IF x.chat = 0 THEN Len(chats') ELSE x.chat
      /\ y.of = IF x.step = "start" THEN Len(inquiries') ELSE x.of
      /\ y.small = x.small /\ y.heard = x.heard
  BY DEF Asks
<1>6. y \in Asks
  <2>1. y.step \in {"none"} \cup Assistant!Steps
    BY <1>4, <1>5 DEF Assistant!Steps
  <2>2. y.chat \in Nat /\ y.of \in Nat /\ y.small \in BOOLEAN /\ y.heard \in BOOLEAN
    BY <1>1, <1>3, <1>5 DEF Asks
  <2> QED BY <2>1, <2>2 DEF Asks
<1>7. CASE x.step = "ensure"
  <2>1. y.step = (IF x.small THEN "ask" ELSE "start") /\ y.of = 0 /\ x.of = 0
    BY <1>1, <1>5, <1>7 DEF Assistant!After
  <2>2. y.chat \in 1 .. Len(chats')
    <3>1. x.chat = 0 => Len(chats') = Len(chats) + 1
      <4>1. x.chat = 0 => chats' = Append(chats, [deleted |-> FALSE, messages |-> <<>>])
        BY <1>7 DEF Assistant!Stores
      <4> QED BY <4>1 DEF Shelf, ChatsTyped
    <3> QED BY <1>1, <1>3, <1>5, <3>1
  <2> QED BY <1>1, <1>3, <1>5, <1>6, <2>1, <2>2 DEF Works
<1>8. CASE x.step = "start"
  <2>1. x.chat \in 1 .. Len(chats) /\ x.of = 0 /\ ~x.small
    BY <1>1, <1>8 DEF Works
  <2>2. UNCHANGED chats /\ inquiries' = Append(inquiries, [chat |-> x.chat, status |-> "running"])
    BY <1>8 DEF Assistant!Stores
  <2>3. PICK n \in Nat : n = Len(inquiries) + 1
    BY <1>3
  <2>4. /\ Len(inquiries') = n /\ inquiries'[n] = [chat |-> x.chat, status |-> "running"]
        /\ \A d \in Nat : Unasked(d, n)'
    BY <2>1, <2>2, <2>3, StartStep
  <2>5. y.step = "ask" /\ y.of = n /\ y.chat = x.chat /\ ~y.small
    BY <1>3, <1>5, <1>8, <2>1, <2>4 DEF Assistant!After
  <2>6. Unasked(y.chat, y.of)' /\ inquiries'[y.of].chat = y.chat /\ inquiries'[y.of].status = "running"
    BY <1>1, <2>4, <2>5
  <2>7. y.chat \in 0 .. Len(chats') /\ y.chat # 0 /\ y.of # 0 /\ y.of \in 0 .. Len(inquiries')
    BY <1>3, <2>1, <2>2, <2>3, <2>4, <2>5
  <2> QED BY <1>6, <2>3, <2>5, <2>6, <2>7 DEF Works
<1>9. ASSUME x.step \in {"ask", "keep"}, NEW role \in {"user", "assistant"},
             role = "user" <=> x.step = "ask"
      PROVE  /\ x.chat \in 1 .. Len(chats') /\ y.of = x.of /\ y.chat = x.chat /\ y.of \in 0 .. Len(inquiries')
             /\ x.of # 0 => inquiries'[x.of].chat = x.chat /\ inquiries'[x.of].status = "running"
             /\ x.of # 0 /\ x.step = "ask" => Asked(x.chat, x.of)'
             /\ x.of # 0 /\ x.step = "keep" => Answered(x.chat, x.of)'
  <2>1. UNCHANGED inquiries /\ chats' = Assistant!Says(x.chat, role, x.of)
    BY <1>9 DEF Assistant!Stores
  <2>2. x.chat \in 1 .. Len(chats) /\ x.of \in 0 .. Len(inquiries)
    BY <1>1, <1>9 DEF Works
  <2>3. x.of # 0 => /\ inquiries[x.of].status = "running" /\ inquiries[x.of].chat = x.chat
                    /\ x.step = "ask" => Unasked(x.chat, x.of)
                    /\ x.step = "keep" => Asked(x.chat, x.of)
    BY <1>9 DEF Works
  <2>4. /\ Len(chats') = Len(chats)
        /\ role = "user" /\ Unasked(x.chat, x.of) => Asked(x.chat, x.of)'
        /\ role = "assistant" /\ Asked(x.chat, x.of) => Answered(x.chat, x.of)'
    BY <2>1, <2>2, <2>3, SaysStep
  <2>5. y.of = x.of /\ y.chat = x.chat
    BY <1>3, <1>5, <1>9, <2>2
  <2> QED BY <1>9, <2>1, <2>2, <2>3, <2>4, <2>5
<1>10. CASE x.step = "ask"
  <2>1. /\ x.chat \in 1 .. Len(chats') /\ y.of = x.of /\ y.chat = x.chat /\ y.of \in 0 .. Len(inquiries')
        /\ x.of # 0 => /\ inquiries'[x.of].chat = x.chat /\ inquiries'[x.of].status = "running"
                       /\ Asked(x.chat, x.of)'
    BY <1>9, <1>10
  <2>2. y.step = (IF x.small THEN "keep" ELSE "model") /\ (x.small <=> x.of = 0)
    BY <1>1, <1>5, <1>10 DEF Assistant!After
  <2>3. y.chat \in 0 .. Len(chats') /\ y.chat # 0
    BY <1>3, <2>1
  <2> QED BY <1>5, <1>6, <2>1, <2>2, <2>3 DEF Works
<1>11. CASE x.step = "model"
  <2>1. ~x.small /\ x.of # 0 /\ y.step = "keep" /\ y.of = x.of /\ y.chat = x.chat /\ x.chat # 0
    BY <1>1, <1>5, <1>11 DEF Assistant!After, Works
  <2>2. Works(y)
    BY <1>5, <1>6, <1>11, <2>1 DEF Works
  <2>3. UNCHANGED <<chats, inquiries>>
    BY <1>11 DEF Assistant!Stores
  <2>4. Others(0)
    BY <2>3, Idle
  <2>5. y.of \in Nat
    BY <1>1, <2>1
  <2> QED BY <1>6, <2>1, <2>2, <2>4, <2>5 DEF Others
<1>12. CASE x.step = "keep"
  <2>1. /\ x.chat \in 1 .. Len(chats') /\ y.of = x.of /\ y.chat = x.chat /\ y.of \in 0 .. Len(inquiries')
        /\ x.of # 0 => /\ inquiries'[x.of].chat = x.chat /\ inquiries'[x.of].status = "running"
                       /\ Answered(x.chat, x.of)'
    BY <1>9, <1>12
  <2>2. y.step = "finish" /\ ~x.small /\ x.of # 0
    BY <1>1, <1>5, <1>12 DEF Assistant!After
  <2>3. y.chat \in 0 .. Len(chats') /\ y.chat # 0
    BY <1>3, <2>1
  <2> QED BY <1>5, <1>6, <2>1, <2>2, <2>3 DEF Works
<1>13. x.step \in {"ensure", "start", "ask", "model", "keep"}
  BY <1>5 DEF Asks, Assistant!Steps, Assistant!After
<1> QED BY <1>6, <1>7, <1>8, <1>10, <1>11, <1>12, <1>13

\* A question moves on, and the others stay.
LEMMA DeskMoves ==
  ASSUME Shelf, Desk, Shelf', NEW k \in Slots, Others(asks[k].of), NEW y \in Asks, Works(y)',
         y.of = 0 \/ y.of = asks[k].of \/ y.of = Len(inquiries) + 1,
         Assistant!Goes(k, y)
  PROVE  Desk'
<1>1. Len(inquiries) \in Nat
  BY Lengths DEF Shelf
<1>2. asks' = [asks EXCEPT ![k] = y] /\ asks' \in [Slots -> Asks]
  BY DEF Desk, Assistant!Goes
<1>3. ASSUME NEW j \in Slots \ {k}
      PROVE  asks'[j] = asks[j] /\ Works(asks[j])' /\ (asks[j].of = y.of => y.of = 0)
  <2>1. asks'[j] = asks[j] /\ asks[j] \in Asks /\ Works(asks[j])
    BY <1>2 DEF Desk
  <2>2. asks[j].of = asks[k].of => asks[k].of = 0
    BY DEF Desk, OwnRuns
  <2>3. PICK z \in Asks : z = asks[j]
    BY <2>1
  <2>4. Works(z)'
    BY <2>1, <2>2, <2>3 DEF Others
  <2>5. z.of # Len(inquiries) + 1
    BY <1>1, <2>1, <2>3 DEF Works
  <2>6. Works(asks[j])'
    BY <2>1, <2>3, <2>4 DEF Works
  <2>7. asks[j].of = y.of => y.of = 0
    BY <2>2, <2>3, <2>5
  <2> QED BY <2>1, <2>6, <2>7
<1>4. asks'[k] = y
  BY <1>2 DEF Desk
<1>5. Works(asks[k])'
  BY <1>4 DEF Works
<1>6. OwnRuns'
  BY <1>3, <1>4 DEF Desk, OwnRuns
<1> QED BY <1>2, <1>3, <1>5, <1>6 DEF Desk

LEMMA NoAskWorks ==
  ASSUME Shelf
  PROVE  Assistant!NoAsk \in Asks /\ Works(Assistant!NoAsk) /\ Assistant!NoAsk.of = 0
<1>1. Len(chats) \in Nat /\ Len(inquiries) \in Nat
  BY Lengths DEF Shelf
<1>2. Assistant!NoAsk \in Asks
  BY DEF Assistant!NoAsk, Asks
<1> QED BY <1>1, <1>2 DEF Assistant!NoAsk, Works

\* The drawer hears of a question.
LEMMA HeardStep ==
  ASSUME Told, NEW n, Others(n), NEW x \in Asks, x.chat \in 0 .. Len(chats'),
         NEW ok \in BOOLEAN, ok => Completed(x.of)', Assistant!Heard(x, ok)
  PROVE  Told'
<1>1. PICK d \in Drawers : d = drawer
  BY DEF Told
<1>2. d.messages \in Seq(Shown) /\ x.of \in Nat /\ x.chat \in Nat /\ x.heard \in BOOLEAN
  BY DEF Drawers, Asks
<1>3. /\ d.chat \in 0 .. Len(chats')
      /\ \A i \in DOMAIN d.messages : d.messages[i].kind = "answer" => Completed(d.messages[i].of)'
  <2>1. d.chat \in 0 .. Len(chats')
    BY <1>1 DEF Told, Others
  <2>2. ASSUME NEW i \in DOMAIN d.messages, d.messages[i].kind = "answer"
        PROVE  Completed(d.messages[i].of)'
    <3>1. d.messages[i] \in Shown
      BY <1>2
    <3> PICK r \in Nat : r = d.messages[i].of
      BY <3>1 DEF Shown
    <3>2. Completed(d.messages[i].of)
      BY <1>1, <2>2 DEF Told
    <3>3. Completed(r)'
      BY <3>2 DEF Others
    <3> QED BY <3>3
  <2> QED BY <2>1, <2>2
<1>4. CASE drawer' = drawer
  BY <1>1, <1>3, <1>4 DEF Told
<1>5. ASSUME NEW m \in Shown, m.kind = "answer" => Completed(m.of)',
             drawer'.messages = Append(d.messages, m), drawer' \in Drawers,
             drawer'.chat \in {d.chat, x.chat}
      PROVE  Told'
  <2>1. \A i \in DOMAIN drawer'.messages :
          (i \in DOMAIN d.messages /\ drawer'.messages[i] = d.messages[i]) \/ drawer'.messages[i] = m
    BY <1>2, <1>5
  <2>2. drawer'.chat \in 0 .. Len(chats')
    BY <1>3, <1>5
  <2>3. ASSUME NEW i \in DOMAIN drawer'.messages, drawer'.messages[i].kind = "answer"
        PROVE  Completed(drawer.messages[i].of)'
    <3>1. CASE i \in DOMAIN d.messages /\ drawer'.messages[i] = d.messages[i]
      BY <1>3, <2>3, <3>1 DEF Completed
    <3>2. CASE drawer'.messages[i] = m
      BY <1>5, <2>3, <3>2 DEF Completed
    <3> QED BY <2>1, <3>1, <3>2
  <2> QED BY <1>5, <2>2, <2>3 DEF Told
<1>6. CASE x.heard
  <2> DEFINE m == [kind |-> IF ok THEN "answer" ELSE "error", of |-> x.of]
  <2>1. m \in Shown
    BY <1>2 DEF Shown
  <2>2. drawer' = [d EXCEPT !.thinking = FALSE, !.chat = IF ok THEN x.chat ELSE @, !.messages = Append(@, m)]
    BY <1>1, <1>6 DEF Assistant!Heard
  <2>3. m.kind = "answer" => Completed(x.of)' /\ m.of = x.of
    BY <1>6
  <2> HIDE DEF m
  <2>4. Append(d.messages, m) \in Seq(Shown)
    BY <1>2, <2>1
  <2>5. /\ drawer' \in Drawers /\ drawer'.messages = Append(d.messages, m)
        /\ drawer'.chat \in {d.chat, x.chat}
    BY <1>2, <2>2, <2>4 DEF Drawers
  <2>6. PICK e \in Shown : e = m
    BY <2>1
  <2>7. e.kind = "answer" => Completed(e.of)'
    <3>1. PICK r \in Nat : r = x.of
      BY <1>2
    <3> QED BY <2>3, <2>6, <3>1
  <2> QED BY <1>5, <2>5, <2>6, <2>7
<1>7. ~x.heard => drawer' = drawer
  BY DEF Assistant!Heard
<1> QED BY <1>4, <1>6, <1>7

LEMMA DeskStays ==
  ASSUME Desk, Others(0), UNCHANGED asks
  PROVE  Desk'
<1>1. asks' \in [Slots -> Asks] /\ OwnRuns'
  BY DEF Desk, OwnRuns
<1>2. ASSUME NEW k \in Slots PROVE Works(asks[k])'
  <2>1. PICK z \in Asks : z = asks[k] /\ Works(z)
    BY DEF Desk
  <2>2. Works(z)'
    BY <2>1 DEF Others
  <2> QED BY <2>1, <2>2 DEF Works
<1> QED BY <1>1, <1>2 DEF Desk

LEMMA ToldStays ==
  ASSUME Told, NEW n, Others(n), UNCHANGED drawer
  PROVE  Told'
<1>1. drawer.chat \in 0 .. Len(chats')
  BY DEF Told, Others
<1>2. ASSUME NEW i \in DOMAIN drawer.messages, drawer.messages[i].kind = "answer"
      PROVE  Completed(drawer.messages[i].of)'
  <2>1. drawer.messages \in Seq(Shown)
    BY DEF Told, Drawers
  <2>2. drawer.messages[i] \in Shown
    BY <2>1
  <2>3. PICK r \in Nat : r = drawer.messages[i].of
    BY <2>2 DEF Shown
  <2>4. Completed(r)'
    BY <1>2, <2>3 DEF Told, Others
  <2> QED BY <2>3, <2>4 DEF Completed
<1> QED BY <1>1, <1>2 DEF Told

LEMMA FetchedStays ==
  ASSUME Shelf, Shelf', NEW n, Others(n), Fetched, errands' \subseteq errands
  PROVE  Fetched'
BY Lengths DEF Shelf, Others, Fetched

\* An exception is passed on, and the run recorded as failed.
LEMMA RaisesStep ==
  ASSUME AnswersInv, NEW k \in Slots, Assistant!Stores(asks[k]) \/ UNCHANGED <<chats, inquiries>>,
         Assistant!Raises(k), UNCHANGED errands
  PROVE  AnswersInv'
<1>1. PICK x \in Asks : x = asks[k]
  BY DEF AnswersInv, Desk
<1>2. Shelf /\ Desk /\ Told /\ Fetched /\ Works(x)
  BY <1>1 DEF AnswersInv, Desk
<1>3. Shelf' /\ Others(x.of) /\ (x.of # 0 => inquiries'[x.of].chat = x.chat)
  BY <1>1, <1>2, StoresStep
<1>4. /\ Len(chats) \in Nat /\ Len(inquiries) \in Nat
      /\ Len(chats') \in Nat /\ Len(inquiries') \in Nat
      /\ Len(chats) <= Len(chats') /\ Len(inquiries) <= Len(inquiries')
  <2>1. ChatsTyped /\ ChatsTyped'
    BY <1>2, <1>3 DEF Shelf
  <2> QED BY <1>3, <2>1 DEF Others, ChatsTyped
<1>5. x.chat \in 0 .. Len(chats') /\ x.of \in 0 .. Len(inquiries')
  BY <1>2, <1>4 DEF Works
<1>6. Fetched'
  BY <1>2, <1>3, FetchedStays
<1>7. CASE ~x.small /\ x.step \in {"model", "keep", "finish"}
  <2>1. PICK y \in Asks : y = [x EXCEPT !.step = "fail"]
    BY DEF Asks, Assistant!Steps
  <2>2. y.step = "fail" /\ y.of = x.of /\ y.chat = x.chat /\ y.small = x.small
    BY <2>1 DEF Asks
  <2>3. Assistant!Goes(k, y) /\ UNCHANGED drawer
    BY <1>1, <1>7, <2>1 DEF Assistant!Raises
  <2>4. x.of # 0 /\ x.chat # 0
    BY <1>2, <1>7 DEF Works
  <2>5. Works(y)'
    BY <1>3, <1>5, <1>7, <2>2, <2>4 DEF Works
  <2>6. Desk'
    BY <1>1, <1>2, <1>3, <2>2, <2>3, <2>5, DeskMoves
  <2>7. Told'
    BY <1>2, <1>3, <2>3, ToldStays
  <2> QED BY <1>3, <1>6, <2>6, <2>7 DEF AnswersInv
<1>8. CASE ~(~x.small /\ x.step \in {"model", "keep", "finish"})
  <2>1. Assistant!Goes(k, Assistant!NoAsk) /\ Assistant!Heard(x, FALSE)
    BY <1>1, <1>8 DEF Assistant!Raises, Assistant!Over
  <2>2. PICK y \in Asks : y = Assistant!NoAsk /\ y.of = 0 /\ Works(y)'
    BY <1>2, <1>3, NoAskWorks DEF Others
  <2>3. Desk'
    BY <1>1, <1>2, <1>3, <2>1, <2>2, DeskMoves
  <2>4. Told'
    BY <1>2, <1>3, <1>5, <2>1, HeardStep
  <2> QED BY <1>3, <1>6, <2>3, <2>4 DEF AnswersInv
<1> QED BY <1>7, <1>8

\* A question takes its next step, or is answered.
LEMMA AdvancesStep ==
  ASSUME AnswersInv, NEW k \in Slots, Assistant!Advances(k)
  PROVE  AnswersInv'
<1>1. PICK x \in Asks : x = asks[k]
  BY DEF AnswersInv, Desk
<1>2. Shelf /\ Desk /\ Told /\ Fetched /\ Works(x)
  BY <1>1 DEF AnswersInv, Desk
<1> DEFINE next == [x EXCEPT !.step = Assistant!After(x),
                             !.chat = IF @ = 0 THEN Len(chats') ELSE @,
                             !.of = IF x.step = "start" THEN Len(inquiries') ELSE @]
<1>3. /\ Assistant!Stores(x) /\ UNCHANGED errands
      /\ IF next.step = "none" THEN Assistant!Over(k, x.step # "fail")
                               ELSE Assistant!Goes(k, next) /\ UNCHANGED drawer
  BY <1>1 DEF Assistant!Advances
<1>4. /\ Shelf' /\ Others(x.of)
      /\ x.step = "finish" => Completed(x.of)'
  BY <1>2, <1>3, StoresStep
<1>5. Fetched'
  BY <1>2, <1>3, <1>4, FetchedStays
<1>6. CASE next.step # "none"
  <2>1. PICK y : y = next
    OBVIOUS
  <2>2. y \in Asks /\ Works(y)' /\ (y.of = x.of \/ y.of = Len(inquiries) + 1)
    BY <1>2, <1>3, <1>6, <2>1, FollowsStep
  <2>3. Assistant!Goes(k, y) /\ UNCHANGED drawer
    BY <1>3, <1>6, <2>1
  <2>4. Desk'
    BY <1>1, <1>2, <1>4, <2>2, <2>3, DeskMoves
  <2>5. Told'
    BY <1>2, <1>4, <2>3, ToldStays
  <2> QED BY <1>4, <1>5, <2>4, <2>5 DEF AnswersInv
<1>7. CASE next.step = "none"
  <2>1. PICK ok \in BOOLEAN : ok = (x.step # "fail")
    OBVIOUS
  <2>2. Assistant!Goes(k, Assistant!NoAsk) /\ Assistant!Heard(x, ok)
    BY <1>1, <1>3, <1>7, <2>1 DEF Assistant!Over
  <2>3. PICK y \in Asks : y = Assistant!NoAsk /\ y.of = 0 /\ Works(y)'
    BY <1>2, <1>4, NoAskWorks DEF Others
  <2>4. Desk'
    BY <1>1, <1>2, <1>4, <2>2, <2>3, DeskMoves
  <2>5. Assistant!After(x) = "none"
    BY <1>7 DEF Asks
  <2>6. x.step \in {"finish", "fail"} \/ x.of = 0
    BY <1>2, <2>5 DEF Assistant!After, Works, Asks, Assistant!Steps
  <2>7. ok => Completed(x.of)'
    BY <1>4, <2>1, <2>6 DEF Completed
  <2>8. x.chat \in 0 .. Len(chats')
    BY <1>2, <1>4, Lengths DEF Works, Others, Shelf, ChatsTyped
  <2>9. Told'
    BY <1>2, <1>4, <2>2, <2>7, <2>8, HeardStep
  <2> QED BY <1>4, <1>5, <2>4, <2>9 DEF AnswersInv
<1> QED BY <1>6, <1>7

\* The manager sends a question.
LEMMA SendStep ==
  ASSUME AnswersInv, NEW k \in Slots, NEW small \in BOOLEAN, Assistant!handleSend(k, small)
  PROVE  AnswersInv'
<1>1. Shelf /\ Desk /\ Told /\ Fetched /\ Len(chats) \in Nat /\ Len(inquiries) \in Nat
  BY Lengths DEF AnswersInv, Shelf
<1>2. /\ UNCHANGED <<chats, inquiries, errands>>
      /\ Assistant!Goes(k, [Assistant!NoAsk EXCEPT !.step = "ensure", !.chat = drawer.chat,
                                                   !.small = small, !.heard = TRUE])
      /\ drawer' = [drawer EXCEPT !.thinking = TRUE, !.messages = Append(@, [kind |-> "question", of |-> 0])]
  BY DEF Assistant!handleSend
<1>3. PICK d \in Drawers : d = drawer /\ d.chat \in 0 .. Len(chats)
  BY <1>1 DEF Told
<1>4. Shelf' /\ Others(0)
  BY <1>1, <1>2, Idle
<1>5. Others(asks[k].of)
  BY <1>4 DEF Others
<1>6. PICK y : y = [Assistant!NoAsk EXCEPT !.step = "ensure", !.chat = d.chat, !.small = small, !.heard = TRUE]
  OBVIOUS
<1>7. y \in Asks /\ y.of = 0 /\ y.step = "ensure" /\ y.chat = d.chat
  <2>1. Assistant!NoAsk \in Asks /\ Assistant!NoAsk.of = 0 /\ d.chat \in Nat
    BY <1>1, NoAskWorks DEF Drawers
  <2> QED BY <1>6, <2>1 DEF Asks, Assistant!Steps
<1>8. Works(y)
  BY <1>1, <1>3, <1>7 DEF Works
<1>9. Assistant!Goes(k, y)
  BY <1>2, <1>3, <1>6
<1>10. Desk'
  BY <1>1, <1>4, <1>5, <1>7, <1>8, <1>9, DeskMoves DEF Others
<1>11. Told'
  <2>1. d.messages \in Seq(Shown) /\ [kind |-> "question", of |-> 0] \in Shown
    BY DEF Drawers, Shown
  <2>2. PICK m \in Shown : m = [kind |-> "question", of |-> 0]
    BY <2>1
  <2>3. Append(d.messages, m) \in Seq(Shown)
    BY <2>1
  <2>4. drawer' = [d EXCEPT !.thinking = TRUE, !.messages = Append(@, m)]
    BY <1>2, <1>3, <2>2
  <2>5. drawer' \in Drawers /\ drawer'.chat = d.chat /\ drawer'.messages = Append(d.messages, m)
    BY <2>3, <2>4 DEF Drawers
  <2>6. ASSUME NEW i \in DOMAIN drawer'.messages, drawer'.messages[i].kind = "answer"
        PROVE  Completed(drawer.messages[i].of)'
    <3>1. (i \in DOMAIN d.messages /\ drawer'.messages[i] = d.messages[i]) \/ drawer'.messages[i] = m
      BY <2>1, <2>5
    <3>2. i \in DOMAIN drawer.messages /\ drawer'.messages[i] = drawer.messages[i]
      BY <1>3, <2>2, <2>6, <3>1
    <3> QED BY <1>1, <1>2, <2>6, <3>2 DEF Told, Completed
  <2> QED BY <1>2, <1>3, <2>5, <2>6 DEF Told
<1>12. Fetched'
  BY <1>1, <1>2 DEF Fetched
<1> QED BY <1>4, <1>10, <1>11, <1>12 DEF AnswersInv

\* The proxy gives up on a question.
LEMMA GivesUpStep ==
  ASSUME AnswersInv, NEW k \in Slots, Assistant!GivesUp(k)
  PROVE  AnswersInv'
<1>1. Shelf /\ Desk /\ Told /\ Fetched
  BY DEF AnswersInv
<1>2. PICK x \in Asks : x = asks[k] /\ Works(x)
  BY <1>1 DEF Desk
<1>3. /\ UNCHANGED <<chats, inquiries, errands>>
      /\ Assistant!Goes(k, [x EXCEPT !.heard = FALSE]) /\ Assistant!Heard(x, FALSE)
  BY <1>2 DEF Assistant!GivesUp
<1>4. Shelf' /\ Others(0)
  BY <1>1, <1>3, Idle
<1>5. Others(asks[k].of)
  BY <1>4 DEF Others
<1>6. PICK y : y = [x EXCEPT !.heard = FALSE]
  OBVIOUS
<1>7. y \in Asks /\ y.of = x.of /\ y.step = x.step /\ y.chat = x.chat /\ y.small = x.small
  BY <1>6 DEF Asks
<1>8. Works(y)
  BY <1>2, <1>7 DEF Works
<1>9. Works(y)' /\ Assistant!Goes(k, y)
  <2>1. y.of = 0 \/ y.of # 0
    OBVIOUS
  <2> QED BY <1>3, <1>4, <1>6, <1>7, <1>8 DEF Others
<1>10. Desk'
  BY <1>1, <1>2, <1>4, <1>5, <1>7, <1>9, DeskMoves
<1>11. x.chat \in 0 .. Len(chats')
  BY <1>2, <1>3 DEF Works
<1>12. Told'
  BY <1>1, <1>3, <1>4, <1>11, HeardStep
<1>13. Fetched'
  BY <1>1, <1>3 DEF Fetched
<1> QED BY <1>4, <1>10, <1>12, <1>13 DEF AnswersInv

\* The backend dies.
LEMMA CrashStep ==
  ASSUME AnswersInv, Assistant!Crash
  PROVE  AnswersInv'
<1>1. Shelf /\ Desk /\ Told /\ Fetched
  BY DEF AnswersInv
<1>2. /\ UNCHANGED <<chats, inquiries>>
      /\ asks' = [k \in Slots |-> Assistant!NoAsk] /\ errands' = {}
      /\ (\E k \in Slots : Assistant!Heard(asks[k], FALSE)) \/ UNCHANGED drawer
  BY DEF Assistant!Crash
<1>3. Shelf' /\ Others(0)
  BY <1>1, <1>2, Idle
<1>4. Told'
  <2>1. CASE UNCHANGED drawer
    BY <1>1, <1>3, <2>1, ToldStays
  <2>2. ASSUME NEW k \in Slots, Assistant!Heard(asks[k], FALSE) PROVE Told'
    <3>1. PICK x \in Asks : x = asks[k] /\ Works(x)
      BY <1>1 DEF Desk
    <3>2. x.chat \in 0 .. Len(chats')
      BY <1>2, <3>1 DEF Works
    <3> QED BY <1>1, <1>3, <2>2, <3>1, <3>2, HeardStep
  <2> QED BY <1>2, <2>1, <2>2
<1>5. Desk'
  <2>1. PICK y \in Asks : y = Assistant!NoAsk /\ y.of = 0 /\ Works(y)'
    BY <1>1, <1>3, NoAskWorks DEF Others
  <2>2. \A k \in Slots : asks'[k] = y
    BY <1>2, <2>1
  <2>3. OwnRuns'
    BY <2>1, <2>2 DEF OwnRuns
  <2>4. ASSUME NEW k \in Slots PROVE Works(asks[k])'
    BY <2>1, <2>2 DEF Works
  <2>5. asks' \in [Slots -> Asks]
    BY <1>2, <2>1
  <2> QED BY <2>3, <2>4, <2>5 DEF Desk
<1>6. Fetched'
  BY <1>2 DEF Fetched
<1> QED BY <1>3, <1>4, <1>5, <1>6 DEF AnswersInv

\* A new conversation is begun.
LEMMA ClearStep ==
  ASSUME AnswersInv, Assistant!clearChat
  PROVE  AnswersInv'
<1>1. Shelf /\ Desk /\ Told /\ Fetched /\ Len(chats) \in Nat
  BY Lengths DEF AnswersInv, Shelf
<1>2. /\ UNCHANGED <<chats, inquiries, asks, errands>>
      /\ drawer' = [drawer EXCEPT !.chat = 0, !.messages = <<>>]
  BY DEF Assistant!clearChat
<1>3. Shelf' /\ Others(0)
  BY <1>1, <1>2, Idle
<1>4. Desk'
  BY <1>1, <1>2, <1>3, DeskStays
<1>5. Told'
  <2>1. <<>> \in Seq(Shown)
    OBVIOUS
  <2>2. drawer' \in Drawers /\ drawer'.chat = 0 /\ drawer'.messages = <<>>
    BY <1>1, <1>2, <2>1 DEF Told, Drawers
  <2> QED BY <1>1, <1>2, <2>2 DEF Told
<1>6. Fetched'
  BY <1>1, <1>2 DEF Fetched
<1> QED BY <1>3, <1>4, <1>5, <1>6 DEF AnswersInv

\* A conversation is asked for, or what was asked for is lost.
LEMMA ErrandStep ==
  ASSUME AnswersInv, UNCHANGED <<chats, inquiries, asks, drawer>>,
         \/ \E c \in Assistant!Chats, verb \in {"GET", "DELETE"} : Assistant!SendsFor(c, verb)
         \/ errands' \subseteq errands
  PROVE  AnswersInv'
<1>1. Shelf /\ Desk /\ Told /\ Fetched /\ Len(chats) \in Nat
  BY Lengths DEF AnswersInv, Shelf
<1>2. Shelf' /\ Others(0)
  BY <1>1, QuietStep
<1>3. Desk' /\ Told'
  BY <1>1, <1>2, DeskStays, ToldStays
<1>4. ASSUME NEW c \in Assistant!Chats, NEW verb \in {"GET", "DELETE"}, Assistant!SendsFor(c, verb)
      PROVE  Fetched'
  <2>1. PICK e : e = [verb |-> verb, chat |-> c, seen |-> drawer.chat, served |-> FALSE, messages |-> <<>>]
    OBVIOUS
  <2>2. <<>> \in Seq(Message) /\ c \in 1 .. Len(chats) /\ c \in Nat /\ drawer.chat \in Nat
    BY <1>1 DEF Assistant!Chats, Told
  <2>3. e \in Errands /\ e.chat \in 1 .. Len(chats)
    BY <2>1, <2>2 DEF Errands
  <2>4. errands' = errands \cup {e}
    BY <1>4, <2>1 DEF Assistant!SendsFor
  <2> QED BY <1>1, <2>3, <2>4 DEF Fetched
<1>5. errands' \subseteq errands => Fetched'
  BY <1>1 DEF Fetched
<1> QED BY <1>2, <1>3, <1>4, <1>5 DEF AnswersInv

\* A conversation is read or deleted.
LEMMA ServesStep ==
  ASSUME AnswersInv, NEW e \in errands, Assistant!Serves(e)
  PROVE  AnswersInv'
<1>1. Shelf /\ Desk /\ Told /\ Fetched /\ Len(chats) \in Nat
  BY Lengths DEF AnswersInv, Shelf
<1>2. e \in Errands /\ e.chat \in 1 .. Len(chats)
  BY <1>1 DEF Fetched
<1>3. /\ UNCHANGED <<inquiries, asks, drawer>>
      /\ chats' = chats \/ chats' = [chats EXCEPT ![e.chat].deleted = TRUE]
      /\ errands' \subseteq errands \cup {[e EXCEPT !.served = TRUE, !.messages = chats[e.chat].messages]}
  BY DEF Assistant!Serves
<1>4. Shelf' /\ Others(0)
  BY <1>1, <1>2, <1>3, QuietStep
<1>5. Desk' /\ Told'
  BY <1>1, <1>3, <1>4, DeskStays, ToldStays
<1>6. Fetched'
  <2>1. chats[e.chat].messages \in Seq(Message)
    <3>1. chats[e.chat] \in Conversations
      BY <1>1, <1>2, Replaced DEF Shelf, ChatsTyped
    <3> QED BY <3>1 DEF Conversations
  <2>2. PICK f : f = [e EXCEPT !.served = TRUE, !.messages = chats[e.chat].messages]
    OBVIOUS
  <2>3. f \in Errands /\ f.chat = e.chat
    BY <1>2, <2>1, <2>2 DEF Errands
  <2>4. \A g \in errands' : g \in errands \/ g = f
    BY <1>3, <2>2
  <2>5. Len(chats') \in Nat /\ Len(chats) <= Len(chats')
    BY <1>4 DEF Others, Shelf, ChatsTyped
  <2>6. ASSUME NEW g \in errands' PROVE g \in Errands /\ g.chat \in 1 .. Len(chats')
    <3>1. g \in Errands /\ g.chat \in 1 .. Len(chats)
      BY <1>1, <1>2, <2>3, <2>4 DEF Fetched
    <3> QED BY <1>1, <2>5, <3>1
  <2> QED BY <2>6 DEF Fetched
<1> QED BY <1>4, <1>5, <1>6 DEF AnswersInv

\* The drawer shows a conversation that was read, or none.
LEMMA ArrivesStep ==
  ASSUME AnswersInv, NEW e \in errands, Assistant!Arrives(e)
  PROVE  AnswersInv'
<1>1. Shelf /\ Desk /\ Told /\ Fetched /\ Len(chats) \in Nat
  BY Lengths DEF AnswersInv, Shelf
<1>2. e \in Errands /\ e.chat \in 1 .. Len(chats)
  BY <1>1 DEF Fetched
<1>3. UNCHANGED <<chats, inquiries, asks>> /\ errands' \subseteq errands
  BY DEF Assistant!Arrives
<1>4. Shelf' /\ Others(0)
  BY <1>1, <1>3, Idle
<1>5. Desk' /\ Fetched'
  BY <1>1, <1>3, <1>4, DeskStays, FetchedStays
<1>6. CASE UNCHANGED drawer
  BY <1>1, <1>4, <1>5, <1>6, ToldStays DEF AnswersInv
<1>7. ASSUME NEW c \in 0 .. Len(chats), NEW s \in Seq(Shown), \A i \in DOMAIN s : s[i].kind # "answer",
             drawer' = [drawer EXCEPT !.chat = c, !.messages = s]
      PROVE  Told'
  <2>1. drawer \in Drawers /\ c \in Nat
    BY <1>1 DEF Told
  <2>2. drawer' \in Drawers /\ drawer'.chat = c /\ drawer'.messages = s
    BY <1>7, <2>1 DEF Drawers
  <2> QED BY <1>3, <1>7, <2>2 DEF Told
<1>8. ASSUME drawer' = [drawer EXCEPT !.chat = 0, !.messages = <<>>] PROVE Told'
  <2>1. 0 \in 0 .. Len(chats) /\ <<>> \in Seq(Shown) /\ DOMAIN <<>> = {}
    BY <1>1
  <2> QED BY <1>7, <1>8, <2>1
<1>9. CASE e.verb = "GET"
  <2> DEFINE s == [i \in DOMAIN e.messages |-> [kind |-> "saved", of |-> e.messages[i].of]]
  <2>1. e.messages \in Seq(Message)
    BY <1>2 DEF Errands
  <2>2. \A i \in DOMAIN e.messages : e.messages[i] \in Message
    BY <2>1
  <2>3. \A i \in DOMAIN e.messages : s[i] \in Shown /\ s[i].kind # "answer"
    BY <2>2 DEF Message, Shown
  <2>4. s \in Seq(Shown)
    <3>1. PICK n \in Nat : DOMAIN e.messages = 1 .. n
      BY <2>1
    <3>2. s \in [1 .. n -> Shown]
      BY <2>3, <3>1
    <3> HIDE DEF s
    <3> QED BY <3>2
  <2>5. drawer' = [drawer EXCEPT !.chat = e.chat, !.messages = s]
    BY <1>9 DEF Assistant!Arrives
  <2>6. e.chat \in 0 .. Len(chats)
    BY <1>1, <1>2
  <2>7. DOMAIN s = DOMAIN e.messages
    OBVIOUS
  <2> HIDE DEF s
  <2>8. Told'
    BY <1>7, <2>3, <2>4, <2>5, <2>6, <2>7
  <2> QED BY <1>4, <1>5, <2>8 DEF AnswersInv
<1>10. \/ UNCHANGED drawer \/ e.verb = "GET"
       \/ drawer' = [drawer EXCEPT !.chat = 0, !.messages = <<>>]
  BY DEF Assistant!Arrives
<1> QED BY <1>4, <1>5, <1>6, <1>8, <1>9, <1>10 DEF AnswersInv

LEMMA AnswersNext ==
  ASSUME AnswersInv, Assistant!Next
  PROVE  AnswersInv'
<1>1. ASSUME NEW k \in Slots, Assistant!Refused(k) PROVE AnswersInv'
  BY <1>1, RaisesStep DEF Assistant!Refused
<1>2. ASSUME NEW k \in Slots, Assistant!CallFails(k) PROVE AnswersInv'
  BY <1>2, RaisesStep DEF Assistant!CallFails
<1>3. ASSUME NEW c \in Assistant!Chats, NEW verb \in {"GET", "DELETE"}, Assistant!SendsFor(c, verb)
      PROVE  AnswersInv'
  <2>1. UNCHANGED <<chats, inquiries, asks, drawer>>
    BY <1>3 DEF Assistant!SendsFor
  <2> QED BY <1>3, <2>1, ErrandStep
<1>4. ASSUME NEW e \in errands, Assistant!Lost(e) PROVE AnswersInv'
  <2>1. UNCHANGED <<chats, inquiries, asks, drawer>> /\ errands' \subseteq errands
    BY <1>4 DEF Assistant!Lost
  <2> QED BY <2>1, ErrandStep
<1> QED
  BY <1>1, <1>2, <1>3, <1>4, AdvancesStep, SendStep, GivesUpStep, ClearStep, CrashStep,
           ServesStep, ArrivesStep DEF Assistant!Next, Assistant!Answers

LEMMA AnswersInit ==
  ASSUME Assistant!Init
  PROVE  AnswersInv
<1>1. chats = <<>> /\ inquiries = <<>> /\ errands = {}
  BY DEF Assistant!Init
<1>2. Len(chats) = 0 /\ Len(inquiries) = 0 /\ ChatsTyped
  BY <1>1 DEF ChatsTyped
<1>3. Shelf
  BY <1>2 DEF Shelf, NamesRuns, Msgs
<1>4. Desk
  <2>1. PICK y \in Asks : y = Assistant!NoAsk /\ y.of = 0 /\ Works(y)
    BY <1>3, NoAskWorks
  <2>2. asks = [k \in Slots |-> y]
    BY <2>1 DEF Assistant!Init
  <2> QED BY <2>1, <2>2 DEF Desk, OwnRuns
<1>5. Told
  <2>1. drawer = [chat |-> 0, thinking |-> FALSE, messages |-> <<>>]
    BY DEF Assistant!Init
  <2> QED BY <1>2, <2>1 DEF Told, Drawers
<1> QED BY <1>1, <1>3, <1>4, <1>5 DEF AnswersInv, Fetched

\* What is filed can be read again.
LEMMA AnswersRead ==
  ASSUME AnswersInv
  PROVE  Assistant!AnswersKept
<1>1. Shelf /\ Told /\ Len(chats) \in Nat /\ Len(inquiries) \in Nat
  BY Lengths DEF AnswersInv, Shelf
<1>2. ASSUME NEW r \in Assistant!Inquiries
      PROVE  /\ r \in Nat /\ Filed(r) /\ inquiries[r].chat \in Assistant!Chats
             /\ \A c \in Assistant!Chats : c \in Nat /\ Msgs(c) = chats[c].messages
  BY <1>1 DEF Assistant!Inquiries, Assistant!Chats, Shelf, Filed, Msgs
<1>3. ASSUME NEW r \in Assistant!Inquiries, NEW c \in Assistant!Chats \ {inquiries[r].chat}
      PROVE  Assistant!At(c, "user", r) \cup Assistant!At(c, "assistant", r) = {}
  <2>1. Unasked(c, r) /\ Msgs(c) = chats[c].messages
    BY <1>2 DEF Filed
  <2> QED BY <2>1 DEF Unasked, Has, Assistant!At
<1>4. ASSUME NEW r \in Assistant!Inquiries, inquiries[r].status = "completed"
      PROVE  \E q, a \in DOMAIN chats[inquiries[r].chat].messages :
               /\ q < a /\ Assistant!At(inquiries[r].chat, "user", r) = {q}
               /\ Assistant!At(inquiries[r].chat, "assistant", r) = {a}
  <2>1. PICK c \in Assistant!Chats : c = inquiries[r].chat
    BY <1>2
  <2>2. Msgs(c) = chats[c].messages /\ Answered(c, r)
    BY <1>2, <1>4, <2>1 DEF Filed
  <2>3. PICK q, a \in Nat : q < a /\ Once(c, "user", r, q) /\ Once(c, "assistant", r, a)
    BY <2>2 DEF Answered
  <2>4. q \in DOMAIN chats[c].messages /\ Assistant!At(c, "user", r) = {q}
    BY <2>2, <2>3 DEF Once, Assistant!At
  <2>5. a \in DOMAIN chats[c].messages /\ Assistant!At(c, "assistant", r) = {a}
    BY <2>2, <2>3 DEF Once, Assistant!At
  <2> QED BY <2>1, <2>3, <2>4, <2>5
<1>5. ASSUME NEW i \in DOMAIN drawer.messages,
             drawer.messages[i].kind = "answer", drawer.messages[i].of # 0
      PROVE  inquiries[drawer.messages[i].of].status = "completed"
  BY <1>1, <1>5 DEF Told, Completed
<1> QED BY <1>3, <1>4, <1>5 DEF Assistant!AnswersKept

AnswersFiled == desk = "assistant" => AnswersInv

LEMMA AnswersFiledNext ==
  ASSUME AnswersFiled, [Next]_vars
  PROVE  AnswersFiled'
<1>1. UNCHANGED desk
  BY DEF Next, vars, AtOrders, AtDecisions, AtForecasts, AtExpenses, AtReceipts, AtSessions,
         AtAccounts, AtFloorPlan, AtAssistant, AtDays
<1> SUFFICES ASSUME desk = "assistant" PROVE AnswersInv'
  BY <1>1 DEF AnswersFiled
<1>2. AnswersInv /\ (Assistant!Next \/ UNCHANGED AssistantVars)
  BY DEF AnswersFiled, Next, vars, AtOrders, AtDecisions, AtForecasts, AtExpenses,
      AtReceipts,
         AtSessions, AtAccounts, AtFloorPlan, AtDays
<1>3. CASE UNCHANGED AssistantVars
  <2>1. UNCHANGED <<chats, inquiries, asks, drawer>> /\ errands' \subseteq errands
    BY <1>3 DEF AssistantVars
  <2> QED BY <1>2, <2>1, ErrandStep
<1> QED BY <1>2, <1>3, AnswersNext

\* In the portal: a completed question can be read again in its conversation and in
\* no other, its answer after it, and what the drawer received as an answer is of
\* such a question, however the transactions of answer_question fail, are not heard
\* of or are cut off by a crash (answer_question, assistant_finish).
THEOREM PortalKeepsAnswers == Spec => []AnswersKept
<1>1. Init => AnswersFiled
  BY AnswersInit DEF Init, AnswersFiled
<1>2. AnswersFiled /\ [Next]_vars => AnswersFiled'
  BY AnswersFiledNext
<1>3. AnswersFiled => AnswersKept
  BY AnswersRead DEF AnswersFiled, AnswersKept
<1> QED BY <1>1, <1>2, <1>3, PTL DEF Spec

-----------------------------------------------------------------------------
\* The orders.  A row that a list, a card or a dialog holds is of an order, and as
\* long as the order has the version of the row it has its status too.
OrderStatuses == Orders!Active \cup Orders!Ended
OrderRecords == [status : OrderStatuses, version : Nat \ {0}, by : {Me, Other}, day : 0 .. 1, done : 0 .. 1]
OrderRows == [n : Nat, status : OrderStatuses, version : Nat, by : {Me, Other}, day : 0 .. 1, done : 0 .. 1]
Behind(r) ==
  /\ r.n \in 1 .. Len(orders) /\ r.version <= orders[r.n].version
  /\ r.version = orders[r.n].version => r.status = orders[r.n].status
Read == {r \in OrderRows : Behind(r)}

\* What the page holds, when the rows are those of a set.
Dialogs(S) ==
  {Orders!NoDialog} \cup [kind : {"cancel", "order"}, row : S, placed : BOOLEAN]
  \cup [kind : {"new"}, row : {Orders!NoRow}, placed : BOOLEAN]
ScreenOf(S, s) ==
  s \in [at : {"open", "left"}, portal : Orders!Portals, tab : Orders!Tabs(s.portal),
         search : Orders!Searches, rows : Seq(S), staff : {s.staff}, dates : {s.dates},
         stage : {s.stage}, dialog : Dialogs(S), error : {s.error}]
OrderLoads(S) ==
  {Orders!NoLoad} \cup [step : {"me", "page", "rest"}, search : Orders!Searches, own : BOOLEAN,
                        first : Seq(S), total : Nat]
ClickOf(S, c) ==
  /\ c.step \in {"none", "sent", "saved", "loading"}
  /\ c.step # "none" =>
       c \in [step : {"sent", "saved", "loading"}, kind : {"next", "cancel", "order", "new"},
              row : {c.row}, to : OrderStatuses, search : Orders!Searches,
              here : {c.here}, asked : {c.asked}]
  /\ c.step # "none" /\ c.kind # "new" => c.row \in S

OrdersTyped ==
  /\ orders \in Seq(OrderRecords)
  /\ station \in Orders!Portals \cup {"inactive"} /\ today \in 0 .. 1
OrdersInv ==
  /\ OrdersTyped
  /\ ScreenOf(Read, screen) /\ orderLoads \in [Slots -> OrderLoads(Read)] /\ ClickOf(Read, click)
\* After a step, the rows are of the orders before it.
HoldsRead ==
  ScreenOf(Read, screen') /\ orderLoads' \in [Slots -> OrderLoads(Read)] /\ ClickOf(Read, click')

LEMMA Monotone ==
  ASSUME NEW S, NEW T, S \subseteq T
  PROVE  /\ Seq(S) \subseteq Seq(T) /\ Dialogs(S) \subseteq Dialogs(T) /\ OrderLoads(S) \subseteq OrderLoads(T)
         /\ \A s : ScreenOf(S, s) => ScreenOf(T, s)
         /\ \A c : ClickOf(S, c) => ClickOf(T, c)
<1>1. Seq(S) \subseteq Seq(T) BY SeqMonotonic
<1>2. Dialogs(S) \subseteq Dialogs(T) BY DEF Dialogs
<1>3. OrderLoads(S) \subseteq OrderLoads(T) BY <1>1 DEF OrderLoads
<1>4. \A s : ScreenOf(S, s) => ScreenOf(T, s) BY <1>1, <1>2 DEF ScreenOf
<1>5. \A c : ClickOf(S, c) => ClickOf(T, c) BY DEF ClickOf
<1> QED BY <1>1, <1>2, <1>3, <1>4, <1>5

LEMMA RowsKept ==
  ASSUME OrdersTyped', Read \subseteq Read', HoldsRead
  PROVE  OrdersInv'
<1>1. ScreenOf(Read', screen') /\ ClickOf(Read', click') BY Monotone DEF HoldsRead
<1>2. orderLoads' \in [Slots -> OrderLoads(Read')] BY Monotone DEF HoldsRead
<1> QED BY <1>1, <1>2 DEF OrdersInv

-----------------------------------------------------------------------------
\* The server.
LEMMA OrderMoved ==
  ASSUME OrdersTyped, NEW n \in 1 .. Len(orders), NEW to \in OrderStatuses, Orders!SetOrder(n, to)
  PROVE  orders' \in Seq(OrderRecords) /\ Read \subseteq Read'
<1> DEFINE o == [orders[n] EXCEPT !.status = to, !.version = @ + 1,
                                  !.done = IF to = "completed" THEN today ELSE @]
<1>1. orders[n] \in OrderRecords /\ today \in 0 .. 1 /\ orders \in Seq(OrderRecords) BY DEF OrdersTyped
<1>2. o \in OrderRecords /\ o.version = orders[n].version + 1
  <2>1. (IF to = "completed" THEN today ELSE orders[n].done) \in 0 .. 1 BY <1>1 DEF OrderRecords
  <2>2. orders[n].version + 1 \in Nat \ {0} BY <1>1 DEF OrderRecords
  <2> QED BY <1>1, <2>1, <2>2 DEF OrderRecords
<1>3. orders' = [orders EXCEPT ![n] = o] BY DEF Orders!SetOrder
<1> HIDE DEF o
<1>4. /\ orders' \in Seq(OrderRecords) /\ Len(orders') = Len(orders)
      /\ \A m \in 1 .. Len(orders) : orders'[m] = IF m = n THEN o ELSE orders[m]
  BY <1>1, <1>2, <1>3, ExceptSeq
<1>5. ASSUME NEW r \in Read PROVE r \in Read'
  <2>1. r \in OrderRows /\ r.version \in Nat /\ r.n \in 1 .. Len(orders) BY DEF Read, Behind, OrderRows
  <2>2. CASE r.n = n BY <1>1, <1>2, <1>4, <2>1, <2>2 DEF Read, Behind, OrderRecords
  <2>3. CASE r.n # n BY <1>4, <2>1, <2>3 DEF Read, Behind
  <2> QED BY <2>2, <2>3
<1> QED BY <1>4, <1>5

LEMMA OrderPlaced ==
  ASSUME OrdersTyped, NEW by \in {Me, Other}, orders' = Orders!Placed(by)
  PROVE  orders' \in Seq(OrderRecords) /\ Read \subseteq Read'
<1> DEFINE o == [status |-> "pending", version |-> 1, by |-> by, day |-> today, done |-> 0]
<1>1. o \in OrderRecords BY DEF OrdersTyped, OrderRecords, OrderStatuses, Orders!Active
<1>2. orders' = Append(orders, o) /\ orders \in Seq(OrderRecords) BY DEF Orders!Placed, OrdersTyped
<1> HIDE DEF o
<1>3. /\ orders' \in Seq(OrderRecords) /\ Len(orders) \in Nat /\ Len(orders') = Len(orders) + 1
      /\ \A m \in 1 .. Len(orders) : orders'[m] = orders[m]
  BY <1>1, <1>2
<1> QED BY <1>3 DEF Read, Behind

LEMMA RowRead ==
  ASSUME OrdersTyped, NEW n \in 1 .. Len(orders)
  PROVE  Orders!Row(n) \in Read
<1>1. orders[n] \in OrderRecords BY DEF OrdersTyped
<1> QED BY <1>1 DEF Orders!Row, Read, Behind, OrderRows, OrderRecords

\* The portal and a desk count with the same operator under two names.
LEMMA SameCardinality ==
  ASSUME NEW S
  PROVE  Orders!Cardinality(S) = Cardinality(S) /\ Expenses!Cardinality(S) = Cardinality(S)
BY DEF Orders!Cardinality, Expenses!Cardinality, Cardinality

\* As many are found as match, and no more than there are.
LEMMA Counted ==
  ASSUME NEW n \in Nat, NEW S \in SUBSET (1 .. n)
  PROVE  IsFiniteSet(S) /\ Cardinality(S) \in Nat /\ Cardinality(S) <= n
<1>1. IsFiniteSet(1 .. n) /\ Cardinality(1 .. n) = n BY FS_Interval
<1> QED BY <1>1, FS_Subset, FS_CardinalityType

LEMMA FoundRead ==
  ASSUME OrdersTyped, NEW q
  PROVE  Orders!Found(q) \in Seq(Read)
<1> DEFINE matching == {n \in 1 .. Len(orders) : Orders!Matches(n, q)}
           found == Cardinality(matching)
<1>1. Len(orders) \in Nat BY DEF OrdersTyped
<1>2. matching \in SUBSET (1 .. Len(orders)) OBVIOUS
<1>3. found \in Nat /\ found <= Len(orders) BY <1>1, <1>2, Counted
<1>4. Orders!Found(q) = [i \in 1 .. found |-> Orders!Row(found + 1 - i)]
  BY SameCardinality DEF Orders!Found
<1> HIDE DEF matching, found
<1>5. \A i \in 1 .. found : Orders!Row(found + 1 - i) \in Read BY <1>1, <1>3, RowRead
<1> QED BY <1>3, <1>4, <1>5

\* A part of a list.
LEMMA Part ==
  ASSUME NEW S, NEW s \in Seq(S), NEW m \in Nat, NEW n \in Int, n <= Len(s)
  PROVE  SubSeq(s, m + 1, n) \in Seq(S)
<1>1. \A i \in m + 1 .. n : s[i] \in S BY ElementOfSeq
<1> QED BY <1>1, SubSeqProperties

LEMMA LeastOf ==
  ASSUME NEW a \in Int, NEW b \in Int
  PROVE  Orders!Least(a, b) \in Int /\ Orders!Least(a, b) <= b
BY DEF Orders!Least

LEMMA PagesRead ==
  ASSUME OrdersTyped, NEW q, NEW from \in Nat, NEW total \in Nat
  PROVE  Orders!PageAt(q, from) \in Seq(Read) /\ Orders!Pages(q, from, total) \in Seq(Read)
<1>1. Orders!Found(q) \in Seq(Read) /\ Len(Orders!Found(q)) \in Nat BY FoundRead
<1>2. PageSize \in Nat \ {0} BY PortalAssumption
<1>3. from + PageSize \in Int /\ from + ((total - from + PageSize - 1) \div PageSize) * PageSize \in Int
  BY <1>2
<1> DEFINE found == Orders!Found(q)
           last == Orders!Least(from + PageSize, Len(found))
           end == Orders!Least(from + ((total - from + PageSize - 1) \div PageSize) * PageSize, Len(found))
<1>4. last \in Int /\ last <= Len(found) /\ end \in Int /\ end <= Len(found) BY <1>1, <1>3, LeastOf
<1>5. SubSeq(found, from + 1, last) \in Seq(Read) BY <1>1, <1>4, Part
<1>6. SubSeq(found, from + 1, end) \in Seq(Read) BY <1>1, <1>4, Part
<1> QED BY <1>5, <1>6 DEF Orders!PageAt, Orders!Pages

-----------------------------------------------------------------------------
\* The loads.
LEMMA LoadStarts ==
  ASSUME OrdersInv, NEW l \in Slots, NEW q \in Orders!Searches, NEW own \in BOOLEAN,
         orderLoads' = Orders!Started(l, q, own)
  PROVE  orderLoads' \in [Slots -> OrderLoads(Read)]
<1> DEFINE x == [step |-> "me", search |-> q, own |-> own, first |-> <<>>, total |-> 0]
<1>1. x \in OrderLoads(Read) BY EmptySeq DEF OrderLoads
<1>2. orderLoads' = [orderLoads EXCEPT ![l] = x] BY DEF Orders!Started
<1> HIDE DEF x
<1> QED BY <1>1, <1>2 DEF OrdersInv

LEMMA LoadEnds ==
  ASSUME OrdersInv, NEW l \in Slots, orderLoads' = [orderLoads EXCEPT ![l] = Orders!NoLoad]
  PROVE  orderLoads' \in [Slots -> OrderLoads(Read)]
BY DEF OrdersInv, OrderLoads

LEMMA PollStep ==
  ASSUME OrdersInv, NEW l \in Slots, Orders!Poll(l)
  PROVE  HoldsRead
<1>1. screen.search \in Orders!Searches BY DEF OrdersInv, ScreenOf
<1>2. orderLoads' = Orders!Started(l, screen.search, FALSE) BY DEF Orders!Poll, Orders!Starts
<1>3. orderLoads' \in [Slots -> OrderLoads(Read)] BY <1>1, <1>2, LoadStarts
<1> QED BY <1>3 DEF Orders!Poll, OrdersInv, HoldsRead

LEMMA BeginsAnew ==
  ASSUME OrdersInv, NEW portal \in Orders!Portals
  PROVE  ScreenOf(Read, Orders!NewScreen(portal)) /\ ScreenOf(Read, Orders!Gone)
<1>1. ScreenOf(Read, Orders!NewScreen(portal))
  BY EmptySeq DEF Orders!NewScreen, ScreenOf, Orders!Tabs, Orders!Searches, Dialogs
<1>2. ScreenOf(Read, Orders!Gone)
  BY EmptySeq DEF OrdersInv, Orders!Gone, ScreenOf, Dialogs
<1> QED BY <1>1, <1>2

LEMMA LeaveStep ==
  ASSUME OrdersInv, NEW s, ScreenOf(Read, s), Orders!Leave(s)
  PROVE  HoldsRead
<1>1. ScreenOf(Read, screen') BY DEF Orders!Leave
<1>2. orderLoads' \in [Slots -> OrderLoads(Read)] BY DEF Orders!Leave, OrderLoads
<1>3. ClickOf(Read, click')
  <2>1. CASE click.step = "sent"
    BY <2>1 DEF Orders!Leave, OrdersInv, ClickOf
  <2>2. CASE click.step # "sent"
    BY <2>2 DEF Orders!Leave, ClickOf, Orders!NoClick
  <2> QED BY <2>1, <2>2
<1> QED BY <1>1, <1>2, <1>3 DEF HoldsRead

LEMMA MeStep ==
  ASSUME OrdersInv, NEW l \in Slots, Orders!MeAnswers(l)
  PROVE  HoldsRead
<1>1. CASE station = screen.portal
  <2>1. orderLoads' = [orderLoads EXCEPT ![l].step = "page"] /\ orderLoads[l].step = "me"
        /\ UNCHANGED <<screen, click>>
    BY <1>1 DEF Orders!MeAnswers
  <2>2. orderLoads[l] \in OrderLoads(Read) \ {Orders!NoLoad} BY <2>1 DEF OrdersInv, Orders!NoLoad
  <2>3. [orderLoads[l] EXCEPT !.step = "page"] \in OrderLoads(Read) BY <2>2 DEF OrderLoads
  <2>4. orderLoads' \in [Slots -> OrderLoads(Read)] BY <2>1, <2>3 DEF OrdersInv
  <2> QED BY <2>1, <2>4 DEF OrdersInv, HoldsRead
<1>2. CASE station = "inactive" /\ station # screen.portal
  <2>1. Orders!Leave(Orders!Gone) BY <1>2 DEF Orders!MeAnswers
  <2>2. "manager" \in Orders!Portals BY DEF Orders!Portals
  <2> QED BY <2>1, <2>2, BeginsAnew, LeaveStep
<1>3. CASE station # "inactive" /\ station # screen.portal
  <2>1. Orders!Leave(Orders!NewScreen(station)) BY <1>3 DEF Orders!MeAnswers
  <2>2. station \in Orders!Portals BY <1>3 DEF OrdersInv, OrdersTyped
  <2> QED BY <2>1, <2>2, BeginsAnew, LeaveStep
<1> QED BY <1>1, <1>2, <1>3

LEMMA ShowStep ==
  ASSUME OrdersInv, NEW l \in Slots, NEW rows \in Seq(Read), NEW failed, Orders!Show(l, rows, failed)
  PROVE  HoldsRead
<1>1. ScreenOf(Read, screen')
  <2>1. PICK d \in Dialogs(Read) : screen' = [screen EXCEPT !.rows = rows, !.error = failed, !.dialog = d]
    <3>1. Orders!NoDialog \in Dialogs(Read) /\ screen.dialog \in Dialogs(Read)
      BY DEF OrdersInv, ScreenOf, Dialogs
    <3> QED BY <3>1 DEF Orders!Show
  <2> QED BY <2>1 DEF OrdersInv, ScreenOf
<1>2. orderLoads' \in [Slots -> OrderLoads(Read)] BY LoadEnds DEF Orders!Show
<1>3. ClickOf(Read, click') BY DEF Orders!Show, OrdersInv, ClickOf, Orders!NoClick
<1> QED BY <1>1, <1>2, <1>3 DEF HoldsRead

LEMMA PageStep ==
  ASSUME OrdersInv, NEW l \in Slots, Orders!PageAnswers(l)
  PROVE  HoldsRead
<1> DEFINE q == orderLoads[l].search
           first == Orders!PageAt(q, 0)
           total == Len(Orders!Found(q))
<1>1. first \in Seq(Read) /\ total \in Nat BY PagesRead, FoundRead DEF OrdersInv
<1>2. CASE total <= Len(first)
  BY <1>1, <1>2, ShowStep DEF Orders!PageAnswers
<1>3. CASE ~(total <= Len(first))
  <2>1. /\ orderLoads' = [orderLoads EXCEPT ![l].step = "rest", ![l].first = first, ![l].total = total]
        /\ orderLoads[l].step = "page" /\ UNCHANGED <<screen, click>>
    BY <1>3 DEF Orders!PageAnswers
  <2> HIDE DEF first, total
  <2>2. orderLoads[l] \in OrderLoads(Read) \ {Orders!NoLoad} BY <2>1 DEF OrdersInv, Orders!NoLoad
  <2>3. [orderLoads[l] EXCEPT !.step = "rest", !.first = first, !.total = total] \in OrderLoads(Read)
    BY <1>1, <2>2 DEF OrderLoads
  <2>4. orderLoads' \in [Slots -> OrderLoads(Read)] BY <2>1, <2>3 DEF OrdersInv
  <2> QED BY <2>1, <2>4 DEF OrdersInv, HoldsRead
<1> QED BY <1>2, <1>3

LEMMA RestStep ==
  ASSUME OrdersInv, NEW l \in Slots, Orders!RestAnswers(l)
  PROVE  HoldsRead
<1> DEFINE x == orderLoads[l]
           rest == Orders!Pages(x.search, Len(x.first), x.total)
<1>1. x.first \in Seq(Read) /\ x.total \in Nat /\ Len(x.first) \in Nat
  BY DEF Orders!RestAnswers, OrdersInv, OrderLoads, Orders!NoLoad
<1>2. rest \in Seq(Read) BY <1>1, PagesRead DEF OrdersInv
<1>3. x.first \o rest \in Seq(Read) BY <1>1, <1>2, ConcatProperties
<1> QED BY <1>3, ShowStep DEF Orders!RestAnswers

LEMMA FailStep ==
  ASSUME OrdersInv, NEW l \in Slots, Orders!LoadFails(l)
  PROVE  HoldsRead
<1>1. screen.rows \in Seq(Read) BY DEF OrdersInv, ScreenOf
<1> QED BY <1>1, ShowStep DEF Orders!LoadFails

LEMMA AfterSaveStep ==
  ASSUME OrdersInv, NEW l \in Slots, Orders!AfterSave(l)
  PROVE  HoldsRead
<1> DEFINE card == click.kind \in {"next", "cancel"}
<1>1. click.search \in Orders!Searches BY DEF Orders!AfterSave, OrdersInv, ClickOf
<1>2. orderLoads' \in [Slots -> OrderLoads(Read)]
  <2>1. orderLoads' = Orders!Started(l, click.search, card) BY DEF Orders!AfterSave, Orders!Starts
  <2>2. card \in BOOLEAN OBVIOUS
  <2> HIDE DEF card
  <2> QED BY <1>1, <2>1, <2>2, LoadStarts
<1>3. ScreenOf(Read, screen')
  <2>1. CASE card BY <2>1 DEF Orders!AfterSave, OrdersInv
  <2>2. CASE ~card
    <3>1. PICK d \in Dialogs(Read) : screen' = [screen EXCEPT !.dialog = d]
      <4>1. Orders!NoDialog \in Dialogs(Read) /\ screen.dialog \in Dialogs(Read)
        BY DEF OrdersInv, ScreenOf, Dialogs
      <4> QED BY <2>2, <4>1 DEF Orders!AfterSave
    <3> QED BY <3>1 DEF OrdersInv, ScreenOf
  <2> QED BY <2>1, <2>2
<1>4. ClickOf(Read, click')
  <2>1. CASE card
    <3>1. click' = [click EXCEPT !.step = "loading"] /\ click.step = "saved" BY <2>1 DEF Orders!AfterSave
    <3> QED BY <3>1 DEF OrdersInv, ClickOf
  <2>2. CASE ~card BY <2>2 DEF Orders!AfterSave, ClickOf, Orders!NoClick
  <2> QED BY <2>1, <2>2
<1> QED BY <1>2, <1>3, <1>4 DEF HoldsRead

-----------------------------------------------------------------------------
\* Looking around: the rows stay those that were loaded.
LEMMA LookStep ==
  ASSUME OrdersInv, ScreenOf(Read, screen'), orderLoads' \in [Slots -> OrderLoads(Read)], UNCHANGED click
  PROVE  HoldsRead
BY DEF OrdersInv, HoldsRead

LEMMA SearchedStep ==
  ASSUME OrdersInv, NEW l \in Slots, NEW s, ScreenOf(Read, s), Orders!Searched(s, l)
  PROVE  HoldsRead
<1>1. ScreenOf(Read, screen') /\ UNCHANGED click BY DEF Orders!Searched, Orders!Shows
<1>2. s.search \in Orders!Searches BY DEF ScreenOf
<1>3. orderLoads' \in [Slots -> OrderLoads(Read)]
  <2>1. CASE s.search = screen.search BY <2>1 DEF Orders!Searched, OrdersInv
  <2>2. CASE s.search # screen.search
    <3>1. orderLoads' = Orders!Started(l, s.search, FALSE) BY <2>2 DEF Orders!Searched, Orders!Starts
    <3> QED BY <1>2, <3>1, LoadStarts
  <2> QED BY <2>1, <2>2
<1> QED BY <1>1, <1>3, LookStep

LEMMA TabTurned ==
  ASSUME NEW s, ScreenOf(Read, s), NEW tab \in Orders!Tabs(s.portal)
  PROVE  ScreenOf(Read, Orders!OnTab(s, tab))
BY DEF ScreenOf, Orders!OnTab

LEMMA LookingStep ==
  ASSUME OrdersInv, Orders!Looking
  PROVE  HoldsRead
<1> USE DEF OrdersInv
<1>1. ASSUME NEW l \in Slots, NEW q \in Orders!Searches, Orders!Type(q, l) PROVE HoldsRead
  <2>1. ScreenOf(Read, [screen EXCEPT !.search = q]) BY DEF ScreenOf
  <2> QED BY <1>1, <2>1, SearchedStep DEF Orders!Type
<1>2. ASSUME NEW l \in Slots, NEW tab, Orders!Navigate(tab, l) PROVE HoldsRead
  <2> DEFINE s == [screen EXCEPT !.search = ""]
  <2>1. ScreenOf(Read, s) /\ s.portal = screen.portal BY DEF ScreenOf, Orders!Searches
  <2>2. tab \in Orders!Tabs(screen.portal) /\ Orders!Searched(Orders!OnTab(s, tab), l)
    BY <1>2 DEF Orders!Navigate
  <2> HIDE DEF s
  <2> QED BY <2>1, <2>2, TabTurned, SearchedStep
<1>3. ASSUME Orders!ToHistory PROVE HoldsRead
  <2>1. "history" \in Orders!Tabs(screen.portal) BY <1>3 DEF Orders!ToHistory, Orders!Tabs
  <2>2. ScreenOf(Read, Orders!OnTab(screen, "history")) BY <2>1, TabTurned
  <2> QED BY <1>3, <2>2, LookStep DEF Orders!ToHistory, Orders!Shows
<1>4. ASSUME NEW p, Orders!ViewOrders(p) PROVE HoldsRead
  <2> DEFINE s == [screen EXCEPT !.staff = p]
  <2>1. ScreenOf(Read, s) /\ s.portal = screen.portal BY DEF ScreenOf
  <2>2. "overview" \in Orders!Tabs(screen.portal) BY DEF Orders!Tabs
  <2>3. screen' = Orders!OnTab(s, "overview") /\ UNCHANGED <<orderLoads, click>>
    BY <1>4 DEF Orders!ViewOrders, Orders!Shows
  <2> HIDE DEF s
  <2> QED BY <2>1, <2>2, <2>3, TabTurned, LookStep
<1>5. ASSUME NEW t, Orders!PickStage(t) PROVE HoldsRead
  <2>1. screen' = [screen EXCEPT !.stage = t] /\ UNCHANGED <<orderLoads, click>>
    BY <1>5 DEF Orders!PickStage, Orders!Shows
  <2>2. ScreenOf(Read, screen') BY <2>1 DEF ScreenOf
  <2> QED BY <2>1, <2>2, LookStep
<1>6. ASSUME NEW from, NEW to, Orders!PickDates(from, to) PROVE HoldsRead
  <2>1. screen' = [screen EXCEPT !.dates = <<from, to>>] /\ UNCHANGED <<orderLoads, click>>
    BY <1>6 DEF Orders!PickDates, Orders!Shows
  <2>2. ScreenOf(Read, screen') BY <2>1 DEF ScreenOf
  <2> QED BY <2>1, <2>2, LookStep
<1>7. ASSUME Orders!Back PROVE HoldsRead
  <2>1. screen.portal \in Orders!Portals BY DEF ScreenOf
  <2> QED BY <1>7, <2>1, BeginsAnew, LeaveStep DEF Orders!Back
<1>8. ASSUME Orders!SignOut PROVE HoldsRead
  <2>1. screen.portal \in Orders!Portals BY DEF ScreenOf
  <2> QED BY <1>8, <2>1, BeginsAnew, LeaveStep DEF Orders!SignOut
<1> QED BY <1>1, <1>2, <1>3, <1>4, <1>5, <1>6, <1>7, <1>8 DEF Orders!Looking

-----------------------------------------------------------------------------
\* Acting on the rows.
LEMMA CommandSent ==
  ASSUME OrdersInv, NEW kind \in {"next", "cancel", "order", "new"}, NEW r, NEW to \in OrderStatuses,
         kind # "new" => r \in Read, Orders!Send(kind, r, to)
  PROVE  HoldsRead
<1>1. screen' = [screen EXCEPT !.error = FALSE] /\ UNCHANGED orderLoads BY DEF Orders!Send
<1>2. ScreenOf(Read, screen') BY <1>1 DEF OrdersInv, ScreenOf
<1>3. ClickOf(Read, click')
  <2>1. click' = [step |-> "sent", kind |-> kind, row |-> r, to |-> to, search |-> screen.search,
                  here |-> TRUE, asked |-> screen.dialog # Orders!NoDialog]
    BY DEF Orders!Send
  <2>2. screen.search \in Orders!Searches BY DEF OrdersInv, ScreenOf
  <2> QED BY <2>1, <2>2 DEF ClickOf
<1> QED BY <1>1, <1>2, <1>3 DEF OrdersInv, HoldsRead

LEMMA ListedRead ==
  ASSUME OrdersInv, NEW r \in Orders!ListedRows
  PROVE  r \in Read
<1>1. screen.rows \in Seq(Read) BY DEF OrdersInv, ScreenOf
<1> QED BY <1>1, ElementOfSeq DEF Orders!ListedRows

LEMMA ActingStep ==
  ASSUME OrdersInv, Orders!Acting, ~\E answered \in BOOLEAN : Orders!Commits(answered)
  PROVE  HoldsRead
<1>1. ASSUME NEW r \in Orders!ListedRows, Orders!ClickNext(r) PROVE HoldsRead
  <2>1. r \in Read BY ListedRead
  <2>2. r.status \in {"pending", "preparing", "ready"} BY <1>1 DEF Orders!ClickNext, Orders!OffersNext
  <2>3. Orders!nextStatus[r.status] \in OrderStatuses
    BY <2>2 DEF Orders!nextStatus, OrderStatuses, Orders!Active, Orders!Ended
  <2>4. Orders!Send("next", r, Orders!nextStatus[r.status]) BY <1>1 DEF Orders!ClickNext
  <2> QED BY <2>1, <2>3, <2>4, CommandSent
<1>2. ASSUME NEW r \in Orders!ListedRows, NEW kind \in {"cancel", "order"}, Orders!Open(kind, r)
      PROVE  HoldsRead
  <2>1. r \in Read BY ListedRead
  <2>2. [kind |-> kind, row |-> r, placed |-> FALSE] \in Dialogs(Read) BY <2>1 DEF Dialogs
  <2>3. screen' = [screen EXCEPT !.dialog = [kind |-> kind, row |-> r, placed |-> FALSE]]
        /\ UNCHANGED <<orderLoads, click>>
    BY <1>2 DEF Orders!Open, Orders!Shows
  <2>4. ScreenOf(Read, screen') BY <2>2, <2>3 DEF OrdersInv, ScreenOf
  <2> QED BY <2>3, <2>4, LookStep DEF OrdersInv
<1>3. ASSUME Orders!TakeNewOrder PROVE HoldsRead
  <2>1. [kind |-> "new", row |-> Orders!NoRow, placed |-> FALSE] \in Dialogs(Read) BY DEF Dialogs
  <2>2. screen' = [screen EXCEPT !.dialog = [kind |-> "new", row |-> Orders!NoRow, placed |-> FALSE]]
        /\ UNCHANGED <<orderLoads, click>>
    BY <1>3 DEF Orders!TakeNewOrder, Orders!Shows
  <2>3. ScreenOf(Read, screen') BY <2>1, <2>2 DEF OrdersInv, ScreenOf
  <2> QED BY <2>2, <2>3, LookStep DEF OrdersInv
<1>4. ASSUME Orders!Dismiss PROVE HoldsRead
  <2>1. Orders!NoDialog \in Dialogs(Read) BY DEF Dialogs
  <2>2. ScreenOf(Read, screen') BY <1>4, <2>1 DEF Orders!Dismiss, OrdersInv, ScreenOf
  <2>3. ClickOf(Read, click') BY <1>4 DEF Orders!Dismiss, OrdersInv, ClickOf
  <2> QED BY <1>4, <2>2, <2>3 DEF Orders!Dismiss, OrdersInv, HoldsRead
<1>5. ASSUME Orders!Submit PROVE HoldsRead
  <2>1. screen.dialog \in Dialogs(Read) BY DEF OrdersInv, ScreenOf
  <2>2. "cancelled" \in OrderStatuses /\ "pending" \in OrderStatuses
    BY DEF OrderStatuses, Orders!Active, Orders!Ended
  <2>3. screen.dialog.kind \in {"cancel", "order"} => screen.dialog.row \in Read
    BY <2>1 DEF Dialogs, Orders!NoDialog
  <2> QED BY <1>5, <2>2, <2>3, CommandSent DEF Orders!Submit
<1>6. ASSUME Orders!Refused PROVE HoldsRead
  <2>1. screen' = [screen EXCEPT !.error = click.here] /\ UNCHANGED orderLoads BY <1>6 DEF Orders!Refused
  <2>2. ScreenOf(Read, screen') BY <2>1 DEF OrdersInv, ScreenOf
  <2>3. ClickOf(Read, click') BY <1>6 DEF Orders!Refused, ClickOf, Orders!NoClick
  <2> QED BY <2>1, <2>2, <2>3 DEF OrdersInv, HoldsRead
<1> QED BY <1>1, <1>2, <1>3, <1>4, <1>5, <1>6 DEF Orders!Acting

LEMMA CommitsStep ==
  ASSUME OrdersInv, NEW answered \in BOOLEAN, Orders!Commits(answered)
  PROVE  HoldsRead
<1>1. ScreenOf(Read, screen')
  <2>1. PICK e, d : d \in Dialogs(Read) /\ screen' = [screen EXCEPT !.error = e, !.dialog = d]
    <3>1. screen.dialog \in Dialogs(Read) BY DEF OrdersInv, ScreenOf
    <3>2. [screen.dialog EXCEPT !.placed = TRUE] \in Dialogs(Read)
      <4>1. CASE screen.dialog = Orders!NoDialog
        <5>1. [screen.dialog EXCEPT !.placed = TRUE] = screen.dialog BY <4>1 DEF Orders!NoDialog
        <5> QED BY <3>1, <5>1
      <4>2. CASE screen.dialog # Orders!NoDialog BY <3>1, <4>2 DEF Dialogs
      <4> QED BY <4>1, <4>2
    <3> QED BY <3>1, <3>2 DEF Orders!Commits
  <2> QED BY <2>1 DEF OrdersInv, ScreenOf
<1>2. ClickOf(Read, click')
  <2>1. click' = [click EXCEPT !.step = "saved"] \/ click' = Orders!NoClick BY DEF Orders!Commits
  <2>2. click.step = "sent" BY DEF Orders!Commits
  <2> QED BY <2>1, <2>2 DEF OrdersInv, ClickOf, Orders!NoClick
<1> QED BY <1>1, <1>2 DEF OrdersInv, HoldsRead, Orders!Commits

\* A command that is carried out finds the order as its row shows it.
LEMMA CommitsOnSeen ==
  ASSUME OrdersInv, NEW answered \in BOOLEAN, Orders!Commits(answered), ~UNCHANGED orders, click.kind # "new"
  PROVE  LET r == click.row IN orders[r.n].status = r.status /\ orders[r.n].version = r.version
<1>1. click.row \in Read BY DEF OrdersInv, ClickOf, Orders!Commits
<1>2. orders[click.row.n].version = click.row.version
  BY DEF Orders!Commits, Orders!Accepts, Orders!SameVersion, Orders!Repeated
<1> QED BY <1>1, <1>2 DEF Read, Behind

LEMMA CommitsOrders ==
  ASSUME OrdersInv, NEW answered \in BOOLEAN, Orders!Commits(answered)
  PROVE  OrdersTyped' /\ Read \subseteq Read'
<1>1. UNCHANGED <<station, today>> /\ click.step = "sent" BY DEF Orders!Commits
<1>2. CASE UNCHANGED orders BY <1>1, <1>2 DEF OrdersInv, OrdersTyped, Read, Behind
<1>3. CASE orders' = Orders!Placed(Me) BY <1>1, <1>3, OrderPlaced DEF OrdersInv, OrdersTyped
<1>4. CASE click.kind # "new" /\ Orders!SetOrder(click.row.n, click.to)
  <2>1. click.row \in Read /\ click.to \in OrderStatuses BY <1>1, <1>4 DEF OrdersInv, ClickOf
  <2>2. click.row.n \in 1 .. Len(orders) BY <2>1 DEF Read, Behind
  <2> QED BY <1>1, <1>4, <2>1, <2>2, OrderMoved DEF OrdersInv, OrdersTyped
<1> QED BY <1>2, <1>3, <1>4 DEF Orders!Commits

LEMMA ElsewhereStep ==
  ASSUME OrdersInv, Orders!Elsewhere
  PROVE  OrdersTyped' /\ Read \subseteq Read' /\ UNCHANGED <<screen, orderLoads, click>>
<1>1. ASSUME NEW n \in 1 .. Len(orders), NEW to \in OrderStatuses, Orders!OthersMove(n, to)
      PROVE  OrdersTyped' /\ Read \subseteq Read' /\ UNCHANGED <<screen, orderLoads, click>>
  BY <1>1, OrderMoved DEF Orders!OthersMove, OrdersInv, OrdersTyped
<1>2. ASSUME Orders!OthersOrder
      PROVE  OrdersTyped' /\ Read \subseteq Read' /\ UNCHANGED <<screen, orderLoads, click>>
  BY <1>2, OrderPlaced DEF Orders!OthersOrder, OrdersInv, OrdersTyped
<1>3. ASSUME NEW s \in {"waiter", "kitchen", "inactive"}, Orders!Reassign(s)
      PROVE  OrdersTyped' /\ Read \subseteq Read' /\ UNCHANGED <<screen, orderLoads, click>>
  BY <1>3 DEF Orders!Reassign, OrdersInv, OrdersTyped, Read, Behind, Orders!Portals
<1>4. ASSUME Orders!Midnight
      PROVE  OrdersTyped' /\ Read \subseteq Read' /\ UNCHANGED <<screen, orderLoads, click>>
  BY <1>4 DEF Orders!Midnight, OrdersInv, OrdersTyped, Read, Behind
<1> QED BY <1>1, <1>2, <1>3, <1>4 DEF Orders!Elsewhere, OrderStatuses

LEMMA OrdersQuiet ==
  ASSUME OrdersInv, UNCHANGED <<orders, station, today>>
  PROVE  OrdersTyped' /\ Read' = Read
BY DEF OrdersInv, OrdersTyped, Read, Behind

LEMMA QuietOrders ==
  ASSUME Orders!Loading \/ Orders!Looking
         \/ (Orders!Acting /\ ~\E answered \in BOOLEAN : Orders!Commits(answered))
  PROVE  UNCHANGED <<orders, station, today>>
BY DEF Orders!Loading, Orders!Poll, Orders!MeAnswers, Orders!PageAnswers, Orders!RestAnswers,
       Orders!LoadFails, Orders!AfterSave, Orders!Looking, Orders!Type, Orders!Navigate,
       Orders!ToHistory, Orders!Back, Orders!SignOut, Orders!ViewOrders, Orders!PickStage,
       Orders!PickDates, Orders!Searched, Orders!Shows, Orders!Acting, Orders!ClickNext,
       Orders!Open, Orders!TakeNewOrder, Orders!Dismiss, Orders!Submit, Orders!Send, Orders!Refused

LEMMA OrdersNext ==
  ASSUME OrdersInv, Orders!Next
  PROVE  OrdersInv'
<1>1. CASE Orders!Elsewhere
  <2>1. HoldsRead BY <1>1, ElsewhereStep DEF OrdersInv, HoldsRead
  <2> QED BY <1>1, <2>1, ElsewhereStep, RowsKept
<1>2. CASE \E answered \in BOOLEAN : Orders!Commits(answered)
  BY <1>2, CommitsStep, CommitsOrders, RowsKept
<1>3. CASE Orders!Loading \/ Orders!Looking
           \/ (Orders!Acting /\ ~\E answered \in BOOLEAN : Orders!Commits(answered))
  <2>1. HoldsRead
    BY <1>3, PollStep, MeStep, PageStep, RestStep, FailStep, AfterSaveStep, LookingStep, ActingStep
    DEF Orders!Loading
  <2>2. OrdersTyped' /\ Read \subseteq Read' BY <1>3, QuietOrders, OrdersQuiet
  <2> QED BY <2>1, <2>2, RowsKept
<1> QED BY <1>1, <1>2, <1>3 DEF Orders!Next

LEMMA OrdersInit ==
  ASSUME Orders!Init
  PROVE  OrdersInv
<1>1. OrdersTyped
  BY DEF Orders!Init, OrdersTyped, OrderRecords, OrderStatuses, Orders!Active, Orders!Ended, Orders!Portals
<1>2. ScreenOf(Read, screen)
  BY EmptySeq DEF Orders!Init, Orders!NewScreen, ScreenOf, Orders!Tabs, Orders!Searches, Dialogs
<1>3. orderLoads \in [Slots -> OrderLoads(Read)] BY DEF Orders!Init, OrderLoads
<1>4. ClickOf(Read, click) BY DEF Orders!Init, ClickOf, Orders!NoClick
<1> QED BY <1>1, <1>2, <1>3, <1>4 DEF OrdersInv

-----------------------------------------------------------------------------
\* The expenses.  A row, a form and a call hold an expense as it is as long as it
\* has the version they name.
ExpenseRecords ==
  [day : 0 .. 1, category : Expenses!Categories, voided : BOOLEAN, version : Nat \ {0}, form : Nat]
ExpenseRows ==
  [n : Nat, day : 0 .. 1, category : Expenses!Categories, voided : BOOLEAN, version : Nat]
AsItWas(r) ==
  /\ r.n \in 1 .. Len(expenses) /\ r.version <= expenses[r.n].version
  /\ r.version = expenses[r.n].version => Expenses!Row(r.n) = r
Entries == {r \in ExpenseRows : AsItWas(r)}

\* What the page holds, when the rows are those of a set and k keys were made.
FilledForms(S, k) ==
  [kind : {"record"}, what : [day : 0 .. 1, category : Expenses!Categories], id : Nat, key : 1 .. k]
  \cup [kind : {"void"}, what : S, id : Nat, key : 1 .. k]
LedgerOf(S, k, p) ==
  p \in [period : Expenses!Periods, offset : Nat, topic : {"all"} \cup Expenses!Categories,
         status : {"all", "active", "voided"}, rows : Seq(S), total : Nat,
         form : {Expenses!NoForm} \cup FilledForms(S, k)]
ExpenseLoads(S) ==
  {Expenses!NoLoad}
  \cup [offset : Nat, period : Expenses!Periods, rows : Seq(S), total : Nat \cup {Expenses!NotRead}]

ExpensesTyped ==
  /\ expenses \in Seq(ExpenseRecords)
  /\ forms \in [ids : Nat, keys : Nat] /\ keys \subseteq 1 .. forms.keys
ExpensesInv ==
  /\ ExpensesTyped /\ expenseLoads \in [Slots -> ExpenseLoads(Entries)]
  /\ LedgerOf(Entries, forms.keys, ledger) /\ expenseCalls \subseteq FilledForms(Entries, forms.keys)
\* After a step, the rows are of the expenses before it.
HoldsEntries ==
  /\ expenseLoads' \in [Slots -> ExpenseLoads(Entries)]
  /\ LedgerOf(Entries, forms.keys', ledger') /\ expenseCalls' \subseteq FilledForms(Entries, forms.keys')

LEMMA EntriesMonotone ==
  ASSUME NEW S, NEW T, S \subseteq T, NEW k \in Nat
  PROVE  /\ FilledForms(S, k) \subseteq FilledForms(T, k)
         /\ \A p : LedgerOf(S, k, p) => LedgerOf(T, k, p)
         /\ ExpenseLoads(S) \subseteq ExpenseLoads(T)
<1>1. Seq(S) \subseteq Seq(T) BY SeqMonotonic
<1>2. FilledForms(S, k) \subseteq FilledForms(T, k) BY DEF FilledForms
<1>3. \A p : LedgerOf(S, k, p) => LedgerOf(T, k, p) BY <1>1, <1>2 DEF LedgerOf
<1>4. ExpenseLoads(S) \subseteq ExpenseLoads(T) BY <1>1 DEF ExpenseLoads
<1> QED BY <1>2, <1>3, <1>4

LEMMA KeysMonotone ==
  ASSUME NEW S, NEW j \in Nat, NEW k \in Nat, j <= k
  PROVE  /\ FilledForms(S, j) \subseteq FilledForms(S, k)
         /\ \A p : LedgerOf(S, j, p) => LedgerOf(S, k, p)
<1>1. FilledForms(S, j) \subseteq FilledForms(S, k) BY DEF FilledForms
<1>2. \A p : LedgerOf(S, j, p) => LedgerOf(S, k, p) BY <1>1 DEF LedgerOf
<1> QED BY <1>1, <1>2

LEMMA EntriesKept ==
  ASSUME ExpensesTyped', Entries \subseteq Entries', HoldsEntries
  PROVE  ExpensesInv'
<1>1. forms.keys' \in Nat BY DEF ExpensesTyped
<1>2. LedgerOf(Entries', forms.keys', ledger') /\ FilledForms(Entries, forms.keys') \subseteq FilledForms(Entries', forms.keys')
  BY <1>1, EntriesMonotone DEF HoldsEntries
<1>3. ExpenseLoads(Entries) \subseteq ExpenseLoads(Entries') BY <1>1, EntriesMonotone
<1>4. expenseLoads' \in [Slots -> ExpenseLoads(Entries')] BY <1>3 DEF HoldsEntries
<1> QED BY <1>2, <1>4 DEF ExpensesInv, HoldsEntries

-----------------------------------------------------------------------------
\* The server.
LEMMA EntryRecorded ==
  ASSUME expenses \in Seq(ExpenseRecords), NEW day \in 0 .. 1, NEW category \in Expenses!Categories,
         NEW form \in Nat, Expenses!Record(day, category, form)
  PROVE  expenses' \in Seq(ExpenseRecords) /\ Entries \subseteq Entries'
<1> DEFINE e == [day |-> day, category |-> category, voided |-> FALSE, version |-> 1, form |-> form]
<1>1. e \in ExpenseRecords BY DEF ExpenseRecords
<1>2. expenses' = Append(expenses, e) BY DEF Expenses!Record
<1> HIDE DEF e
<1>3. /\ expenses' \in Seq(ExpenseRecords) /\ Len(expenses) \in Nat /\ Len(expenses') = Len(expenses) + 1
      /\ \A m \in 1 .. Len(expenses) : expenses'[m] = expenses[m]
  BY <1>1, <1>2
<1> QED BY <1>3 DEF Entries, AsItWas, Expenses!Row

LEMMA EntryVoided ==
  ASSUME expenses \in Seq(ExpenseRecords), NEW n \in 1 .. Len(expenses), Expenses!Void(n)
  PROVE  expenses' \in Seq(ExpenseRecords) /\ Entries \subseteq Entries' /\ expenses'[n].voided
<1> DEFINE e == [expenses[n] EXCEPT !.voided = TRUE, !.version = @ + 1]
<1>1. expenses[n] \in ExpenseRecords OBVIOUS
<1>2. e \in ExpenseRecords /\ e.version = expenses[n].version + 1 /\ e.voided = TRUE
  <2>1. expenses[n].version + 1 \in Nat \ {0} BY <1>1 DEF ExpenseRecords
  <2> QED BY <1>1, <2>1 DEF ExpenseRecords
<1>3. expenses' = [expenses EXCEPT ![n] = e] BY DEF Expenses!Void
<1> HIDE DEF e
<1>4. /\ expenses' \in Seq(ExpenseRecords) /\ Len(expenses') = Len(expenses)
      /\ \A m \in 1 .. Len(expenses) : expenses'[m] = IF m = n THEN e ELSE expenses[m]
  BY <1>2, <1>3, ExceptSeq
<1>5. ASSUME NEW r \in Entries PROVE r \in Entries'
  <2>1. r \in ExpenseRows /\ r.version \in Nat /\ r.n \in 1 .. Len(expenses)
    BY DEF Entries, AsItWas, ExpenseRows
  <2>2. CASE r.n = n
    <3>1. expenses[n].version \in Nat /\ r.version <= expenses[n].version
      BY <1>1, <2>2 DEF Entries, AsItWas, ExpenseRecords
    <3>2. expenses'[r.n].version = expenses[n].version + 1 BY <1>2, <1>4, <2>2
    <3> QED BY <1>4, <2>1, <3>1, <3>2 DEF Entries, AsItWas
  <2>3. CASE r.n # n BY <1>4, <2>1, <2>3 DEF Entries, AsItWas, Expenses!Row
  <2> QED BY <2>2, <2>3
<1> QED BY <1>2, <1>4, <1>5

LEMMA EntryRead ==
  ASSUME expenses \in Seq(ExpenseRecords), NEW n \in 1 .. Len(expenses)
  PROVE  Expenses!Row(n) \in Entries
<1>1. expenses[n] \in ExpenseRecords OBVIOUS
<1> QED BY <1>1 DEF Expenses!Row, Entries, AsItWas, ExpenseRows, ExpenseRecords

\* The i-th from the newest is one of them: no two have as many that are as new.
LEMMA NewestOf ==
  ASSUME NEW n \in Nat, NEW S \in SUBSET (1 .. n), NEW i \in 1 .. Cardinality(S)
  PROVE  Expenses!Newest(S, i) \in S
<1> DEFINE Since(k) == {m \in S : m >= k}
           rank == [k \in S |-> Cardinality(Since(k))]
<1>1. IsFiniteSet(S) /\ Cardinality(S) \in Nat BY Counted
<1>2. ASSUME NEW k \in S
      PROVE  Since(k) \in SUBSET S /\ k \in Since(k) /\ IsFiniteSet(Since(k))
             /\ Cardinality(Since(k)) \in 1 .. Cardinality(S)
  <2>1. Since(k) \in SUBSET S /\ k \in Since(k) OBVIOUS
  <2> HIDE DEF Since
  <2>2. IsFiniteSet(Since(k)) /\ Cardinality(Since(k)) <= Cardinality(S) BY <1>1, <2>1, FS_Subset
  <2>3. Cardinality(Since(k)) \in Nat /\ Cardinality(Since(k)) # 0
    BY <2>1, <2>2, FS_CardinalityType, FS_EmptySet
  <2> QED BY <1>1, <2>1, <2>2, <2>3
<1>3. ASSUME NEW j \in S, NEW k \in S, j < k PROVE rank[j] # rank[k]
  <2>1. Since(k) \in SUBSET Since(j) /\ j \notin Since(k)
    <3>1. \A m \in S : m \in Nat OBVIOUS
    <3>2. ~(j >= k) /\ \A m \in S : m >= k => m >= j BY <1>3, <3>1
    <3> QED BY <3>2
  <2>2. Since(k) # Since(j) BY <1>2, <2>1
  <2> QED BY <1>2, <2>1, <2>2, FS_Subset
<1>4. rank \in [S -> 1 .. Cardinality(S)] BY <1>2
<1>5. rank \in Injection(S, 1 .. Cardinality(S))
  <2>1. \A j, k \in S : rank[j] = rank[k] => ~(j < k) /\ ~(k < j) BY <1>3
  <2>2. \A j, k \in S : ~(j < k) /\ ~(k < j) => j = k OBVIOUS
  <2> HIDE DEF rank
  <2> QED BY <1>4, <2>1, <2>2 DEF Injection, IsInjective
<1>6. IsFiniteSet(1 .. Cardinality(S)) /\ Cardinality(1 .. Cardinality(S)) = Cardinality(S)
  BY <1>1, FS_Interval
<1>7. rank \in Surjection(S, 1 .. Cardinality(S)) BY <1>5, <1>6, FS_Injection
<1>8. PICK k \in S : Cardinality({m \in S : m >= k}) = i BY <1>7 DEF Surjection
<1>9. Expenses!Cardinality({m \in S : m >= k}) = i BY <1>8, SameCardinality
<1> QED BY <1>9 DEF Expenses!Newest

LEMMA EntriesFound ==
  ASSUME expenses \in Seq(ExpenseRecords), NEW period
  PROVE  Expenses!Found(period) \in Seq(Entries)
<1> DEFINE S == Expenses!Within(period)
<1>1. Len(expenses) \in Nat OBVIOUS
<1>2. S \in SUBSET (1 .. Len(expenses)) BY DEF Expenses!Within
<1>3. Expenses!Found(period) = [i \in 1 .. Cardinality(S) |-> Expenses!Row(Expenses!Newest(S, i))]
  BY SameCardinality DEF Expenses!Found
<1> HIDE DEF S
<1>4. Cardinality(S) \in Nat BY <1>1, <1>2, Counted
<1>5. \A i \in 1 .. Cardinality(S) : Expenses!Newest(S, i) \in S BY <1>1, <1>2, NewestOf
<1>6. \A i \in 1 .. Cardinality(S) : Expenses!Row(Expenses!Newest(S, i)) \in Entries
  BY <1>2, <1>5, EntryRead
<1> QED BY <1>3, <1>4, <1>6

LEMMA EntriesPage ==
  ASSUME expenses \in Seq(ExpenseRecords), NEW period, NEW offset \in Nat
  PROVE  Expenses!PageAt(period, offset) \in Seq(Entries) /\ Len(Expenses!Found(period)) \in Nat
<1> DEFINE found == Expenses!Found(period)
           last == Expenses!Least(offset + PageSize, Len(found))
<1>1. found \in Seq(Entries) /\ Len(found) \in Nat BY EntriesFound
<1>2. PageSize \in Nat BY PortalAssumption
<1>3. last \in Int /\ last <= Len(found) BY <1>1, <1>2 DEF Expenses!Least
<1>4. SubSeq(found, offset + 1, last) \in Seq(Entries) BY <1>1, <1>3, Part
<1> QED BY <1>1, <1>4 DEF Expenses!PageAt

-----------------------------------------------------------------------------
\* The page.  A step that leaves the server and the keys leaves what the rows are of.
LEMMA PageOnly ==
  ASSUME ExpensesInv, UNCHANGED <<expenses, keys, forms>>, expenseLoads' \in [Slots -> ExpenseLoads(Entries)],
         LedgerOf(Entries, forms.keys, ledger'), expenseCalls' \subseteq FilledForms(Entries, forms.keys)
  PROVE  ExpensesInv'
<1>1. ExpensesTyped' /\ Entries' = Entries
  BY DEF ExpensesInv, ExpensesTyped, Entries, AsItWas, Expenses!Row
<1> QED BY <1>1 DEF ExpensesInv

LEMMA AskedFor ==
  ASSUME ExpensesInv, NEW l \in Slots, NEW p, LedgerOf(Entries, forms.keys, p), Expenses!Asks(l, p)
  PROVE  expenseLoads' \in [Slots -> ExpenseLoads(Entries)]
<1>1. Expenses!Wanted(p) \in ExpenseLoads(Entries) BY EmptySeq DEF LedgerOf, Expenses!Wanted, ExpenseLoads
<1> QED BY <1>1 DEF ExpensesInv, Expenses!Asks

LEMMA LookAtEntries ==
  ASSUME ExpensesInv, NEW l, NEW p, LedgerOf(Entries, forms.keys, p), Expenses!Look(p, l),
         l \in Slots \/ Expenses!Wanted(p) = Expenses!Wanted(ledger)
  PROVE  ExpensesInv'
<1>1. expenseLoads' \in [Slots -> ExpenseLoads(Entries)]
  <2>1. CASE Expenses!Wanted(p) = Expenses!Wanted(ledger)
    BY <2>1 DEF Expenses!Look, ExpensesInv, ExpensesTyped
  <2>2. CASE Expenses!Wanted(p) # Expenses!Wanted(ledger)
    BY <2>2, AskedFor DEF Expenses!Look
  <2> QED BY <2>1, <2>2
<1>2. ledger' = p /\ UNCHANGED <<expenses, keys, forms, expenseCalls>> BY DEF Expenses!Look
<1> QED BY <1>1, <1>2, PageOnly DEF ExpensesInv

LEMMA LookingAtEntries ==
  ASSUME ExpensesInv, Expenses!Looking
  PROVE  ExpensesInv'
<1>0. LedgerOf(Entries, forms.keys, ledger) /\ PageSize \in Nat \ {0}
  BY PortalAssumption DEF ExpensesInv
<1>1. ASSUME NEW l \in Slots, Expenses!Poll(l) PROVE ExpensesInv'
  <2>1. expenseLoads' \in [Slots -> ExpenseLoads(Entries)] BY <1>0, <1>1, AskedFor DEF Expenses!Poll
  <2> QED BY <1>1, <2>1, PageOnly DEF Expenses!Poll, ExpensesInv
<1>2. ASSUME NEW l \in Slots, Expenses!Answers(l) PROVE ExpensesInv'
  <2> DEFINE rows == Expenses!PageAt(expenseLoads[l].period, expenseLoads[l].offset)
             total == Len(Expenses!Found(expenseLoads[l].period))
  <2>1. /\ expenseLoads \in [Slots -> ExpenseLoads(Entries)] /\ expenseLoads[l] # Expenses!NoLoad
        /\ expenseLoads' = [expenseLoads EXCEPT ![l] = [@ EXCEPT !.rows = rows, !.total = total]]
        /\ UNCHANGED <<expenses, keys, forms, ledger, expenseCalls>>
    BY <1>2 DEF Expenses!Answers, ExpensesInv
  <2>2. expenseLoads[l].offset \in Nat BY <2>1 DEF ExpenseLoads
  <2>3. rows \in Seq(Entries) /\ total \in Nat BY <2>2, EntriesPage DEF ExpensesInv, ExpensesTyped
  <2> HIDE DEF rows, total
  <2>4. [expenseLoads[l] EXCEPT !.rows = rows, !.total = total] \in ExpenseLoads(Entries)
    BY <2>1, <2>3 DEF ExpenseLoads
  <2>5. expenseLoads' \in [Slots -> ExpenseLoads(Entries)] BY <2>1, <2>4
  <2> QED BY <2>1, <2>5, PageOnly DEF ExpensesInv
<1>3. ASSUME NEW l \in Slots, Expenses!Show(l) PROVE ExpensesInv'
  <2>1. expenseLoads[l].rows \in Seq(Entries) /\ expenseLoads[l].total \in Nat
    BY <1>3 DEF Expenses!Show, ExpensesInv, ExpenseLoads, Expenses!NoLoad
  <2>2. ledger' = [ledger EXCEPT !.rows = expenseLoads[l].rows, !.total = expenseLoads[l].total]
    BY <1>3 DEF Expenses!Show
  <2>3. LedgerOf(Entries, forms.keys, ledger') BY <1>0, <2>1, <2>2 DEF LedgerOf
  <2>4. expenseLoads' \in [Slots -> ExpenseLoads(Entries)]
    BY <1>3 DEF Expenses!Show, ExpensesInv, ExpenseLoads
  <2> QED BY <1>3, <2>3, <2>4, PageOnly DEF Expenses!Show, ExpensesInv
<1>4. ASSUME NEW l \in Slots, Expenses!LoadFails(l) PROVE ExpensesInv'
  <2>1. expenseLoads' \in [Slots -> ExpenseLoads(Entries)]
    BY <1>4 DEF Expenses!LoadFails, ExpensesInv, ExpensesTyped, ExpenseLoads
  <2> QED BY <1>4, <2>1, PageOnly DEF Expenses!LoadFails, ExpensesInv
<1>5. ASSUME NEW l \in Slots, Expenses!NextPage(l) PROVE ExpensesInv'
  <2>1. LedgerOf(Entries, forms.keys, [ledger EXCEPT !.offset = @ + PageSize]) BY <1>0 DEF LedgerOf
  <2> QED BY <1>5, <2>1, LookAtEntries DEF Expenses!NextPage
<1>6. ASSUME NEW l \in Slots, Expenses!PreviousPage(l) PROVE ExpensesInv'
  <2> DEFINE back == IF ledger.offset > PageSize THEN ledger.offset - PageSize ELSE 0
  <2>1. back \in Nat BY <1>0 DEF LedgerOf
  <2>2. Expenses!Look([ledger EXCEPT !.offset = back], l) BY <1>6 DEF Expenses!PreviousPage
  <2> HIDE DEF back
  <2>3. LedgerOf(Entries, forms.keys, [ledger EXCEPT !.offset = back]) BY <1>0, <2>1 DEF LedgerOf
  <2> QED BY <2>2, <2>3, LookAtEntries
<1>7. ASSUME NEW l \in Slots, NEW d \in Expenses!Periods, Expenses!PickPeriod(d, l) PROVE ExpensesInv'
  <2>1. LedgerOf(Entries, forms.keys, [ledger EXCEPT !.period = d, !.offset = 0]) BY <1>0 DEF LedgerOf
  <2> QED BY <1>7, <2>1, LookAtEntries DEF Expenses!PickPeriod
<1>8. ASSUME NEW c \in {"all"} \cup Expenses!Categories, Expenses!PickTopic(c) PROVE ExpensesInv'
  <2> DEFINE p == [ledger EXCEPT !.topic = c]
  <2>1. LedgerOf(Entries, forms.keys, p) BY <1>0 DEF LedgerOf
  <2>2. Expenses!Wanted(p) = Expenses!Wanted(ledger) BY <1>0 DEF LedgerOf, Expenses!Wanted
  <2> QED BY <1>8, <2>1, <2>2, LookAtEntries DEF Expenses!PickTopic
<1>9. ASSUME NEW s \in {"all", "active", "voided"}, Expenses!PickStatus(s) PROVE ExpensesInv'
  <2> DEFINE p == [ledger EXCEPT !.status = s]
  <2>1. LedgerOf(Entries, forms.keys, p) BY <1>0 DEF LedgerOf
  <2>2. Expenses!Wanted(p) = Expenses!Wanted(ledger) BY <1>0 DEF LedgerOf, Expenses!Wanted
  <2> QED BY <1>9, <2>1, <2>2, LookAtEntries DEF Expenses!PickStatus
<1> QED BY <1>1, <1>2, <1>3, <1>4, <1>5, <1>6, <1>7, <1>8, <1>9 DEF Expenses!Looking

-----------------------------------------------------------------------------
\* The forms and their commands.
LEMMA FormOpens ==
  ASSUME ExpensesInv, NEW kind \in {"record", "void"}, NEW what, Expenses!OpenForm(kind, what),
         kind = "record" => what \in [day : 0 .. 1, category : Expenses!Categories],
         kind = "void" => what \in Entries
  PROVE  ExpensesInv'
<1> DEFINE k == forms.keys
           f == [kind |-> kind, what |-> what, id |-> forms.ids + 1, key |-> k + 1]
<1>1. /\ k \in Nat /\ forms.ids \in Nat /\ keys \subseteq 1 .. k
      /\ LedgerOf(Entries, k, ledger) /\ expenseCalls \subseteq FilledForms(Entries, k)
  BY DEF ExpensesInv, ExpensesTyped
<1>2. /\ ledger' = [ledger EXCEPT !.form = f] /\ forms' = [ids |-> forms.ids + 1, keys |-> k + 1]
      /\ UNCHANGED <<expenses, keys, expenseLoads, expenseCalls>>
  BY DEF Expenses!OpenForm, Expenses!NewForm
<1> HIDE DEF k
<1>3. f \in FilledForms(Entries, k + 1)
  <2>1. k + 1 \in 1 .. k + 1 /\ forms.ids + 1 \in Nat BY <1>1
  <2>2. CASE kind = "record" BY <2>1, <2>2 DEF FilledForms
  <2>3. CASE kind = "void" BY <2>1, <2>3 DEF FilledForms
  <2> QED BY <2>2, <2>3
<1> HIDE DEF f
<1>4. LedgerOf(Entries, k + 1, ledger) /\ expenseCalls \subseteq FilledForms(Entries, k + 1)
  BY <1>1, KeysMonotone
<1>5. LedgerOf(Entries, k + 1, ledger') BY <1>2, <1>3, <1>4 DEF LedgerOf
<1>6. forms.keys' = k + 1 /\ forms' \in [ids : Nat, keys : Nat] BY <1>1, <1>2
<1>7. ExpensesTyped' BY <1>1, <1>2, <1>6 DEF ExpensesInv, ExpensesTyped
<1>8. Entries' = Entries BY <1>2 DEF Entries, AsItWas, Expenses!Row
<1> QED BY <1>2, <1>4, <1>5, <1>6, <1>7, <1>8 DEF ExpensesInv

\* A call that is carried out.
LEMMA CallCarried ==
  ASSUME ExpensesInv, NEW c \in expenseCalls, Expenses!Commits(c)
  PROVE  /\ expenses' \in Seq(ExpenseRecords) /\ Entries \subseteq Entries' /\ keys' \subseteq 1 .. forms.keys
         /\ expenseCalls' = expenseCalls \ {c}
         /\ c.kind = "void" /\ ~UNCHANGED expenses =>
              Expenses!Row(c.what.n) = c.what /\ expenses'[c.what.n].voided
<1>1. c \in FilledForms(Entries, forms.keys) /\ expenses \in Seq(ExpenseRecords) /\ keys \subseteq 1 .. forms.keys
  BY DEF ExpensesInv, ExpensesTyped
<1>2. c.key \in 1 .. forms.keys /\ c.id \in Nat BY <1>1 DEF FilledForms
<1>3. keys' \subseteq 1 .. forms.keys /\ expenseCalls' = expenseCalls \ {c}
  BY <1>1, <1>2 DEF Expenses!Commits
<1>4. CASE UNCHANGED expenses BY <1>1, <1>3, <1>4 DEF Entries, AsItWas, Expenses!Row
<1>5. CASE c.kind = "record" /\ Expenses!Record(c.what.day, c.what.category, c.id)
  <2>1. c.what.day \in 0 .. 1 /\ c.what.category \in Expenses!Categories BY <1>1, <1>5 DEF FilledForms
  <2> QED BY <1>1, <1>2, <1>3, <1>5, <2>1, EntryRecorded
<1>6. CASE c.kind = "void" /\ Expenses!MayVoid(c.what.n, c.what.version) /\ Expenses!Void(c.what.n)
  <2>1. c.what \in Entries BY <1>1, <1>6 DEF FilledForms
  <2>2. c.what.n \in 1 .. Len(expenses) BY <2>1 DEF Entries, AsItWas
  <2>3. Expenses!Row(c.what.n) = c.what BY <1>6, <2>1 DEF Entries, AsItWas, Expenses!MayVoid
  <2> QED BY <1>1, <1>3, <1>6, <2>2, <2>3, EntryVoided
<1> QED BY <1>4, <1>5, <1>6 DEF Expenses!Commits, Expenses!Carry

LEMMA CallAnswered ==
  ASSUME ExpensesInv, NEW c \in expenseCalls, NEW l \in Slots, Expenses!Answered(c, l)
  PROVE  ExpensesInv'
<1>0. LedgerOf(Entries, forms.keys, ledger) BY DEF ExpensesInv
<1>1. /\ expenses' \in Seq(ExpenseRecords) /\ Entries \subseteq Entries' /\ keys' \subseteq 1 .. forms.keys
      /\ expenseCalls' = expenseCalls \ {c} /\ UNCHANGED forms
  BY CallCarried DEF Expenses!Answered
<1>2. expenseLoads' \in [Slots -> ExpenseLoads(Entries)] BY <1>0, AskedFor DEF Expenses!Answered
<1>3. LedgerOf(Entries, forms.keys, ledger') BY <1>0 DEF Expenses!Answered, LedgerOf
<1>4. ExpensesTyped' BY <1>1 DEF ExpensesInv, ExpensesTyped
<1>5. HoldsEntries BY <1>1, <1>2, <1>3 DEF ExpensesInv, HoldsEntries
<1> QED BY <1>1, <1>4, <1>5, EntriesKept

LEMMA AnswerLost ==
  ASSUME ExpensesInv, NEW c \in expenseCalls, Expenses!LosesAnswer(c)
  PROVE  ExpensesInv'
<1>0. /\ LedgerOf(Entries, forms.keys, ledger) /\ forms.keys \in Nat /\ forms \in [ids : Nat, keys : Nat]
      /\ expenseCalls \subseteq FilledForms(Entries, forms.keys)
      /\ expenseLoads \in [Slots -> ExpenseLoads(Entries)]
  BY DEF ExpensesInv, ExpensesTyped
<1>1. /\ expenses' \in Seq(ExpenseRecords) /\ Entries \subseteq Entries' /\ keys' \subseteq 1 .. forms.keys
      /\ expenseCalls' = expenseCalls \ {c} /\ UNCHANGED expenseLoads /\ Expenses!Failed(c)
  BY CallCarried DEF Expenses!LosesAnswer
<1>2. CASE UNCHANGED <<ledger, forms>>
  <2>1. ExpensesTyped' BY <1>1, <1>2 DEF ExpensesInv, ExpensesTyped
  <2>2. HoldsEntries BY <1>0, <1>1, <1>2 DEF HoldsEntries
  <2> QED BY <1>1, <2>1, <2>2, EntriesKept
<1>3. CASE /\ ledger.form # Expenses!NoForm /\ ledger' = [ledger EXCEPT !.form.key = forms.keys + 1]
           /\ forms' = [forms EXCEPT !.keys = @ + 1]
  <2> DEFINE k == forms.keys + 1
             f == [ledger.form EXCEPT !.key = k]
  <2>1. forms.keys' = k /\ k \in Nat /\ k \in 1 .. k /\ forms' \in [ids : Nat, keys : Nat] BY <1>0, <1>3
  <2>2. LedgerOf(Entries, k, ledger) /\ FilledForms(Entries, forms.keys) \subseteq FilledForms(Entries, k)
    BY <1>0, KeysMonotone
  <2>3. ledger' = [ledger EXCEPT !.form = f] BY <1>3
  <2>4. keys' \subseteq 1 .. k BY <1>0, <1>1
  <2> HIDE DEF k
  <2>5. ledger.form \in FilledForms(Entries, k) BY <1>3, <2>2 DEF LedgerOf
  <2>6. f \in FilledForms(Entries, k) BY <2>1, <2>5 DEF FilledForms
  <2> HIDE DEF f
  <2>7. LedgerOf(Entries, k, ledger') BY <2>2, <2>3, <2>6 DEF LedgerOf
  <2>8. ExpensesTyped' BY <1>1, <2>1, <2>4 DEF ExpensesInv, ExpensesTyped
  <2>9. HoldsEntries BY <1>0, <1>1, <2>1, <2>2, <2>7 DEF HoldsEntries
  <2> QED BY <1>1, <2>8, <2>9, EntriesKept
<1> QED BY <1>1, <1>2, <1>3 DEF Expenses!Failed

LEMMA ActingOnEntries ==
  ASSUME ExpensesInv, Expenses!Acting
  PROVE  ExpensesInv'
<1>0. /\ LedgerOf(Entries, forms.keys, ledger) /\ expenseCalls \subseteq FilledForms(Entries, forms.keys)
      /\ expenseLoads \in [Slots -> ExpenseLoads(Entries)]
  BY DEF ExpensesInv, ExpensesTyped
<1>1. ASSUME NEW day \in 0 .. 1, NEW category \in Expenses!Categories, Expenses!OpenRecord(day, category)
      PROVE  ExpensesInv'
  <2>1. [day |-> day, category |-> category] \in [day : 0 .. 1, category : Expenses!Categories] OBVIOUS
  <2> QED BY <1>1, <2>1, FormOpens DEF Expenses!OpenRecord
<1>2. ASSUME NEW r \in Expenses!Shown, Expenses!OpenVoid(r) PROVE ExpensesInv'
  <2>1. ledger.rows \in Seq(Entries) BY <1>0 DEF LedgerOf
  <2>2. r \in Entries BY <2>1, ElementOfSeq DEF Expenses!Shown
  <2> QED BY <1>2, <2>2, FormOpens DEF Expenses!OpenVoid
<1>3. ASSUME Expenses!Submit PROVE ExpensesInv'
  <2>1. expenseCalls' \subseteq FilledForms(Entries, forms.keys) BY <1>0, <1>3 DEF Expenses!Submit, LedgerOf
  <2> QED BY <1>0, <1>3, <2>1, PageOnly DEF Expenses!Submit
<1>4. ASSUME Expenses!CloseForm PROVE ExpensesInv'
  <2>1. LedgerOf(Entries, forms.keys, ledger') BY <1>0, <1>4 DEF Expenses!CloseForm, LedgerOf
  <2> QED BY <1>0, <1>4, <2>1, PageOnly DEF Expenses!CloseForm
<1>5. ASSUME NEW c \in expenseCalls, Expenses!Refused(c) PROVE ExpensesInv'
  BY <1>0, <1>5, PageOnly DEF Expenses!Refused
<1>6. ASSUME NEW l \in Slots, Expenses!CancelVoid(l) PROVE ExpensesInv'
  <2>1. LedgerOf(Entries, forms.keys, ledger') BY <1>0, <1>6 DEF Expenses!CancelVoid, LedgerOf
  <2>2. expenseLoads' \in [Slots -> ExpenseLoads(Entries)] BY <1>0, <1>6, AskedFor DEF Expenses!CancelVoid
  <2> QED BY <1>0, <1>6, <2>1, <2>2, PageOnly DEF Expenses!CancelVoid
<1> QED BY <1>1, <1>2, <1>3, <1>4, <1>5, <1>6, CallAnswered, AnswerLost DEF Expenses!Acting

LEMMA EntriesElsewhere ==
  ASSUME ExpensesInv, Expenses!Elsewhere
  PROVE  ExpensesInv' /\ UNCHANGED expenseCalls
<1>1. UNCHANGED <<keys, ledger, expenseLoads, expenseCalls, forms>>
  BY DEF Expenses!Elsewhere, Expenses!OthersRecord, Expenses!OthersVoid
<1>2. expenses' \in Seq(ExpenseRecords) /\ Entries \subseteq Entries'
  BY EntryRecorded, EntryVoided
  DEF Expenses!Elsewhere, Expenses!OthersRecord, Expenses!OthersVoid, ExpensesInv, ExpensesTyped
<1>3. ExpensesTyped' /\ HoldsEntries BY <1>1, <1>2 DEF ExpensesInv, ExpensesTyped, HoldsEntries
<1> QED BY <1>1, <1>2, <1>3, EntriesKept

LEMMA ExpensesNext ==
  ASSUME ExpensesInv, Expenses!Next
  PROVE  ExpensesInv'
BY EntriesElsewhere, LookingAtEntries, ActingOnEntries DEF Expenses!Next

LEMMA ExpensesInit ==
  ASSUME Expenses!Init
  PROVE  ExpensesInv
<1>1. ExpensesTyped
  BY DEF Expenses!Init, ExpensesTyped, ExpenseRecords, Expenses!Categories
<1>2. LedgerOf(Entries, forms.keys, ledger)
  BY EmptySeq DEF Expenses!Init, LedgerOf, Expenses!Periods
<1>3. expenseLoads \in [Slots -> ExpenseLoads(Entries)]
  BY EmptySeq DEF Expenses!Init, ExpenseLoads, Expenses!Wanted, Expenses!Periods
<1> QED BY <1>1, <1>2, <1>3 DEF ExpensesInv, Expenses!Init

\* An expense is voided as the row showed it.
LEMMA VoidsOnSeen ==
  ASSUME ExpensesInv, Expenses!Next
  PROVE  \A c \in expenseCalls \ expenseCalls' : (c.kind = "void" /\ expenses' # expenses) =>
           Expenses!Row(c.what.n) = c.what /\ expenses'[c.what.n].voided
<1> SUFFICES ASSUME NEW c \in expenseCalls \ expenseCalls', c.kind = "void", expenses' # expenses
             PROVE  Expenses!Row(c.what.n) = c.what /\ expenses'[c.what.n].voided
  OBVIOUS
<1>1. ~Expenses!Elsewhere BY EntriesElsewhere
<1>2. ~Expenses!Looking
  BY DEF Expenses!Looking, Expenses!Poll, Expenses!Answers, Expenses!Show, Expenses!LoadFails, Expenses!NextPage,
         Expenses!PreviousPage, Expenses!PickPeriod, Expenses!PickTopic, Expenses!PickStatus, Expenses!Look
<1>3. PICK d \in expenseCalls : Expenses!Commits(d)
  BY <1>1, <1>2
  DEF Expenses!Next, Expenses!Acting, Expenses!OpenRecord, Expenses!OpenVoid, Expenses!OpenForm,
      Expenses!Submit, Expenses!CloseForm, Expenses!LosesAnswer, Expenses!Refused, Expenses!Answered,
      Expenses!CancelVoid
<1>4. c = d BY <1>3, CallCarried
<1> QED BY <1>3, <1>4, CallCarried

-----------------------------------------------------------------------------
\* What the open desk holds of the orders, the decisions and the expenses.
ReadKept == (desk = "orders" => OrdersInv) /\ (desk = "expenses" => ExpensesInv)

LEMMA ReadKeptNext ==
  ASSUME ReadKept, [Next]_vars
  PROVE  ReadKept'
<1>1. UNCHANGED desk
  BY DEF Next, vars, AtOrders, AtDecisions, AtForecasts, AtExpenses, AtReceipts, AtSessions,
         AtAccounts, AtFloorPlan, AtAssistant, AtDays
<1>2. ASSUME desk = "orders" PROVE OrdersInv'
  <2>1. OrdersInv /\ (Orders!Next \/ UNCHANGED OrderVars)
    BY <1>2 DEF ReadKept, Next, vars, AtDecisions, AtForecasts, AtExpenses, AtReceipts, AtSessions,
           AtAccounts, AtFloorPlan, AtAssistant, AtDays
  <2>2. CASE UNCHANGED OrderVars
    <3>1. OrdersTyped' /\ Read' = Read BY <2>1, <2>2, OrdersQuiet DEF OrderVars
    <3> QED BY <2>1, <2>2, <3>1 DEF OrdersInv, OrderVars
  <2> QED BY <2>1, <2>2, OrdersNext
<1>3. ASSUME desk = "expenses" PROVE ExpensesInv'
  <2>1. ExpensesInv /\ (Expenses!Next \/ UNCHANGED ExpenseVars)
    BY <1>3 DEF ReadKept, Next, vars, AtOrders, AtDecisions, AtForecasts, AtReceipts, AtSessions,
           AtAccounts, AtFloorPlan, AtAssistant, AtDays
  <2>2. CASE UNCHANGED ExpenseVars
    BY <2>1, <2>2, PageOnly DEF ExpensesInv, ExpensesTyped, ExpenseVars
  <2> QED BY <2>1, <2>2, ExpensesNext
<1> QED BY <1>1, <1>2, <1>3 DEF ReadKept

\* Only the desk of the orders moves them, and so on.
LEMMA OrdersActOnSeen ==
  ASSUME ReadKept, [Next]_vars, Orders!Changes, click.kind # "new"
  PROVE  LET r == click.row IN orders[r.n].status = r.status /\ orders[r.n].version = r.version
<1>1. ~UNCHANGED OrderVars BY DEF Orders!Changes, OrderVars
<1>2. desk = "orders" /\ Orders!Next
  BY <1>1 DEF Next, vars, AtOrders, AtDecisions, AtForecasts, AtExpenses, AtReceipts, AtSessions,
              AtAccounts, AtFloorPlan, AtAssistant, AtDays
<1>3. OrdersInv /\ ~UNCHANGED orders /\ ~UNCHANGED click
  BY <1>2 DEF ReadKept, Orders!Changes
<1>4. ~Orders!Elsewhere BY <1>3, ElsewhereStep
<1>5. PICK answered \in BOOLEAN : Orders!Commits(answered)
  BY <1>2, <1>3, <1>4, QuietOrders DEF Orders!Next
<1> QED BY <1>3, <1>5, CommitsOnSeen

LEMMA ExpensesActOnSeen ==
  ASSUME ReadKept, [Next]_vars
  PROVE  \A c \in expenseCalls \ expenseCalls' : (c.kind = "void" /\ expenses' # expenses) =>
           Expenses!Row(c.what.n) = c.what /\ expenses'[c.what.n].voided
<1> SUFFICES ASSUME expenses' # expenses
             PROVE  \A c \in expenseCalls \ expenseCalls' : c.kind = "void" =>
                      Expenses!Row(c.what.n) = c.what /\ expenses'[c.what.n].voided
  OBVIOUS
<1>1. ~UNCHANGED ExpenseVars BY DEF ExpenseVars
<1>2. desk = "expenses" /\ Expenses!Next
  BY <1>1 DEF Next, vars, AtOrders, AtDecisions, AtForecasts, AtExpenses, AtReceipts, AtSessions,
              AtAccounts, AtFloorPlan, AtAssistant, AtDays
<1> QED BY <1>2, VoidsOnSeen DEF ReadKept

-----------------------------------------------------------------------------
LEMMA CountedUpTo ==
  ASSUME NEW n \in Nat, events \in 0 .. n, (events < n /\ events' = events + 1) \/ UNCHANGED events
  PROVE  events' \in 0 .. n
OBVIOUS

\* A dish and a slot have the number one.
LEMMA Firsts == 1 \in Dishes /\ 1 \in Slots
<1>1. ASSUME NEW S, NEW n \in Nat, S = 1 .. n, S # {} PROVE 1 \in S
  BY <1>1
<1> QED BY <1>1, PortalAssumption, BoundsAssumption

-----------------------------------------------------------------------------
\* The forecasts.
DishOrNone == Dishes \cup {0}
ForecastPanels ==
  [menu : SUBSET Dishes, jobs : Forecasts!Jobs, runs : Forecasts!Runs, selected : DishOrNone,
   search : DishOrNone, triggering : DishOrNone, batch : BOOLEAN, modal : {"closed", "open", "imported"}]
ForecastReads ==
  {Forecasts!NoRead} \cup
  [kind : {"data", "poll"} \cup Forecasts!Follow, blank : BOOLEAN, jobs : Forecasts!Jobs,
   runs : Forecasts!Runs, answered : BOOLEAN]
ForecastCommands ==
  {Forecasts!NoCommand} \cup [kind : Forecasts!Follow, dishes : SUBSET Dishes]
  \cup [kind : {"import"}, blank : BOOLEAN]
ForecastsInv ==
  /\ jobs \in Forecasts!Jobs /\ runs \in Forecasts!Runs /\ history \in BOOLEAN
  /\ forecasts \in ForecastPanels /\ reads \in [Slots -> ForecastReads]
  /\ command \in ForecastCommands /\ events \in 0 .. ForecastEvents

LEMMA ForecastEvent ==
  ASSUME ForecastsInv, Forecasts!Event \/ UNCHANGED events
  PROVE  events' \in 0 .. ForecastEvents
BY CountedUpTo, BoundsAssumption DEF ForecastsInv, Forecasts!Event

LEMMA NoForecasts ==
  /\ Forecasts!NoJobs \in Forecasts!Jobs /\ Forecasts!NoJobs \in Forecasts!Runs
  /\ \A kind \in {"data", "poll"} \cup Forecasts!Follow, blank \in BOOLEAN :
       Forecasts!NewRead(kind, blank) \in ForecastReads
BY DEF Forecasts!NoJobs, Forecasts!Jobs, Forecasts!Runs, Forecasts!NewRead, ForecastReads

LEMMA ReadAsked ==
  ASSUME ForecastsInv, NEW s \in Slots, NEW kind \in {"data", "poll"} \cup Forecasts!Follow,
         NEW blank \in BOOLEAN, Forecasts!Asked(s, kind, blank) \/ Forecasts!Asks(s, kind, blank)
  PROVE  reads' \in [Slots -> ForecastReads]
BY NoForecasts DEF Forecasts!Asks, Forecasts!Asked, ForecastsInv

LEMMA ReadOver ==
  ASSUME ForecastsInv, NEW s \in Slots, reads' = [reads EXCEPT ![s] = Forecasts!NoRead]
  PROVE  reads' \in [Slots -> ForecastReads]
BY DEF ForecastReads, ForecastsInv

LEMMA PanelOver ==
  ASSUME NEW p \in ForecastPanels, NEW kind
  PROVE  Forecasts!Over(p, kind) \in ForecastPanels
BY DEF Forecasts!Over, ForecastPanels, DishOrNone

\* A read that is there has the fields of one.
LEMMA ReadFields ==
  ASSUME ForecastsInv, NEW s \in Slots, reads[s] # Forecasts!NoRead
  PROVE  reads[s] \in [kind : {"data", "poll"} \cup Forecasts!Follow, blank : BOOLEAN,
                       jobs : Forecasts!Jobs, runs : Forecasts!Runs, answered : BOOLEAN]
BY DEF ForecastsInv, ForecastReads

LEMMA ReadsStep ==
  ASSUME ForecastsInv, NEW s \in Slots, Forecasts!Answers(s) \/ Forecasts!ReadFails(s)
  PROVE  ForecastsInv'
<1> DEFINE r == reads[s]
<1>1. CASE Forecasts!Answered(s)
  <2>1. [r EXCEPT !.jobs = jobs, !.runs = runs, !.answered = TRUE] \in ForecastReads
    BY <1>1, ReadFields DEF Forecasts!Answered, ForecastReads, ForecastsInv
  <2>2. reads' = [reads EXCEPT ![s] = [r EXCEPT !.jobs = jobs, !.runs = runs, !.answered = TRUE]]
    BY <1>1 DEF Forecasts!Answered
  <2>3. reads' \in [Slots -> ForecastReads] BY <2>1, <2>2 DEF ForecastsInv
  <2> QED BY <1>1, <2>3 DEF Forecasts!Answered, ForecastsInv
<1>2. CASE Forecasts!Show(s)
  <2>1. r \in [kind : {"data", "poll"} \cup Forecasts!Follow, blank : BOOLEAN,
               jobs : Forecasts!Jobs, runs : Forecasts!Runs, answered : BOOLEAN]
    BY <1>2, ReadFields DEF Forecasts!Show
  <2> DEFINE p == Forecasts!Over(forecasts, r.kind)
  <2>2. p \in ForecastPanels BY PanelOver DEF ForecastsInv
  <2>3. forecasts' = [p EXCEPT !.jobs = r.jobs,
                              !.runs = IF r.kind \in Forecasts!Follow THEN @ ELSE r.runs,
                              !.menu = IF r.kind = "data" THEN Dishes ELSE @,
                              !.selected = IF r.blank THEN 1 ELSE @]
    BY <1>2 DEF Forecasts!Show, Forecasts!Shown
  <2>4. 1 \in Dishes BY Firsts
  <2> HIDE DEF p, r
  <2>5. forecasts' \in ForecastPanels BY <2>1, <2>2, <2>3, <2>4 DEF ForecastPanels, DishOrNone
  <2>6. reads' \in [Slots -> ForecastReads]
    BY <1>2, ReadAsked, ReadOver DEF Forecasts!Show, Forecasts!Shown
  <2> QED BY <1>2, <2>5, <2>6 DEF Forecasts!Show, ForecastsInv
<1>3. CASE Forecasts!ReadFails(s)
  <2>1. forecasts' \in ForecastPanels BY <1>3, PanelOver DEF Forecasts!ReadFails, ForecastsInv
  <2>2. reads' \in [Slots -> ForecastReads] BY <1>3, ReadOver DEF Forecasts!ReadFails
  <2> QED BY <1>3, <2>1, <2>2, ForecastEvent DEF Forecasts!ReadFails, ForecastsInv
<1> QED BY <1>1, <1>2, <1>3 DEF Forecasts!Answers

LEMMA ManagersStep ==
  ASSUME ForecastsInv, NEW s \in Slots
  PROVE  /\ \A d \in Dishes : Forecasts!Select(d, s) => ForecastsInv'
         /\ \A d \in {0, 1} : Forecasts!Search(d) => ForecastsInv'
         /\ \A open \in BOOLEAN : Forecasts!ImportModal(open) => ForecastsInv'
<1>1. ASSUME NEW d \in Dishes, Forecasts!Select(d, s) PROVE ForecastsInv'
  <2>1. forecasts' \in ForecastPanels BY <1>1 DEF Forecasts!Select, ForecastsInv, ForecastPanels, DishOrNone
  <2>2. reads' \in [Slots -> ForecastReads] BY <1>1, ReadAsked DEF Forecasts!Select
  <2> QED BY <1>1, <2>1, <2>2, ForecastEvent DEF Forecasts!Select, ForecastsInv
<1>2. ASSUME NEW d \in {0, 1}, Forecasts!Search(d) PROVE ForecastsInv'
  <2>1. 1 \in Dishes BY Firsts
  <2>2. forecasts' \in ForecastPanels BY <1>2, <2>1 DEF Forecasts!Search, ForecastsInv, ForecastPanels, DishOrNone
  <2> QED BY <1>2, <2>2, ForecastEvent DEF Forecasts!Search, ForecastsInv
<1>3. ASSUME NEW open \in BOOLEAN, Forecasts!ImportModal(open) PROVE ForecastsInv'
  <2>1. forecasts' \in ForecastPanels BY <1>3 DEF Forecasts!ImportModal, ForecastsInv, ForecastPanels
  <2> QED BY <1>3, <2>1, ForecastEvent DEF Forecasts!ImportModal, ForecastsInv
<1> QED BY <1>1, <1>2, <1>3

LEMMA HandleRunStep ==
  ASSUME ForecastsInv, NEW dishes \in {{d} : d \in Dishes} \cup {forecasts.menu}, NEW batch \in BOOLEAN,
         Forecasts!handleRun(dishes, batch)
  PROVE  ForecastsInv'
<1>1. dishes \subseteq Dishes /\ dishes # {} BY DEF ForecastsInv, ForecastPanels, Forecasts!handleRun
<1>2. command' \in ForecastCommands BY <1>1 DEF Forecasts!handleRun, ForecastCommands, Forecasts!Follow
<1>3. (CHOOSE d \in dishes : TRUE) \in Dishes BY <1>1
<1>4. forecasts' \in ForecastPanels
  BY <1>3 DEF Forecasts!handleRun, ForecastsInv, ForecastPanels, DishOrNone
<1>5. events' \in 0 .. ForecastEvents BY ForecastEvent DEF Forecasts!handleRun
<1> QED BY <1>2, <1>4, <1>5 DEF Forecasts!handleRun, ForecastsInv

LEMMA RunCommitsStep ==
  ASSUME ForecastsInv, NEW s \in Slots, NEW answered \in BOOLEAN, Forecasts!RunCommits(answered, s)
  PROVE  ForecastsInv'
<1>1. jobs' \in Forecasts!Jobs
  BY DEF Forecasts!RunCommits, Forecasts!Queued, Forecasts!Jobs, ForecastsInv
<1>2. command' \in ForecastCommands BY DEF Forecasts!RunCommits, ForecastCommands
<1>3. command.kind \in Forecasts!Follow /\ FALSE \in BOOLEAN BY DEF Forecasts!RunCommits
<1>4. CASE answered
  <2>1. reads' \in [Slots -> ForecastReads] BY <1>3, <1>4, ReadAsked DEF Forecasts!RunCommits
  <2> QED BY <1>1, <1>2, <1>4, <2>1 DEF Forecasts!RunCommits, ForecastsInv
<1>5. CASE ~answered
  <2>1. forecasts' \in ForecastPanels BY <1>5, PanelOver DEF Forecasts!RunCommits, ForecastsInv
  <2> QED BY <1>1, <1>2, <1>5, <2>1 DEF Forecasts!RunCommits, ForecastsInv
<1> QED BY <1>4, <1>5

LEMMA ImportStep ==
  ASSUME ForecastsInv, NEW s \in Slots, Forecasts!ImportCommits(s)
  PROVE  ForecastsInv'
<1>1. command.blank \in BOOLEAN
  BY DEF Forecasts!ImportCommits, ForecastsInv, ForecastCommands, Forecasts!NoCommand, Forecasts!Follow
<1>2. reads' \in [Slots -> ForecastReads] BY <1>1, ReadAsked DEF Forecasts!ImportCommits
<1>3. forecasts' \in ForecastPanels BY DEF Forecasts!ImportCommits, ForecastsInv, ForecastPanels
<1>4. command' \in ForecastCommands BY DEF Forecasts!ImportCommits, ForecastCommands
<1> QED BY <1>2, <1>3, <1>4 DEF Forecasts!ImportCommits, ForecastsInv

LEMMA ForecastsNext ==
  ASSUME ForecastsInv, Forecasts!Next
  PROVE  ForecastsInv'
<1>1. ASSUME NEW d \in Dishes, NEW completed \in BOOLEAN, Forecasts!Settle(d, completed) PROVE ForecastsInv'
  <2>1. Forecasts!Plan \in {"completed", "insufficient_history"} BY DEF Forecasts!Plan
  <2>2. jobs' \in Forecasts!Jobs /\ runs' \in Forecasts!Runs
    BY <1>1, <2>1 DEF Forecasts!Settle, ForecastsInv, Forecasts!Jobs, Forecasts!Runs
  <2> QED BY <1>1, <2>2 DEF Forecasts!Settle, ForecastsInv
<1>2. ASSUME NEW s \in Slots, Forecasts!Poll(s) PROVE ForecastsInv'
  <2>1. reads' \in [Slots -> ForecastReads] BY <1>2, ReadAsked DEF Forecasts!Poll
  <2> QED BY <1>2, <2>1 DEF Forecasts!Poll, ForecastsInv
<1>3. CASE Forecasts!CommandFails
  <2>1. command' \in ForecastCommands BY <1>3 DEF Forecasts!CommandFails, ForecastCommands
  <2>2. forecasts' \in ForecastPanels BY <1>3, PanelOver DEF Forecasts!CommandFails, ForecastsInv
  <2> QED BY <1>3, <2>1, <2>2, ForecastEvent DEF Forecasts!CommandFails, ForecastsInv
<1>4. CASE Forecasts!handleImportSubmit
  <2>1. command' \in ForecastCommands BY <1>4 DEF Forecasts!handleImportSubmit, ForecastCommands
  <2> QED BY <1>4, <2>1 DEF Forecasts!handleImportSubmit, ForecastsInv
<1>5. 1 \in Slots BY Firsts
<1> QED
  BY <1>1, <1>2, <1>3, <1>4, <1>5, ReadsStep, ManagersStep, HandleRunStep, RunCommitsStep, ImportStep
  DEF Forecasts!Next, Forecasts!Works, Forecasts!Polls

LEMMA ForecastsInit ==
  ASSUME Forecasts!Init
  PROVE  ForecastsInv
<1>1. Forecasts!NewRead("data", TRUE) \in ForecastReads /\ Forecasts!NoRead \in ForecastReads
  BY NoForecasts DEF ForecastReads
<1>2. reads \in [Slots -> ForecastReads] BY <1>1 DEF Forecasts!Init
<1>3. forecasts \in ForecastPanels BY NoForecasts DEF Forecasts!Init, ForecastPanels, DishOrNone
<1>4. command \in ForecastCommands /\ events \in 0 .. ForecastEvents
  BY BoundsAssumption DEF Forecasts!Init, ForecastCommands
<1> QED BY <1>2, <1>3, <1>4, NoForecasts DEF Forecasts!Init, ForecastsInv

LEMMA ForecastTypes ==
  ASSUME ForecastsInv
  PROVE  Forecasts!TypeOK
<1>1. \A s \in Slots : reads[s].kind \in {"none", "data", "poll"} \cup Forecasts!Follow
  BY DEF ForecastsInv, ForecastReads, Forecasts!NoRead
<1>2. command.kind \in {"none", "import"} \cup Forecasts!Follow
  BY DEF ForecastsInv, ForecastCommands, Forecasts!NoCommand
<1> QED BY <1>1, <1>2 DEF ForecastsInv, ForecastPanels, DishOrNone, Forecasts!TypeOK

-----------------------------------------------------------------------------
\* The orders.
OrderBounds == Len(orders) <= MaxOrders /\ events \in 0 .. OrderEvents

LEMMA OrdersCounted ==
  ASSUME OrdersInv, OrderBounds, Orders!Next
  PROVE  OrderBounds'
<1>1. OrderEvents \in Nat /\ MaxOrders \in Nat /\ Len(orders) \in Nat /\ orders \in Seq(OrderRecords)
  BY BoundsAssumption DEF OrdersInv, OrdersTyped
<1>2. ASSUME NEW n, NEW to, Orders!SetOrder(n, to) PROVE Len(orders') <= MaxOrders
  BY <1>1, <1>2 DEF Orders!SetOrder, OrderBounds
<1>3. ASSUME NEW by, Len(orders) < MaxOrders, orders' = Orders!Placed(by)
      PROVE  Len(orders') <= MaxOrders
  BY <1>1, <1>3 DEF Orders!Placed
<1>4. CASE Orders!Elsewhere
  <2>1. Len(orders') <= MaxOrders
    BY <1>2, <1>3, <1>4 DEF Orders!Elsewhere, Orders!OthersMove, Orders!OthersOrder,
         Orders!Reassign, Orders!Midnight, OrderBounds
  <2>2. Orders!Event
    BY <1>4 DEF Orders!Elsewhere, Orders!OthersMove, Orders!OthersOrder, Orders!Reassign, Orders!Midnight
  <2> QED BY <1>1, <2>1, <2>2 DEF Orders!Event, OrderBounds
<1>5. CASE \E answered \in BOOLEAN : Orders!Commits(answered)
  <2>1. UNCHANGED events BY <1>5 DEF Orders!Commits
  <2>2. UNCHANGED orders \/ (\E n, to : Orders!SetOrder(n, to))
        \/ (Len(orders) < MaxOrders /\ orders' = Orders!Placed(Me))
    BY <1>5 DEF Orders!Commits, Orders!Accepts
  <2> QED BY <1>2, <1>3, <2>1, <2>2 DEF OrderBounds
<1>6. CASE Orders!Loading \/ Orders!Looking
           \/ (Orders!Acting /\ ~\E answered \in BOOLEAN : Orders!Commits(answered))
  <2>1. UNCHANGED orders BY <1>6, QuietOrders
  <2>2. Orders!Event \/ UNCHANGED events
    BY <1>6 DEF Orders!Loading, Orders!Poll, Orders!MeAnswers, Orders!PageAnswers, Orders!RestAnswers,
         Orders!LoadFails, Orders!AfterSave, Orders!Looking, Orders!Type, Orders!Navigate,
         Orders!ToHistory, Orders!Back, Orders!SignOut, Orders!ViewOrders, Orders!PickStage,
         Orders!PickDates, Orders!Searched, Orders!Shows, Orders!Acting, Orders!ClickNext,
         Orders!Open, Orders!TakeNewOrder, Orders!Dismiss, Orders!Submit, Orders!Refused
  <2> QED BY <1>1, <2>1, <2>2 DEF Orders!Event, OrderBounds
<1> QED BY <1>4, <1>5, <1>6 DEF Orders!Next

LEMMA OrderTypes ==
  ASSUME OrdersInv, OrderBounds
  PROVE  Orders!TypeOK
<1>1. \A l \in Slots : orderLoads[l].step \in {"none", "me", "page", "rest"}
  BY DEF OrdersInv, OrderLoads, Orders!NoLoad
<1>2. screen.at \in {"open", "left"} /\ screen.portal \in Orders!Portals
      /\ screen.search \in Orders!Searches /\ screen.tab \in Orders!Tabs(screen.portal)
  BY DEF OrdersInv, ScreenOf
<1>3. click.step \in {"none", "sent", "saved", "loading"} BY DEF OrdersInv, ClickOf
<1>4. orders \in Seq([status : Orders!Active \cup Orders!Ended, version : Nat \ {0},
                      by : {Me, Other}, day : 0 .. 1, done : 0 .. 1])
  BY DEF OrdersInv, OrdersTyped, OrderRecords, OrderStatuses
<1> QED BY <1>1, <1>2, <1>3, <1>4 DEF OrdersInv, OrdersTyped, OrderBounds, Orders!TypeOK

-----------------------------------------------------------------------------
\* The expenses.
ExpenseBounds == Len(expenses) <= MaxExpenses /\ events \in 0 .. ExpenseEvents

LEMMA ExpensesCounted ==
  ASSUME ExpensesInv, ExpenseBounds, Expenses!Next
  PROVE  ExpenseBounds'
<1>1. /\ ExpenseEvents \in Nat /\ MaxExpenses \in Nat /\ Len(expenses) \in Nat
      /\ expenses \in Seq(ExpenseRecords)
  BY BoundsAssumption DEF ExpensesInv, ExpensesTyped
<1>2. ASSUME NEW n, Expenses!Void(n) PROVE Len(expenses') <= MaxExpenses
  BY <1>1, <1>2 DEF Expenses!Void, ExpenseBounds
<1>3. ASSUME NEW day, NEW category, NEW form, Expenses!Record(day, category, form)
      PROVE  Len(expenses') <= MaxExpenses
  BY <1>1, <1>3 DEF Expenses!Record
<1>4. ASSUME NEW c, Expenses!Commits(c) PROVE Len(expenses') <= MaxExpenses
  BY <1>2, <1>3, <1>4 DEF Expenses!Commits, Expenses!Carry, ExpenseBounds
<1>5. CASE Expenses!Elsewhere
  <2>1. Len(expenses') <= MaxExpenses
    BY <1>2, <1>3, <1>5 DEF Expenses!Elsewhere, Expenses!OthersRecord, Expenses!OthersVoid
  <2>2. Expenses!Event BY <1>5 DEF Expenses!Elsewhere, Expenses!OthersRecord, Expenses!OthersVoid
  <2> QED BY <1>1, <2>1, <2>2 DEF Expenses!Event, ExpenseBounds
<1>6. CASE Expenses!Looking
  <2>1. UNCHANGED expenses /\ (Expenses!Event \/ UNCHANGED events)
    BY <1>6 DEF Expenses!Looking, Expenses!Poll, Expenses!Answers, Expenses!Show, Expenses!LoadFails, Expenses!NextPage,
         Expenses!PreviousPage, Expenses!PickPeriod, Expenses!PickTopic, Expenses!PickStatus, Expenses!Look
  <2> QED BY <1>1, <2>1 DEF Expenses!Event, ExpenseBounds
<1>7. CASE Expenses!Acting
  <2>1. Len(expenses') <= MaxExpenses
    BY <1>4, <1>7 DEF Expenses!Acting, Expenses!OpenRecord, Expenses!OpenVoid, Expenses!OpenForm,
         Expenses!Submit, Expenses!CloseForm, Expenses!LosesAnswer, Expenses!Refused, Expenses!Answered,
         Expenses!CancelVoid, ExpenseBounds
  <2>2. Expenses!Event \/ UNCHANGED events
    BY <1>7 DEF Expenses!Acting, Expenses!OpenRecord, Expenses!OpenVoid, Expenses!OpenForm,
         Expenses!Submit, Expenses!CloseForm, Expenses!LosesAnswer, Expenses!Refused, Expenses!Answered,
         Expenses!CancelVoid
  <2> QED BY <1>1, <2>1, <2>2 DEF Expenses!Event, ExpenseBounds
<1> QED BY <1>5, <1>6, <1>7 DEF Expenses!Next

LEMMA ExpenseTypes ==
  ASSUME ExpensesInv, ExpenseBounds
  PROVE  Expenses!TypeOK
<1>1. /\ ledger.period \in Expenses!Periods /\ ledger.offset \in Nat
      /\ ledger.topic \in {"all"} \cup Expenses!Categories /\ ledger.status \in {"all", "active", "voided"}
      /\ ledger.form.kind \in {"none", "record", "void"}
  BY DEF ExpensesInv, LedgerOf, FilledForms, Expenses!NoForm
<1>2. \A l \in Slots :
        \/ expenseLoads[l] = Expenses!NoLoad
        \/ /\ expenseLoads[l].offset \in Nat /\ expenseLoads[l].period \in Expenses!Periods
           /\ expenseLoads[l].total \in Nat \cup {Expenses!NotRead}
  BY DEF ExpensesInv, ExpenseLoads
<1>3. expenses \in Seq([day : 0 .. 1, category : Expenses!Categories, voided : BOOLEAN,
                        version : Nat \ {0}, form : Nat])
  BY DEF ExpensesInv, ExpensesTyped, ExpenseRecords
<1> QED BY <1>1, <1>2, <1>3 DEF ExpensesInv, ExpensesTyped, ExpenseBounds, Expenses!TypeOK

-----------------------------------------------------------------------------
\* The receipts.
CodesCounted == Len(links) <= MaxTokens /\ \A b \in Bills : tokens[b].code <= Len(links)
NoPageNoCode == \A p \in Phones : pages[p].step = "none" => pages[p].code = 0
Sorted == till.section \in Receipts!Sections /\ till.filter \in {"unpaid", "paid", "all"}
ReceiptBounds == CodesCounted /\ NoPageNoCode /\ Sorted /\ events \in 0 .. ReceiptEvents

LEMMA CodeAdded ==
  ASSUME ReceiptInv, CodesCounted, NEW b \in Bills, Receipts!NewCode(b)
  PROVE  CodesCounted'
<1>1. Len(links) \in Nat /\ MaxTokens \in Nat /\ \A a \in Bills : tokens[a].code \in Nat
  <2>1. \A a \in Bills : tokens[a].code \in Nat BY DEF ReceiptInv, LinksTyped, LinkRows
  <2>2. Len(links) \in Nat BY DEF ReceiptInv, LinksTyped
  <2> QED BY <2>1, <2>2, BoundsAssumption
<1>2. tokens'[b].code = Len(links) + 1 BY DEF Receipts!NewCode, ReceiptInv, LinksTyped
<1>3. Len(links') = Len(links) + 1 /\ \A a \in Bills : a # b => tokens'[a] = tokens[a]
  BY OneMoreCode DEF ReceiptInv
<1> QED BY <1>1, <1>2, <1>3 DEF CodesCounted, Receipts!NewCode

LEMMA CodeMarked ==
  ASSUME ReceiptInv, CodesCounted, NEW b \in Bills, UNCHANGED links,
         \/ tokens' = [tokens EXCEPT ![b].used = TRUE]
         \/ tokens' = [tokens EXCEPT ![b].expired = TRUE]
  PROVE  CodesCounted'
<1>1. tokens \in [Bills -> LinkRows] BY DEF ReceiptInv, LinksTyped
<1>2. \A a \in Bills : tokens'[a].code = tokens[a].code BY <1>1 DEF LinkRows
<1> QED BY <1>2 DEF CodesCounted

LEMMA StillSorted ==
  ASSUME ReceiptInv, Sorted, NEW t,
         t.section \in Receipts!Sections, t.filter \in {"unpaid", "paid", "all"}, till' = t
  PROVE  Sorted'
BY DEF Sorted

LEMMA SortedStep ==
  ASSUME ReceiptInv, Sorted, Receipts!AtTheTill
  PROVE  Sorted' /\ UNCHANGED <<tokens, links, pages>> /\ (Receipts!Event \/ UNCHANGED events)
<1> USE DEF ReceiptInv, ReceiptScreens, TillShape, Sorted, Receipts!Server
<1>1. ASSUME Receipts!Poll \/ Receipts!CloseBill \/ Receipts!pay
      PROVE  Sorted' /\ UNCHANGED <<tokens, links, pages, events>>
  BY <1>1 DEF Receipts!Poll, Receipts!Listed, Receipts!CloseBill, Receipts!pay
<1>2. ASSUME Receipts!PayCommits \/ Receipts!PayRefused
      PROVE  Sorted' /\ UNCHANGED <<tokens, links, pages, events>>
  BY <1>2 DEF Receipts!PayCommits, Receipts!PayRefused, Receipts!Paid
<1>3. ASSUME Receipts!PayLosesAnswer
      PROVE  Sorted' /\ UNCHANGED <<tokens, links, pages>> /\ Receipts!Event
  BY <1>3 DEF Receipts!PayLosesAnswer
<1>4. ASSUME NEW s \in Receipts!Sections, Receipts!PickSection(s)
      PROVE  Sorted' /\ UNCHANGED <<tokens, links, pages>> /\ Receipts!Event
  BY <1>4 DEF Receipts!PickSection, Receipts!Listed
<1>5. ASSUME NEW f \in {"unpaid", "paid"}, Receipts!PickFilter(f)
      PROVE  Sorted' /\ UNCHANGED <<tokens, links, pages>> /\ Receipts!Event
  BY <1>5 DEF Receipts!PickFilter, Receipts!Listed
<1>6. ASSUME NEW b \in Bills, Receipts!openBill(b)
      PROVE  Sorted' /\ UNCHANGED <<tokens, links, pages>> /\ Receipts!Event
  BY <1>6 DEF Receipts!openBill, Receipts!Shows
<1> QED BY <1>1, <1>2, <1>3, <1>4, <1>5, <1>6 DEF Receipts!AtTheTill

LEMMA IssuesCounted ==
  ASSUME ReceiptInv, CodesCounted, Sorted, Receipts!Issuing
  PROVE  CodesCounted' /\ Sorted' /\ UNCHANGED pages /\ (Receipts!Event \/ UNCHANGED events)
<1>0. ASSUME NEW c, NEW code, Receipts!Delivers(c, code) PROVE Sorted'
  BY <1>0 DEF Receipts!Delivers, ReceiptInv, ReceiptScreens, TillShape, Sorted
<1>1. ASSUME NEW c \in Tills, \/ Receipts!Look(c) \/ Receipts!LookFails(c) \/ Receipts!IssueFails(c)
                             \/ Receipts!ColleagueDeleted(c) \/ \E b \in Bills : Receipts!ColleagueOpens(c, b)
      PROVE  Sorted' /\ UNCHANGED <<tokens, links, pages>> /\ (Receipts!Event \/ UNCHANGED events)
  BY <1>0, <1>1 DEF Receipts!Look, Receipts!LookFails, Receipts!IssueFails, Receipts!ColleagueDeleted,
       Receipts!ColleagueOpens, Receipts!Fails, Receipts!Server, Sorted
<1>2. ASSUME NEW c \in Tills, Receipts!Command(c)
      PROVE  CodesCounted' /\ Sorted' /\ UNCHANGED <<pages, events>>
  <2>1. issues[c].bill \in Bills BY <1>2 DEF ReceiptInv, IssueFits, Receipts!Command
  <2>2. Sorted' BY <1>0, <1>2 DEF Receipts!Command, Sorted
  <2>3. UNCHANGED <<tokens, links>> \/ Receipts!NewCode(issues[c].bill) BY <1>2 DEF Receipts!Command
  <2> QED BY <1>2, <2>1, <2>2, <2>3, CodeAdded DEF Receipts!Command, CodesCounted
<1>3. ASSUME NEW c \in Tills, Receipts!Rotate(c)
      PROVE  CodesCounted' /\ Sorted' /\ UNCHANGED <<pages, events>>
  <2>1. issues[c].bill \in Bills BY <1>3 DEF ReceiptInv, IssueFits, Receipts!Rotate
  <2>2. Sorted' BY <1>0, <1>3 DEF Receipts!Rotate, Receipts!Fails, Sorted
  <2>3. UNCHANGED <<tokens, links>> \/ Receipts!NewCode(issues[c].bill) BY <1>3 DEF Receipts!Rotate
  <2> QED BY <1>3, <2>1, <2>2, <2>3, CodeAdded DEF Receipts!Rotate, CodesCounted
<1>4. ASSUME NEW b \in Bills, Receipts!ColleaguePays(b)
      PROVE  UNCHANGED <<tokens, links, till, pages>> /\ Receipts!Event
  BY <1>4 DEF Receipts!ColleaguePays
<1>5. ASSUME NEW b \in Bills, Receipts!Expires(b)
      PROVE  CodesCounted' /\ UNCHANGED <<till, pages>> /\ Receipts!Event
  BY <1>5, CodeMarked DEF Receipts!Expires
<1> QED BY <1>1, <1>2, <1>3, <1>4, <1>5 DEF Receipts!Issuing, CodesCounted, Sorted

LEMMA PagesCounted ==
  ASSUME ReceiptInv, CodesCounted, NoPageNoCode, Receipts!AtTheTable
  PROVE  CodesCounted' /\ NoPageNoCode' /\ UNCHANGED till /\ (Receipts!Event \/ UNCHANGED events)
<1>1. PICK p \in Phones : \/ \E code \in codes : Receipts!Scan(p, code)
                          \/ Receipts!InfoAnswers(p) \/ Receipts!submit(p) \/ Receipts!Check(p)
                          \/ Receipts!Received(p) \/ Receipts!ReceiptLost(p) \/ Receipts!NotReceived(p)
  BY DEF Receipts!AtTheTable
<1>2. pages \in [Phones -> GuestPages] BY DEF ReceiptInv, ReceiptScreens
<1>3. ASSUME NEW s \in PageSteps \ {"none"}, Receipts!Turns(p, s)
      PROVE  NoPageNoCode' /\ UNCHANGED <<links, till>>
  BY <1>2, <1>3 DEF Receipts!Turns, NoPageNoCode, GuestPages
<1>4. CASE \E code \in codes : Receipts!Scan(p, code)
  BY <1>2, <1>4 DEF Receipts!Scan, Receipts!Server, NoPageNoCode, CodesCounted
<1>5. CASE Receipts!InfoAnswers(p) \/ Receipts!submit(p) \/ Receipts!Check(p) \/ Receipts!NotReceived(p)
  BY <1>3, <1>5 DEF Receipts!InfoAnswers, Receipts!submit, Receipts!Check, Receipts!NotReceived,
       PageSteps, CodesCounted
<1>6. CASE Receipts!Received(p) \/ Receipts!ReceiptLost(p)
  <2>1. PICK s \in {"done", "form"} : Receipts!Turns(p, s)
    BY <1>6 DEF Receipts!Received, Receipts!ReceiptLost
  <2>2. /\ Receipts!review_submit(p) /\ pages[p].step = "sending" /\ UNCHANGED links
        /\ (Receipts!Event \/ UNCHANGED events)
    BY <1>6 DEF Receipts!Received, Receipts!ReceiptLost, Receipts!Turns
  <2>3. links[pages[p].code] \in Bills BY <2>2 DEF ReceiptInv, CodesMade, LinksTyped
  <2>4. CodesCounted' BY <2>2, <2>3, CodeMarked DEF Receipts!review_submit
  <2> QED BY <1>3, <2>1, <2>2, <2>4 DEF PageSteps
<1> QED BY <1>1, <1>4, <1>5, <1>6

LEMMA ReceiptsCounted ==
  ASSUME ReceiptInv, ReceiptBounds, Receipts!Next
  PROVE  ReceiptBounds'
<1>1. ReceiptEvents \in Nat BY BoundsAssumption
<1>2. CASE Receipts!AtTheTill
  <2>1. Sorted' /\ UNCHANGED <<tokens, links, pages>> /\ (Receipts!Event \/ UNCHANGED events)
    BY <1>2, SortedStep DEF ReceiptBounds
  <2> QED BY <1>1, <2>1 DEF ReceiptBounds, CodesCounted, NoPageNoCode, Receipts!Event
<1>3. CASE Receipts!Issuing
  <2>1. CodesCounted' /\ Sorted' /\ UNCHANGED pages /\ (Receipts!Event \/ UNCHANGED events)
    BY <1>3, IssuesCounted DEF ReceiptBounds
  <2> QED BY <1>1, <2>1 DEF ReceiptBounds, NoPageNoCode, Receipts!Event
<1>4. CASE Receipts!AtTheTable
  <2>1. CodesCounted' /\ NoPageNoCode' /\ UNCHANGED till /\ (Receipts!Event \/ UNCHANGED events)
    BY <1>4, PagesCounted DEF ReceiptBounds
  <2> QED BY <1>1, <2>1 DEF ReceiptBounds, Sorted, Receipts!Event
<1> QED BY <1>2, <1>3, <1>4 DEF Receipts!Next

LEMMA ReceiptTypes ==
  ASSUME ReceiptInv, ReceiptBounds
  PROVE  Receipts!TypeOK
<1>1. Len(links) \in Nat /\ MaxTokens \in Nat /\ Len(links) <= MaxTokens
  BY BoundsAssumption DEF ReceiptInv, LinksTyped, ReceiptBounds, CodesCounted
<1>2. tokens \in [Bills -> [code : 0 .. MaxTokens, used : BOOLEAN, expired : BOOLEAN]]
  BY <1>1 DEF ReceiptInv, LinksTyped, LinkRows, ReceiptBounds, CodesCounted
<1>3. records \in [Tills -> [Bills -> 0 .. Len(links)]]
  BY <1>1 DEF ReceiptInv, LinksTyped, CodesMade
<1>4. pages \in [Phones -> [step : PageSteps, code : 0 .. Len(links)]]
  BY <1>1 DEF ReceiptInv, ReceiptScreens, CodesMade, GuestPages, ReceiptBounds, NoPageNoCode
<1>5. till.bill \in Bills \cup {0} /\ till.qr \in 0 .. Len(links)
  BY <1>1 DEF ReceiptInv, ReceiptScreens, TillShape, CodesMade
<1> QED
  BY <1>1, <1>2, <1>3, <1>4, <1>5 DEF ReceiptInv, LinksTyped, ReceiptScreens, Issues, CodesMade,
     PageSteps, ReceiptBounds, Sorted, Receipts!TypeOK

-----------------------------------------------------------------------------
\* The covered days.  No transaction began in the future.
TxnFits(t) ==
  t.locked \subseteq t.days /\ t.date \in 0 .. date /\ (t.kind = "order_pay" => t.order \in Bills)
DayBounds ==
  /\ date \in 1 .. Cardinality(Days) + 1 /\ events \in 0 .. DayEvents
  /\ paid \in [Bills -> 0 .. date]
  /\ \A k \in Slots : TxnFits(reporting[k])

LEMMA FitsStep ==
  ASSUME DaysInv, DayBounds, UNCHANGED date, NEW k \in Slots, NEW n, TxnFits(n),
         reporting' = [reporting EXCEPT ![k] = n], DayBook!Begins(k, n) \/ UNCHANGED events,
         paid' \in [Bills -> 0 .. date]
  PROVE  DayBounds'
<1>1. \A j \in Slots : TxnFits(reporting'[j]) BY DEF DaysInv, DaysTyped, DayBounds
<1>2. \A j \in Slots : TxnFits(reporting[j])' BY <1>1 DEF TxnFits
<1>3. events' \in 0 .. DayEvents BY BoundsAssumption DEF DayBounds, DayBook!Begins
<1> QED BY <1>2, <1>3 DEF DayBounds

LEMMA NoTxnFits ==
  ASSUME DayBounds
  PROVE  TxnFits(DayBook!NoTxn) /\ date \in Nat
<1>1. date \in Nat BY BoundsAssumption DEF DayBounds
<1> QED BY <1>1 DEF TxnFits, DayBook!NoTxn

LEMMA DaysCounted ==
  ASSUME DaysInv, DayBounds, DayBook!Next
  PROVE  DayBounds'
<1>0. Days = 1 .. Cardinality(Days) /\ Cardinality(Days) \in Nat
  BY PortalAssumption, BoundsAssumption
<1> DEFINE n == Cardinality(Days)
<1> HIDE DEF n
<1>1. CASE DayBook!Midnight
  <2>1. date' \in 1 .. n + 1 /\ date' = date + 1 /\ date \in Nat
    BY <1>0, <1>1 DEF DayBook!Midnight, n
  <2>2. \A k \in Slots : TxnFits(reporting[k])'
    BY <1>1, <2>1 DEF DayBook!Midnight, DayBounds, TxnFits
  <2>3. paid' \in [Bills -> 0 .. date'] BY <1>1, <2>1 DEF DayBook!Midnight, DayBounds
  <2> QED BY <1>1, <2>1, <2>2, <2>3 DEF DayBook!Midnight, DayBounds, n
<1>2. ASSUME NEW k \in Slots, DayBook!Ends(k), UNCHANGED <<date, events>>, paid' \in [Bills -> 0 .. date]
      PROVE  DayBounds'
  BY <1>2, NoTxnFits, FitsStep DEF DayBook!Ends
<1>3. ASSUME NEW k \in Slots, DayBook!Proceeds(k) PROVE DayBounds'
  <2>0. paid \in [Bills -> 0 .. date] /\ TxnFits(reporting[k]) BY DEF DayBounds
  <2> DEFINE t == reporting[k]
  <2>1. CASE DayBook!Ends(k) /\ ~DayBook!PayCommits(k)
    BY <1>2, <1>3, <2>0, <2>1 DEF DayBook!Proceeds, DayBook!Lock, DayBook!Look, DayBook!CloseCommits,
         DayBook!ImportCommits
  <2>2. CASE DayBook!Lock(k) /\ ~DayBook!Ends(k)
    <3>1. PICK d \in DayBook!NextDays(t) : reporting' = [reporting EXCEPT ![k] = [t EXCEPT !.locked = @ \cup {d}]]
      BY <2>2 DEF DayBook!Lock, DayBook!Goes
    <3>2. t \in DayTxns BY DEF DaysInv, DaysTyped
    <3>3. TxnFits([t EXCEPT !.locked = @ \cup {d}])
      BY <2>0, <3>2 DEF TxnFits, DayBook!NextDays, DayTxns
    <3> QED BY <2>0, <2>2, <3>1, <3>3, FitsStep DEF DayBook!Lock
  <2>3. CASE DayBook!Look(k) /\ ~DayBook!Ends(k)
    <3>1. reporting' = [reporting EXCEPT ![k] = [t EXCEPT !.looked = TRUE]]
      BY <2>3 DEF DayBook!Look, DayBook!Goes
    <3>2. t \in DayTxns BY DEF DaysInv, DaysTyped
    <3>3. TxnFits([t EXCEPT !.looked = TRUE]) BY <2>0, <3>2 DEF TxnFits, DayTxns
    <3> QED BY <2>0, <2>3, <3>1, <3>3, FitsStep DEF DayBook!Look
  <2>4. CASE DayBook!PayCommits(k)
    <3>1. t.order \in Bills /\ t.date \in 0 .. date BY <2>0, <2>4 DEF DayBook!PayCommits, TxnFits
    <3>2. paid' \in [Bills -> 0 .. date] BY <2>0, <2>4, <3>1 DEF DayBook!PayCommits
    <3> QED BY <1>2, <2>4, <3>2 DEF DayBook!PayCommits
  <2> QED BY <1>3, <2>1, <2>2, <2>3, <2>4 DEF DayBook!Proceeds, DayBook!CloseCommits, DayBook!ImportCommits
<1>4. ASSUME NEW k \in Slots, NEW d \in Days, NEW s, DayBook!day_close(k, d, s) PROVE DayBounds'
  <2> DEFINE t == [DayBook!NoTxn EXCEPT !.kind = "day_close", !.days = {d}, !.status = s]
  <2>1. TxnFits(t) BY NoTxnFits DEF TxnFits, DayBook!NoTxn
  <2>2. DayBook!Begins(k, t) BY <1>4 DEF DayBook!day_close
  <2> QED BY <2>1, <2>2, FitsStep DEF DayBook!Begins, DayBounds
<1>5. ASSUME NEW k \in Slots, NEW rows, DayBook!history_import(k, rows) PROVE DayBounds'
  <2> DEFINE t == [DayBook!NoTxn EXCEPT !.kind = "history_import", !.days = DayBook!DaysOf(rows), !.rows = rows]
  <2>1. TxnFits(t) BY NoTxnFits DEF TxnFits, DayBook!NoTxn
  <2>2. DayBook!Begins(k, t) BY <1>5 DEF DayBook!history_import
  <2> QED BY <2>1, <2>2, FitsStep DEF DayBook!Begins, DayBounds
<1>6. ASSUME NEW k \in Slots, NEW o \in Bills, DayBook!order_pay(k, o) PROVE DayBounds'
  <2> DEFINE t == [DayBook!NoTxn EXCEPT !.kind = "order_pay", !.order = o, !.date = date]
  <2>1. TxnFits(t) BY NoTxnFits DEF TxnFits, DayBook!NoTxn
  <2>2. DayBook!Begins(k, t) BY <1>6 DEF DayBook!order_pay
  <2> QED BY <2>1, <2>2, FitsStep DEF DayBook!Begins, DayBounds
<1> QED BY <1>1, <1>3, <1>4, <1>5, <1>6 DEF DayBook!Next

LEMMA DaysStartCounted ==
  ASSUME DayBook!Init
  PROVE  DayBounds
<1>1. \A k \in Slots : reporting[k] = DayBook!NoTxn BY DEF DayBook!Init
<1>2. 1 \in 1 .. Cardinality(Days) + 1 BY BoundsAssumption
<1>3. date = 1 BY DEF DayBook!Init
<1>4. TxnFits(DayBook!NoTxn) BY <1>3 DEF TxnFits, DayBook!NoTxn
<1>5. \A k \in Slots : TxnFits(reporting[k]) BY <1>1, <1>4
<1> QED BY <1>2, <1>3, <1>5, BoundsAssumption DEF DayBook!Init, DayBounds

LEMMA DayTypes ==
  ASSUME DaysInv, DayBounds
  PROVE  DayBook!TypeOK
<1>1. DayBook!Cardinality(Days) = Cardinality(Days) BY DEF DayBook!Cardinality, Cardinality
<1>2. paid \in [Bills -> {0} \cup Days \cup {date}]
  <2> DEFINE n == Cardinality(Days)
  <2>1. n \in Nat /\ date \in 1 .. n + 1 /\ Days = 1 .. n BY PortalAssumption, BoundsAssumption DEF DayBounds
  <2> HIDE DEF n
  <2>2. 0 .. date \subseteq {0} \cup Days \cup {date} BY <2>1
  <2> QED BY <2>2 DEF DayBounds
<1>3. \A k \in Slots : /\ reporting[k].kind \in {"none", "day_close", "history_import", "order_pay"}
                       /\ reporting[k].locked \subseteq reporting[k].days
  BY DEF DaysInv, DaysTyped, DayTxns, DayBounds, TxnFits
<1> QED BY <1>1, <1>2, <1>3 DEF DaysInv, DaysTyped, DayBounds, DayBook!TypeOK

-----------------------------------------------------------------------------
\* The session.  On the sign-in page nothing but one sign-in is under way, so that
\* no more sessions are opened than there are to open.
CallSteps == {"sent", "inserting", "renewing", "resent", "answered"}
CallStatuses == {0, 200, 401, 403}
Numbers(n) == 0 .. n
CallRecords(n) ==
  [path : Sessions!Paths, step : CallSteps, session : Numbers(n), fresh : BOOLEAN,
   typed : Int, gained : Numbers(n), status : CallStatuses]
SessionCalls(n) == {Sessions!NoCall} \cup CallRecords(n)
SigningIn(c) == c.path \in {"login", "check"}
OneSignIn ==
  /\ \A k \in Slots : page.at = "sign-in" /\ calls[k] # Sessions!NoCall => SigningIn(calls[k]) /\ page.busy
  /\ \A k \in Slots : SigningIn(calls[k]) =>
       page.at = "sign-in" /\ \A j \in Slots : j # k => calls[j] = Sessions!NoCall
RoomToOpen == \A k \in Slots :
  /\ calls[k].path = "login" /\ calls[k].step \in {"sent", "inserting"} => opened < MaxSessions
  /\ calls[k].step = "inserting" => calls[k].path = "login"
RenewalStates == {"none", "asked", "renewed", "failed"}
ServerTyped ==
  /\ events \in 0 .. SessionEvents
  /\ account \in [password : 1 .. events + 1, active : BOOLEAN] /\ cashier \in BOOLEAN
  /\ opened \in 0 .. MaxSessions /\ sessions \subseteq 1 .. opened
BrowserTyped ==
  /\ jar \in [session : 0 .. opened, fresh : BOOLEAN]
  /\ page \in [at : {"sign-in", "portal"}, busy : BOOLEAN]
  /\ calls \in [Slots -> SessionCalls(opened)]
  /\ renewals \in [Sessions!Ids -> RenewalStates]
SessionsInv == ServerTyped /\ BrowserTyped /\ OneSignIn /\ RoomToOpen

LEMMA SessionNumbers ==
  ASSUME ServerTyped
  PROVE  /\ SessionEvents \in Nat /\ MaxSessions \in Nat /\ opened \in Nat /\ events \in Nat
         /\ opened <= MaxSessions /\ 1 .. opened \subseteq Sessions!Ids
BY BoundsAssumption DEF ServerTyped, Sessions!Ids

LEMMA MoreNumbers ==
  ASSUME NEW m \in Nat, NEW n \in Nat, m <= n
  PROVE  Numbers(m) \subseteq Numbers(n) /\ 0 \in Numbers(m) /\ n \in Numbers(n)
BY DEF Numbers

LEMMA ServerStays ==
  ASSUME ServerTyped, UNCHANGED <<account, cashier, opened>>, Sessions!Event \/ UNCHANGED events,
         sessions' \subseteq sessions
  PROVE  ServerTyped'
BY SessionNumbers DEF ServerTyped, Sessions!Event

\* A call that is there.
LEMMA CallFields ==
  ASSUME BrowserTyped, NEW k \in Slots, calls[k] # Sessions!NoCall
  PROVE  calls[k] \in CallRecords(opened)
BY DEF BrowserTyped, SessionCalls

LEMMA CallsDropped ==
  ASSUME SessionsInv, NEW at \in {"sign-in", "portal"}, Sessions!GoTo(at), UNCHANGED opened
  PROVE  /\ calls' \in [Slots -> SessionCalls(opened')] /\ page' \in [at : {"sign-in", "portal"}, busy : BOOLEAN]
         /\ OneSignIn' /\ RoomToOpen'
<1>1. \A k \in Slots : calls'[k] = Sessions!NoCall BY DEF Sessions!GoTo
<1>2. calls' \in [Slots -> SessionCalls(opened')] BY DEF Sessions!GoTo, SessionCalls
<1>3. OneSignIn' /\ RoomToOpen' BY <1>1 DEF OneSignIn, RoomToOpen, SigningIn, Sessions!NoCall
<1> QED BY <1>2, <1>3 DEF Sessions!GoTo

\* One call ends; of a sign-in, the page may be used again.
LEMMA CallEnds ==
  ASSUME SessionsInv, NEW k \in Slots, calls' = [calls EXCEPT ![k] = Sessions!NoCall], UNCHANGED opened,
         UNCHANGED page \/ (calls[k].path # "data" /\ calls[k] # Sessions!NoCall /\ page' = [page EXCEPT !.busy = FALSE])
  PROVE  /\ calls' \in [Slots -> SessionCalls(opened')] /\ page' \in [at : {"sign-in", "portal"}, busy : BOOLEAN]
         /\ OneSignIn' /\ RoomToOpen'
<1>1. /\ calls \in [Slots -> SessionCalls(opened)] /\ page \in [at : {"sign-in", "portal"}, busy : BOOLEAN]
      /\ OneSignIn /\ RoomToOpen
  BY DEF SessionsInv, BrowserTyped
<1>2. /\ calls' \in [Slots -> SessionCalls(opened')] /\ calls'[k] = Sessions!NoCall
      /\ \A j \in Slots : j # k => calls'[j] = calls[j]
  BY <1>1 DEF SessionCalls
<1>3. page' \in [at : {"sign-in", "portal"}, busy : BOOLEAN] /\ page'.at = page.at BY <1>1
<1>4. RoomToOpen' BY <1>1, <1>2 DEF RoomToOpen, Sessions!NoCall
<1>5. OneSignIn'
  <2>1. \A j \in Slots : SigningIn(calls'[j]) => j # k BY <1>2 DEF SigningIn, Sessions!NoCall
  <2>2. \A j \in Slots : SigningIn(calls'[j]) =>
          page'.at = "sign-in" /\ \A i \in Slots : i # j => calls'[i] = Sessions!NoCall
    BY <1>1, <1>2, <1>3, <2>1 DEF OneSignIn
  <2>3. ASSUME NEW j \in Slots, page'.at = "sign-in", calls'[j] # Sessions!NoCall
        PROVE  SigningIn(calls'[j]) /\ page'.busy
    <3>1. j # k /\ calls[j] # Sessions!NoCall /\ SigningIn(calls[j]) /\ page.busy
      BY <1>1, <1>2, <1>3, <2>3 DEF OneSignIn
    <3>2. calls[k] = Sessions!NoCall BY <1>1, <3>1 DEF OneSignIn
    <3> QED BY <1>2, <3>1, <3>2
  <2> QED BY <2>2, <2>3 DEF OneSignIn
<1> QED BY <1>2, <1>3, <1>4, <1>5

\* One call goes on.
LEMMA CallGoesOn ==
  ASSUME SessionsInv, NEW k \in Slots, NEW x, calls[k] # Sessions!NoCall, calls' = [calls EXCEPT ![k] = x],
         opened' \in Nat, opened <= opened', x \in CallRecords(opened'), UNCHANGED page,
         SigningIn(x) <=> SigningIn(calls[k]),
         x.step = "inserting" => x.path = "login",
         x.path = "login" /\ x.step \in {"sent", "inserting"} => opened' < MaxSessions,
         opened' = opened \/ SigningIn(calls[k])
  PROVE  calls' \in [Slots -> SessionCalls(opened')] /\ OneSignIn' /\ RoomToOpen'
<1>1. calls \in [Slots -> SessionCalls(opened)] /\ OneSignIn /\ RoomToOpen /\ opened \in Nat
  BY SessionNumbers DEF SessionsInv, BrowserTyped
<1>2. SessionCalls(opened) \subseteq SessionCalls(opened') BY <1>1, MoreNumbers DEF SessionCalls, CallRecords
<1>3. x \in SessionCalls(opened') /\ x # Sessions!NoCall
  BY DEF SessionCalls, CallRecords, Sessions!NoCall, Sessions!Paths
<1>4. /\ calls' \in [Slots -> SessionCalls(opened')] /\ calls'[k] = x
      /\ \A j \in Slots : j # k => calls'[j] = calls[j]
  BY <1>1, <1>2, <1>3
<1>5. \A j \in Slots : opened' = opened \/ j = k \/ calls[j] = Sessions!NoCall BY <1>1 DEF OneSignIn
<1>6. RoomToOpen' BY <1>1, <1>4, <1>5 DEF RoomToOpen, Sessions!NoCall
<1>7. OneSignIn' BY <1>1, <1>3, <1>4 DEF OneSignIn
<1> QED BY <1>4, <1>6, <1>7

LEMMA SentCall ==
  ASSUME NEW n \in Nat, NEW path \in Sessions!Paths, NEW typed \in Int,
         NEW cookies \in [session : 0 .. n, fresh : BOOLEAN]
  PROVE  LET x == Sessions!Sent(path, cookies, typed)
         IN  x \in CallRecords(n) /\ x.path = path /\ x.step = "sent"
<1> DEFINE x == Sessions!Sent(path, cookies, typed)
           Base == [path : Sessions!Paths \cup {"none"}, step : CallSteps \cup {"none"}, session : Numbers(n),
                    fresh : BOOLEAN, typed : Int, gained : Numbers(n), status : CallStatuses]
<1>1. 0 \in Numbers(n) /\ cookies.session \in Numbers(n) /\ cookies.fresh \in BOOLEAN /\ 0 \in CallStatuses
  BY DEF Numbers, CallStatuses
<1>2. Sessions!NoCall \in Base BY <1>1 DEF Sessions!NoCall
<1>3. "sent" \in CallSteps BY DEF CallSteps
<1>4. x \in Base /\ x.path = path /\ x.step = "sent" BY <1>1, <1>2, <1>3 DEF Sessions!Sent
<1> HIDE DEF x
<1>5. x \in CallRecords(n) BY <1>3, <1>4 DEF CallRecords
<1> QED BY <1>4, <1>5 DEF x

LEMMA CallBegins ==
  ASSUME SessionsInv, NEW k \in Slots, NEW path \in {"login", "data", "logout"}, NEW typed \in Int,
         Sessions!Begin(k, path, typed),
         path = "login" => page.at = "sign-in" /\ ~page.busy /\ page' = [page EXCEPT !.busy = TRUE] /\ opened < MaxSessions,
         path # "login" => page.at = "portal" /\ (UNCHANGED page \/ page' = [page EXCEPT !.busy = TRUE])
  PROVE  /\ calls' \in [Slots -> SessionCalls(opened')] /\ page' \in [at : {"sign-in", "portal"}, busy : BOOLEAN]
         /\ OneSignIn' /\ RoomToOpen'
<1>1. /\ calls \in [Slots -> SessionCalls(opened)] /\ OneSignIn /\ RoomToOpen
      /\ jar \in [session : 0 .. opened, fresh : BOOLEAN] /\ page \in [at : {"sign-in", "portal"}, busy : BOOLEAN]
      /\ opened \in Nat
  BY SessionNumbers DEF SessionsInv, BrowserTyped
<1> DEFINE x == Sessions!Sent(path, jar, typed)
<1>2. x \in CallRecords(opened) /\ x.path = path /\ x.step = "sent"
  BY <1>1, SentCall DEF Sessions!Paths
<1>3. calls' = [calls EXCEPT ![k] = x] /\ UNCHANGED opened BY DEF Sessions!Begin, Sessions!Server
<1> HIDE DEF x
<1>4. /\ calls' \in [Slots -> SessionCalls(opened')] /\ calls'[k] = x
      /\ \A j \in Slots : j # k => calls'[j] = calls[j]
  BY <1>1, <1>2, <1>3 DEF SessionCalls
<1>5. page' \in [at : {"sign-in", "portal"}, busy : BOOLEAN] /\ page'.at = page.at BY <1>1
<1>6. RoomToOpen' BY <1>1, <1>2, <1>3, <1>4 DEF RoomToOpen
<1>7. CASE path = "login"
  <2>1. page.at = "sign-in" /\ ~page.busy /\ page'.busy /\ SigningIn(x) BY <1>1, <1>2, <1>7 DEF SigningIn
  <2>2. \A j \in Slots : calls[j] = Sessions!NoCall BY <1>1, <2>1 DEF OneSignIn
  <2>3. \A j \in Slots : j # k => calls'[j] = Sessions!NoCall BY <1>4, <2>2
  <2>4. ~SigningIn(Sessions!NoCall) BY DEF SigningIn, Sessions!NoCall
  <2>5. OneSignIn' BY <1>4, <1>5, <2>1, <2>3, <2>4 DEF OneSignIn
  <2> QED BY <1>4, <1>5, <1>6, <2>5
<1>8. CASE path # "login"
  <2>1. page'.at = "portal" /\ page.at # "sign-in" /\ ~SigningIn(x) BY <1>2, <1>5, <1>8 DEF SigningIn
  <2>2. OneSignIn' BY <1>1, <1>4, <2>1 DEF OneSignIn
  <2> QED BY <1>4, <1>5, <1>6, <2>2
<1> QED BY <1>7, <1>8

-----------------------------------------------------------------------------
LEMMA CallsStep ==
  ASSUME SessionsInv, ServerTyped', jar' \in [session : 0 .. opened', fresh : BOOLEAN],
         renewals' \in [Sessions!Ids -> RenewalStates],
         page' \in [at : {"sign-in", "portal"}, busy : BOOLEAN],
         calls' \in [Slots -> SessionCalls(opened')], OneSignIn', RoomToOpen'
  PROVE  SessionsInv'
BY DEF SessionsInv, BrowserTyped

\* What the page asks for.
LEMMA AskingStep ==
  ASSUME SessionsInv, NEW k \in Slots,
         \/ \E typed \in {account.password, account.password - 1} : Sessions!submit(k, typed)
         \/ Sessions!load(k) \/ Sessions!signOut(k)
  PROVE  SessionsInv'
<1>1. account.password \in Int /\ page.busy \in BOOLEAN BY DEF SessionsInv, ServerTyped, BrowserTyped
<1>2. PICK path \in {"login", "data", "logout"}, typed \in Int :
        /\ Sessions!Begin(k, path, typed)
        /\ path = "login" => page.at = "sign-in" /\ ~page.busy /\ page' = [page EXCEPT !.busy = TRUE]
                             /\ opened < MaxSessions
        /\ path # "login" => page.at = "portal" /\ (UNCHANGED page \/ page' = [page EXCEPT !.busy = TRUE])
  BY <1>1 DEF Sessions!submit, Sessions!load, Sessions!signOut
<1>3. Sessions!Event \/ UNCHANGED events BY DEF Sessions!submit, Sessions!load, Sessions!signOut
<1>4. UNCHANGED <<Sessions!Server, jar, renewals>> BY <1>2 DEF Sessions!Begin
<1>5. ServerTyped' BY <1>3, <1>4, ServerStays DEF SessionsInv, Sessions!Server
<1> QED BY <1>2, <1>4, <1>5, CallBegins, CallsStep DEF SessionsInv, BrowserTyped, Sessions!Server

\* A call with an answer, and one that is sent again.
LEMMA AnsweredCall ==
  ASSUME NEW n \in Nat, NEW c \in CallRecords(n), NEW status \in CallStatuses
  PROVE  /\ Sessions!Answered(c, status) \in CallRecords(n)
         /\ Sessions!Answered(c, status).path = c.path /\ Sessions!Answered(c, status).step = "answered"
         /\ \A outcome : /\ Sessions!Resumed(c, outcome) \in CallRecords(n)
                         /\ Sessions!Resumed(c, outcome).path = c.path
                         /\ Sessions!Resumed(c, outcome).step \in {"answered", "resent"}
<1>1. {"answered", "resent"} \subseteq CallSteps /\ c.session \in Numbers(n) BY DEF CallSteps, CallRecords
<1>2. ASSUME NEW s \in CallStatuses
      PROVE  /\ Sessions!Answered(c, s) \in CallRecords(n)
             /\ Sessions!Answered(c, s).path = c.path /\ Sessions!Answered(c, s).step = "answered"
  <2>1. Sessions!Answered(c, s) \in CallRecords(n) BY <1>1, <1>2 DEF Sessions!Answered, CallRecords
  <2>2. Sessions!Answered(c, s).path = c.path /\ Sessions!Answered(c, s).step = "answered"
    BY DEF Sessions!Answered, CallRecords
  <2> QED BY <2>1, <2>2
<1>3. ASSUME NEW outcome
      PROVE  /\ Sessions!Resumed(c, outcome) \in CallRecords(n)
             /\ Sessions!Resumed(c, outcome).path = c.path
             /\ Sessions!Resumed(c, outcome).step \in {"answered", "resent"}
  <2>1. CASE outcome = "renewed"
    <3>1. Sessions!Resumed(c, outcome) = [c EXCEPT !.step = "resent", !.fresh = TRUE, !.gained = c.session]
      BY <2>1 DEF Sessions!Resumed
    <3>2. Sessions!Resumed(c, outcome) \in CallRecords(n) BY <1>1, <3>1 DEF CallRecords
    <3>3. Sessions!Resumed(c, outcome).path = c.path /\ Sessions!Resumed(c, outcome).step = "resent"
      BY <3>1 DEF CallRecords
    <3> QED BY <3>2, <3>3
  <2>2. CASE outcome # "renewed"
    <3>1. 401 \in CallStatuses BY DEF CallStatuses
    <3> QED BY <1>2, <2>2, <3>1 DEF Sessions!Resumed
  <2> QED BY <2>1, <2>2
<1> QED BY <1>2, <1>3

LEMMA ServeStep ==
  ASSUME SessionsInv, NEW k \in Slots, Sessions!Serve(k)
  PROVE  SessionsInv'
<1> DEFINE c == calls[k]
           renews == c.step = "sent" /\ Sessions!Status(c) = 401 /\ c.session # 0
           shared == IF renews THEN renewals[c.session] ELSE "none"
           x == IF ~renews THEN Sessions!Answered(c, Sessions!Status(c))
                ELSE IF shared \in {"none", "asked"} THEN [c EXCEPT !.step = "renewing"]
                ELSE Sessions!Resumed(c, shared)
<1>1. c # Sessions!NoCall /\ c.path # "login" BY DEF Sessions!Serve, Sessions!NoCall
<1>2. c \in CallRecords(opened) /\ opened \in Nat
  BY <1>1, CallFields, SessionNumbers DEF SessionsInv
<1>3. calls' = [calls EXCEPT ![k] = x] BY DEF Sessions!Serve
<1>4. x \in CallRecords(opened) /\ x.path = c.path /\ x.step \in {"answered", "resent", "renewing"}
  <2>1. Sessions!Status(c) \in CallStatuses BY DEF Sessions!Status, CallStatuses
  <2>2. /\ [c EXCEPT !.step = "renewing"] \in CallRecords(opened)
        /\ [c EXCEPT !.step = "renewing"].path = c.path /\ [c EXCEPT !.step = "renewing"].step = "renewing"
    BY <1>2 DEF CallRecords, CallSteps
  <2> HIDE DEF c, renews, shared
  <2> QED BY <1>2, <2>1, <2>2, AnsweredCall
<1>5. renewals' \in [Sessions!Ids -> RenewalStates]
  <2>1. renewals \in [Sessions!Ids -> RenewalStates] BY DEF SessionsInv, BrowserTyped
  <2>2. renewals' = renewals \/ renewals' = [renewals EXCEPT ![c.session] = "asked"]
    BY DEF Sessions!Serve
  <2> QED BY <2>1, <2>2 DEF RenewalStates
<1>6. UNCHANGED <<account, cashier, opened, jar, page, events>> /\ sessions' \subseteq sessions
  BY DEF Sessions!Serve
<1> HIDE DEF x
<1>7. calls' \in [Slots -> SessionCalls(opened')] /\ OneSignIn' /\ RoomToOpen'
  <2>1. (SigningIn(x) <=> SigningIn(c)) /\ x.path # "login" /\ x.step # "inserting"
    BY <1>1, <1>4 DEF SigningIn
  <2>2. opened' \in Nat /\ opened <= opened' /\ x \in CallRecords(opened') /\ UNCHANGED page /\ opened' = opened
    BY <1>2, <1>4, <1>6
  <2> QED BY <1>1, <1>3, <2>1, <2>2, CallGoesOn
<1>8. ServerTyped' BY <1>6, ServerStays DEF SessionsInv
<1> QED BY <1>5, <1>6, <1>7, <1>8, CallsStep DEF SessionsInv, BrowserTyped

LEMMA LoginStep ==
  ASSUME SessionsInv, NEW k \in Slots, Sessions!loginReads(k) \/ Sessions!loginInserts(k)
  PROVE  SessionsInv'
<1> DEFINE c == calls[k]
<1>0. /\ RoomToOpen /\ opened \in Nat /\ MaxSessions \in Nat /\ sessions \subseteq 1 .. opened
      /\ jar \in [session : 0 .. opened, fresh : BOOLEAN]
  BY SessionNumbers DEF SessionsInv, ServerTyped, BrowserTyped
<1>1. c # Sessions!NoCall /\ c.path = "login" /\ opened < MaxSessions
  BY <1>0 DEF Sessions!loginReads, Sessions!loginInserts, Sessions!NoCall, RoomToOpen
<1>2. c \in CallRecords(opened) BY <1>1, CallFields DEF SessionsInv
<1>3. CASE Sessions!loginReads(k)
  <2>1. PICK x \in CallRecords(opened) : calls' = [calls EXCEPT ![k] = x] /\ x.path = "login"
    <3>1. /\ [c EXCEPT !.step = "inserting"] \in CallRecords(opened)
          /\ [c EXCEPT !.step = "inserting"].path = c.path
      BY <1>2 DEF CallRecords, CallSteps
    <3> HIDE DEF c
    <3>3. Sessions!Answered(c, 401) \in CallRecords(opened) /\ Sessions!Answered(c, 401).path = c.path
          /\ Sessions!Answered(c, 403) \in CallRecords(opened) /\ Sessions!Answered(c, 403).path = c.path
      BY <1>0, <1>2, AnsweredCall DEF CallStatuses
    <3>2. \/ calls' = [calls EXCEPT ![k] = Sessions!Answered(c, 401)]
          \/ calls' = [calls EXCEPT ![k] = [c EXCEPT !.step = "inserting"]]
          \/ calls' = [calls EXCEPT ![k] = Sessions!Answered(c, 403)]
      BY <1>3 DEF Sessions!loginReads, c
    <3>4. c.path = "login" BY <1>1 DEF c
    <3>5. CASE calls' = [calls EXCEPT ![k] = Sessions!Answered(c, 401)]
      <4> DEFINE y == Sessions!Answered(c, 401)
      <4>1. calls' = [calls EXCEPT ![k] = y] /\ y \in CallRecords(opened) /\ y.path = "login"
        BY <3>3, <3>4, <3>5
      <4> HIDE DEF y
      <4> QED BY <4>1
    <3>6. CASE calls' = [calls EXCEPT ![k] = Sessions!Answered(c, 403)]
      <4> DEFINE y == Sessions!Answered(c, 403)
      <4>1. calls' = [calls EXCEPT ![k] = y] /\ y \in CallRecords(opened) /\ y.path = "login"
        BY <3>3, <3>4, <3>6
      <4> HIDE DEF y
      <4> QED BY <4>1
    <3>7. CASE calls' = [calls EXCEPT ![k] = [c EXCEPT !.step = "inserting"]]
      <4> DEFINE y == [c EXCEPT !.step = "inserting"]
      <4>1. calls' = [calls EXCEPT ![k] = y] /\ y \in CallRecords(opened) /\ y.path = "login"
        BY <3>1, <3>4, <3>7
      <4> HIDE DEF y
      <4> QED BY <4>1
    <3> QED BY <3>2, <3>5, <3>6, <3>7
  <2>2. UNCHANGED <<Sessions!Server, jar, page, renewals, events>> BY <1>3 DEF Sessions!loginReads
  <2>3. calls' \in [Slots -> SessionCalls(opened')] /\ OneSignIn' /\ RoomToOpen'
    <3>1. SigningIn(x) <=> SigningIn(c) BY <1>1, <2>1 DEF SigningIn
    <3>2. /\ opened' \in Nat /\ opened <= opened' /\ opened' < MaxSessions /\ opened' = opened
          /\ UNCHANGED page /\ x \in CallRecords(opened')
      BY <1>0, <1>1, <2>1, <2>2 DEF Sessions!Server
    <3> QED BY <1>1, <2>1, <3>1, <3>2, CallGoesOn
  <2>4. ServerTyped' BY <2>2, ServerStays DEF SessionsInv, Sessions!Server
  <2> QED BY <2>2, <2>3, <2>4, CallsStep DEF SessionsInv, BrowserTyped, Sessions!Server
<1>4. CASE Sessions!loginInserts(k)
  <2> DEFINE n == opened + 1
             a == Sessions!Answered(c, 200)
             x == [a EXCEPT !.gained = n]
  <2>1. /\ n \in Nat /\ opened <= n /\ n <= MaxSessions /\ 0 .. opened \subseteq 0 .. n
        /\ Numbers(opened) \subseteq Numbers(n) /\ n \in Numbers(n)
    BY <1>0, <1>1, MoreNumbers
  <2>2. /\ calls' = [calls EXCEPT ![k] = x] /\ opened' = n /\ sessions' = sessions \cup {n}
        /\ UNCHANGED <<account, cashier, jar, page, renewals, events>>
    BY <1>4 DEF Sessions!loginInserts
  <2>3. a \in CallRecords(opened) /\ a.path = "login" /\ a.step = "answered"
    BY <1>0, <1>1, <1>2, AnsweredCall DEF CallStatuses
  <2>7. n \in 1 .. n /\ 1 .. opened \subseteq 1 .. n /\ n \in 0 .. MaxSessions BY <1>0, <2>1
  <2> HIDE DEF n, a
  <2>4. x \in CallRecords(n) /\ x.path = "login" /\ x.step = "answered"
    BY <2>1, <2>3 DEF CallRecords
  <2> HIDE DEF x
  <2>5. calls' \in [Slots -> SessionCalls(opened')] /\ OneSignIn' /\ RoomToOpen'
    BY <1>1, <2>1, <2>2, <2>4, CallGoesOn DEF SigningIn
  <2>6. ServerTyped' BY <1>0, <2>2, <2>7 DEF SessionsInv, ServerTyped
  <2>8. jar' \in [session : 0 .. opened', fresh : BOOLEAN] BY <1>0, <2>1, <2>2
  <2> QED BY <2>2, <2>5, <2>6, <2>8, CallsStep DEF SessionsInv, BrowserTyped
<1> QED BY <1>3, <1>4

LEMMA SettlesStep ==
  ASSUME SessionsInv, NEW s \in Sessions!Ids, NEW outcome \in {"renewed", "failed"},
         Sessions!Settles(s, outcome), Sessions!Event \/ UNCHANGED events
  PROVE  SessionsInv'
<1>1. /\ calls \in [Slots -> SessionCalls(opened)] /\ OneSignIn /\ RoomToOpen /\ opened \in Nat
      /\ renewals \in [Sessions!Ids -> RenewalStates]
  BY SessionNumbers DEF SessionsInv, BrowserTyped
<1>2. /\ UNCHANGED <<account, cashier, sessions, opened, jar, page>>
      /\ renewals' = [renewals EXCEPT ![s] = outcome]
      /\ calls' = [k \in Slots |-> IF calls[k].step = "renewing" /\ calls[k].session = s
                                   THEN Sessions!Resumed(calls[k], outcome) ELSE calls[k]]
  BY DEF Sessions!Settles, Sessions!Server
<1>3. ASSUME NEW k \in Slots
      PROVE  \/ calls'[k] = calls[k]
             \/ /\ calls[k] # Sessions!NoCall
                /\ calls'[k] \in CallRecords(opened) /\ calls'[k] # Sessions!NoCall
                /\ calls'[k].path = calls[k].path /\ calls'[k].step \in {"answered", "resent"}
  <2>1. CASE calls[k].step = "renewing" /\ calls[k].session = s
    <3>1. calls[k] # Sessions!NoCall BY <2>1 DEF Sessions!NoCall
    <3>2. calls[k] \in CallRecords(opened) BY <3>1, CallFields DEF SessionsInv
    <3>3. calls'[k] = Sessions!Resumed(calls[k], outcome) BY <1>2, <2>1
    <3>4. 0 \in CallStatuses BY DEF CallStatuses
    <3>5. /\ calls'[k] \in CallRecords(opened) /\ calls'[k].path = calls[k].path
          /\ calls'[k].step \in {"answered", "resent"}
      BY <1>1, <3>2, <3>3, <3>4, AnsweredCall
    <3>6. calls'[k] # Sessions!NoCall BY <3>5 DEF Sessions!NoCall
    <3> QED BY <3>1, <3>5, <3>6
  <2>2. CASE ~(calls[k].step = "renewing" /\ calls[k].session = s) BY <1>2, <2>2
  <2> QED BY <2>1, <2>2
<1>4. calls' \in [Slots -> SessionCalls(opened')]
  <2>1. DOMAIN calls' = Slots /\ calls' = [k \in Slots |-> calls'[k]] BY <1>2
  <2>2. \A k \in Slots : calls'[k] \in SessionCalls(opened) BY <1>1, <1>3 DEF SessionCalls
  <2> QED BY <1>2, <2>1, <2>2
<1>5. RoomToOpen' BY <1>1, <1>2, <1>3 DEF RoomToOpen
<1>6. OneSignIn' BY <1>1, <1>2, <1>3 DEF OneSignIn, SigningIn
<1>7. renewals' \in [Sessions!Ids -> RenewalStates] BY <1>1, <1>2 DEF RenewalStates
<1>8. ServerTyped' BY <1>2, ServerStays DEF SessionsInv
<1> QED BY <1>2, <1>4, <1>5, <1>6, <1>7, <1>8, CallsStep DEF SessionsInv, BrowserTyped

\* What the page does with an answer.
LEMMA ContinueStep ==
  ASSUME SessionsInv, NEW k \in Slots, NEW status, calls[k] # Sessions!NoCall,
         NEW cookies \in [session : 0 .. opened, fresh : BOOLEAN], Sessions!Continue(k, status, cookies),
         UNCHANGED <<Sessions!Server, renewals>>, jar' = cookies, Sessions!Event \/ UNCHANGED events
  PROVE  SessionsInv'
<1> USE DEF Sessions!Server
<1>1. opened \in Nat /\ UNCHANGED opened BY SessionNumbers DEF SessionsInv
<1>2. /\ calls' \in [Slots -> SessionCalls(opened')] /\ page' \in [at : {"sign-in", "portal"}, busy : BOOLEAN]
      /\ OneSignIn' /\ RoomToOpen'
  <2>1. CASE \E at \in {"sign-in", "portal"} : Sessions!GoTo(at) BY <1>1, <2>1, CallsDropped
  <2>2. CASE /\ Sessions!Goes(k)
             /\ \/ UNCHANGED page
                \/ calls[k].path # "data" /\ page' = [page EXCEPT !.busy = FALSE]
    BY <1>1, <2>2, CallEnds DEF Sessions!Goes
  <2>3. CASE /\ calls[k].path = "login" /\ UNCHANGED page
             /\ calls' = [calls EXCEPT ![k] = Sessions!Sent("check", cookies, 0)]
    <3> DEFINE x == Sessions!Sent("check", cookies, 0)
    <3>1. "check" \in Sessions!Paths BY DEF Sessions!Paths
    <3>2. x \in CallRecords(opened) /\ x.path = "check" /\ x.step = "sent" BY <1>1, <3>1, SentCall
    <3> HIDE DEF x
    <3>3. SigningIn(x) /\ SigningIn(calls[k]) BY <2>3, <3>2 DEF SigningIn
    <3>4. calls' = [calls EXCEPT ![k] = x] BY <2>3 DEF x
    <3>5. /\ opened' \in Nat /\ opened <= opened' /\ x \in CallRecords(opened') /\ opened' = opened
          /\ x.step # "inserting" /\ x.path # "login"
      BY <1>1, <3>2
    <3>6. calls' \in [Slots -> SessionCalls(opened')] /\ OneSignIn' /\ RoomToOpen'
      BY <2>3, <3>3, <3>4, <3>5, CallGoesOn
    <3> QED BY <2>3, <3>6 DEF SessionsInv, BrowserTyped
  <2> QED BY <2>1, <2>2, <2>3 DEF Sessions!Continue
<1>3. ServerTyped' BY ServerStays DEF SessionsInv
<1> QED BY <1>1, <1>2, <1>3, CallsStep DEF SessionsInv, BrowserTyped

LEMMA SessionsNext ==
  ASSUME SessionsInv, Sessions!Next
  PROVE  SessionsInv'
<1>0. /\ ServerTyped /\ jar \in [session : 0 .. opened, fresh : BOOLEAN] /\ opened \in Nat
      /\ calls \in [Slots -> SessionCalls(opened)] /\ renewals \in [Sessions!Ids -> RenewalStates]
  BY SessionNumbers DEF SessionsInv, BrowserTyped
<1>1. ASSUME ServerTyped', jar' \in [session : 0 .. opened, fresh : BOOLEAN],
             renewals' \in [Sessions!Ids -> RenewalStates], UNCHANGED <<opened, page, calls>>
      PROVE  SessionsInv'
  BY <1>1 DEF SessionsInv, BrowserTyped, OneSignIn, RoomToOpen
<1>2. CASE Sessions!changesPassword
  <2>1. events' = events + 1 /\ events' \in 0 .. SessionEvents
    BY <1>0, <1>2, SessionNumbers DEF Sessions!changesPassword, Sessions!Event
  <2>2. account' \in [password : 1 .. events' + 1, active : BOOLEAN]
    <3> DEFINE some == 1 .. events' + 1
    <3>1. account.password + 1 \in some /\ account.active \in BOOLEAN
      BY <1>0, <2>1, SessionNumbers DEF ServerTyped
    <3>2. account' = [account EXCEPT !.password = account.password + 1] /\ account.password \in Int
      BY <1>0, <1>2 DEF Sessions!changesPassword, ServerTyped
    <3>3. account \in [password : Int, active : BOOLEAN] BY <1>0 DEF ServerTyped
    <3> HIDE DEF some
    <3>4. account' \in [password : some, active : BOOLEAN] BY <3>1, <3>2, <3>3
    <3> QED BY <3>4 DEF some
  <2>3. ServerTyped' BY <1>0, <1>2, <2>1, <2>2 DEF Sessions!changesPassword, ServerTyped
  <2> QED BY <1>0, <1>1, <1>2, <2>3 DEF Sessions!changesPassword
<1>3. CASE Sessions!setsActive
  <2>1. events' = events + 1 /\ events' \in 0 .. SessionEvents
    BY <1>0, <1>3, SessionNumbers DEF Sessions!setsActive, Sessions!Event
  <2>2. account' \in [password : 1 .. events' + 1, active : BOOLEAN]
    <3> DEFINE some == 1 .. events' + 1
    <3>1. account.password \in some /\ account.active \in BOOLEAN
      BY <1>0, <2>1, SessionNumbers DEF ServerTyped
    <3>2. account' = [account EXCEPT !.active = ~account.active] BY <1>3 DEF Sessions!setsActive
    <3>3. account \in [password : Int, active : BOOLEAN] BY <1>0 DEF ServerTyped
    <3> HIDE DEF some
    <3>4. account' \in [password : some, active : BOOLEAN] BY <3>1, <3>2, <3>3
    <3> QED BY <3>4 DEF some
  <2>3. ServerTyped' BY <1>0, <1>3, <2>1, <2>2 DEF Sessions!setsActive, ServerTyped
  <2> QED BY <1>0, <1>1, <1>3, <2>3 DEF Sessions!setsActive
<1>4. CASE Sessions!Expires
  <2>1. ServerTyped' BY <1>0, <1>4, ServerStays DEF Sessions!Expires, Sessions!Server
  <2> QED BY <1>0, <1>1, <1>4, <2>1 DEF Sessions!Expires, Sessions!Server
<1>5. ASSUME NEW s \in Sessions!Ids, Sessions!refreshForgotten(s) PROVE SessionsInv'
  <2>1. ServerTyped' BY <1>0, <1>5, ServerStays DEF Sessions!refreshForgotten, Sessions!Server
  <2> QED BY <1>0, <1>1, <1>5, <2>1 DEF Sessions!refreshForgotten, Sessions!Server, RenewalStates
<1>6. ASSUME NEW at \in {"sign-in", "portal"}, Sessions!Visit(at) PROVE SessionsInv'
  <2>1. ServerTyped' /\ UNCHANGED <<opened, jar, renewals>>
    BY <1>0, <1>6, ServerStays DEF Sessions!Visit, Sessions!Server
  <2>2. \E a \in {"sign-in", "portal"} : Sessions!GoTo(a) BY <1>6 DEF Sessions!Visit
  <2> QED BY <1>0, <2>1, <2>2, CallsDropped, CallsStep
<1>7. ASSUME NEW k \in Slots, Sessions!Answer(k) PROVE SessionsInv'
  <2>1. calls[k] # Sessions!NoCall BY <1>7 DEF Sessions!Answer, Sessions!NoCall
  <2>2. calls[k] \in CallRecords(opened) BY <2>1, CallFields DEF SessionsInv
  <2>3. Sessions!Cookies(calls[k]) \in [session : 0 .. opened, fresh : BOOLEAN]
    BY <1>0, <2>2 DEF Sessions!Cookies, Sessions!NoCookies, CallRecords, Numbers
  <2> QED BY <1>7, <2>1, <2>3, ContinueStep DEF Sessions!Answer
<1>8. ASSUME NEW k \in Slots, Sessions!Unavailable(k) PROVE SessionsInv'
  BY <1>0, <1>8, ContinueStep DEF Sessions!Unavailable
<1>9. ASSUME NEW s \in Sessions!Ids, Sessions!refresh(s) \/ Sessions!refreshLost(s) PROVE SessionsInv'
  BY <1>9, SettlesStep DEF Sessions!refresh, Sessions!refreshLost
<1> QED
  BY <1>2, <1>3, <1>4, <1>5, <1>6, <1>7, <1>8, <1>9, AskingStep, ServeStep, LoginStep
  DEF Sessions!Next, Sessions!Polls, Sessions!Answers, Sessions!Renews

LEMMA SessionsInit ==
  ASSUME Sessions!Init
  PROVE  SessionsInv
<1>1. ServerTyped BY BoundsAssumption DEF Sessions!Init, ServerTyped
<1>2. BrowserTyped
  BY DEF Sessions!Init, BrowserTyped, SessionCalls, Sessions!NoCookies, RenewalStates
<1>3. OneSignIn /\ RoomToOpen BY DEF Sessions!Init, OneSignIn, RoomToOpen, SigningIn, Sessions!NoCall
<1> QED BY <1>1, <1>2, <1>3 DEF SessionsInv

LEMMA SessionTypes ==
  ASSUME SessionsInv
  PROVE  Sessions!TypeOK
<1>1. /\ ServerTyped /\ BrowserTyped /\ events \in Nat /\ SessionEvents \in Nat /\ events <= SessionEvents
  BY SessionNumbers DEF SessionsInv, ServerTyped
<1>2. account \in [password : 1 .. SessionEvents + 1, active : BOOLEAN] BY <1>1 DEF ServerTyped
<1>3. ASSUME NEW k \in Slots, calls[k] # Sessions!NoCall
      PROVE  /\ calls[k].path \in Sessions!Paths /\ calls[k].step \in CallSteps
             /\ calls[k].session \in 0 .. opened /\ calls[k].gained \in 0 .. opened
  BY <1>1, <1>3, CallFields DEF CallRecords, Numbers
<1> QED BY <1>1, <1>2, <1>3 DEF ServerTyped, BrowserTyped, CallSteps, RenewalStates, Sessions!TypeOK

-----------------------------------------------------------------------------
\* The assistant.  A conversation may still be made for every question that was
\* asked without one, and what is shown or fetched is of runs that are there.
Homeless == {j \in Slots : asks[j].step = "ensure" /\ asks[j].chat = 0}
RoomToTalk == Len(chats) + Cardinality(Homeless) <= MaxChats
DrawerNamed == \A i \in DOMAIN drawer.messages : drawer.messages[i].of \in 0 .. Len(inquiries)
ErrandsNamed == \A e \in errands : \A i \in DOMAIN e.messages : e.messages[i].of \in 0 .. Len(inquiries)
AnswerBounds == RoomToTalk /\ DrawerNamed /\ ErrandsNamed /\ events \in 0 .. AssistantEvents

LEMMA SlotsCounted ==
  ASSUME NEW S, S \subseteq Slots
  PROVE  /\ IsFiniteSet(S) /\ Cardinality(S) \in Nat
         /\ Assistant!Cardinality(S) = Cardinality(S)
         /\ \A T \in SUBSET S : Cardinality(T) <= Cardinality(S)
         /\ \A k \in Slots : Cardinality(S \ {k}) = IF k \in S THEN Cardinality(S) - 1 ELSE Cardinality(S)
         /\ \A k \in Slots : Cardinality(S \cup {k}) = IF k \in S THEN Cardinality(S) ELSE Cardinality(S) + 1
<1>1. IsFiniteSet(Slots)
  <2>1. PICK n \in Nat : Slots = 1 .. n BY PortalAssumption, BoundsAssumption
  <2> QED BY <2>1, FS_Interval
<1>2. IsFiniteSet(S) BY <1>1, FS_Subset
<1>3. Assistant!Cardinality(S) = Cardinality(S) BY DEF Assistant!Cardinality, Cardinality
<1>4. \A T \in SUBSET S : Cardinality(T) <= Cardinality(S) BY <1>2, FS_Subset
<1>5. \A k \in Slots : Cardinality(S \ {k}) = IF k \in S THEN Cardinality(S) - 1 ELSE Cardinality(S)
  BY <1>2, FS_RemoveElement
<1>6. \A k \in Slots : Cardinality(S \cup {k}) = IF k \in S THEN Cardinality(S) ELSE Cardinality(S) + 1
  BY <1>2, FS_AddElement
<1> QED BY <1>2, <1>3, <1>4, <1>5, <1>6, FS_CardinalityType

\* The conversations stay as many, or a question has got one.
LEMMA RoomLeft ==
  ASSUME RoomToTalk, Len(chats) \in Nat, NEW k \in Slots,
         \/ Len(chats') = Len(chats) /\ Homeless' \subseteq Homeless
         \/ Len(chats') = Len(chats) + 1 /\ k \in Homeless /\ Homeless' \subseteq Homeless \ {k}
  PROVE  RoomToTalk'
<1>1. Homeless \subseteq Slots /\ Homeless' \subseteq Slots BY DEF Homeless
<1>2. PICK a \in SUBSET Slots : a = Homeless BY <1>1
<1>3. PICK b \in SUBSET Slots : b = Homeless' BY <1>1
<1>4. /\ Cardinality(a) \in Nat /\ Cardinality(b) \in Nat /\ Cardinality(a \ {k}) \in Nat
      /\ b \subseteq a => Cardinality(b) <= Cardinality(a)
      /\ b \subseteq a \ {k} => Cardinality(b) <= Cardinality(a \ {k})
      /\ k \in a => Cardinality(a \ {k}) = Cardinality(a) - 1
  <2>1. a \ {k} \subseteq Slots OBVIOUS
  <2> QED BY <2>1, SlotsCounted
<1>5. Len(chats) + Cardinality(a) <= MaxChats BY <1>2 DEF RoomToTalk
<1>6. MaxChats \in Nat BY BoundsAssumption
<1>7. Len(chats') + Cardinality(b) <= MaxChats BY <1>2, <1>3, <1>4, <1>5, <1>6
<1> QED BY <1>3, <1>7 DEF RoomToTalk

\* What a call stores.
LEMMA StoredCounts ==
  ASSUME AnswersInv, AnswersInv', NEW k \in Slots,
         Assistant!Stores(asks[k]) \/ UNCHANGED <<chats, inquiries>>
  PROVE  /\ Len(chats) \in Nat /\ Len(inquiries) \in Nat /\ Len(inquiries') \in Nat
         /\ Len(inquiries) <= Len(inquiries')
         /\ asks[k].chat \in 0 .. Len(chats) /\ asks[k].of \in 0 .. Len(inquiries)
         /\ Len(chats') = Len(chats) \/ (Len(chats') = Len(chats) + 1 /\ k \in Homeless)
<1>1. /\ chats \in Seq(Conversations) /\ chats' \in Seq(Conversations)
      /\ Len(chats) \in Nat /\ Len(chats') \in Nat /\ Len(inquiries) \in Nat /\ Len(inquiries') \in Nat
  BY Lengths DEF AnswersInv, Shelf, ChatsTyped
<1>2. asks[k] \in Asks /\ Works(asks[k]) BY DEF AnswersInv, Desk
<1>3. PICK x \in Asks : x = asks[k] BY <1>2
<1>4. Len(inquiries) <= Len(inquiries') BY <1>2, <1>3, StoresStep DEF AnswersInv, Others
<1>5. \/ UNCHANGED chats
      \/ k \in Homeless /\ chats' = Append(chats, [deleted |-> FALSE, messages |-> <<>>])
      \/ \E role \in {"user", "assistant"} : chats' = Assistant!Says(x.chat, role, x.of)
  BY <1>3 DEF Assistant!Stores, Homeless
<1>6. ASSUME NEW role, chats' = Assistant!Says(x.chat, role, x.of) PROVE Len(chats') = Len(chats)
  BY <1>1, <1>6 DEF Assistant!Says
<1>7. ASSUME NEW c, chats' = Append(chats, c), c = [deleted |-> FALSE, messages |-> <<>>]
      PROVE  Len(chats') = Len(chats) + 1
  BY <1>1, <1>7
<1>8. Len(chats') = Len(chats) \/ (Len(chats') = Len(chats) + 1 /\ k \in Homeless)
  BY <1>5, <1>6, <1>7
<1> QED BY <1>1, <1>2, <1>4, <1>8 DEF Works

\* The drawer shows no more, one more message or none.
LEMMA NamesStay ==
  ASSUME AnswersInv, DrawerNamed, ErrandsNamed, Len(inquiries) \in Nat, Len(inquiries') \in Nat,
         Len(inquiries) <= Len(inquiries')
  PROVE  /\ UNCHANGED drawer \/ drawer'.messages = <<>> => DrawerNamed'
         /\ \A m \in Shown : m.of \in 0 .. Len(inquiries) /\ drawer'.messages = Append(drawer.messages, m) => DrawerNamed'
         /\ errands' \subseteq errands => ErrandsNamed'
<1>1. drawer.messages \in Seq(Shown) BY DEF AnswersInv, Told, Drawers
<1>2. UNCHANGED drawer \/ drawer'.messages = <<>> => DrawerNamed' BY DEF DrawerNamed
<1>3. ASSUME NEW m \in Shown, m.of \in 0 .. Len(inquiries), drawer'.messages = Append(drawer.messages, m)
      PROVE  DrawerNamed'
  <2>1. PICK s \in Seq(Shown) : s = drawer.messages BY <1>1
  <2>2. ASSUME NEW i \in DOMAIN Append(s, m) PROVE Append(s, m)[i].of \in 0 .. Len(inquiries')
    <3>1. Append(s, m)[i] = m \/ (i \in DOMAIN s /\ Append(s, m)[i] = s[i]) BY <2>2
    <3> QED BY <1>3, <2>1, <3>1 DEF DrawerNamed
  <2> QED BY <1>3, <2>1, <2>2 DEF DrawerNamed
<1>4. errands' \subseteq errands => ErrandsNamed' BY DEF ErrandsNamed
<1> QED BY <1>2, <1>3, <1>4

LEMMA HeardNames ==
  ASSUME AnswersInv, DrawerNamed, ErrandsNamed, Len(inquiries) \in Nat, Len(inquiries') \in Nat,
         Len(inquiries) <= Len(inquiries'), NEW x \in Asks, x.of \in 0 .. Len(inquiries),
         NEW ok \in BOOLEAN, Assistant!Heard(x, ok)
  PROVE  DrawerNamed'
<1>1. PICK d \in Drawers : d = drawer BY DEF AnswersInv, Told
<1>2. CASE ~x.heard BY <1>2, NamesStay DEF Assistant!Heard
<1>3. CASE x.heard
  <2>1. PICK m \in Shown : m = [kind |-> IF ok THEN "answer" ELSE "error", of |-> x.of] BY DEF Shown, Asks
  <2>2. drawer' = [d EXCEPT !.thinking = FALSE, !.chat = IF ok THEN x.chat ELSE @,
                            !.messages = Append(@, m)]
    BY <1>1, <1>3, <2>1 DEF Assistant!Heard
  <2>3. drawer'.messages = Append(drawer.messages, m) /\ m.of = x.of BY <1>1, <2>1, <2>2 DEF Drawers
  <2> QED BY <2>3, NamesStay
<1> QED BY <1>2, <1>3

\* A question moves on or ends.
LEMMA QuestionBounds ==
  ASSUME AnswersInv, AnswersInv', AnswerBounds, NEW k \in Slots,
         Assistant!Stores(asks[k]) \/ UNCHANGED <<chats, inquiries>>,
         NEW y, Assistant!Goes(k, y), y.step # "ensure" \/ y.chat # 0 \/ (y.chat = asks[k].chat /\ y.step = asks[k].step /\ UNCHANGED chats),
         UNCHANGED drawer \/ \E ok \in BOOLEAN : Assistant!Heard(asks[k], ok),
         errands' \subseteq errands, Assistant!Event \/ UNCHANGED events
  PROVE  AnswerBounds'
<1>1. /\ Len(chats) \in Nat /\ Len(inquiries) \in Nat /\ Len(inquiries') \in Nat
      /\ Len(inquiries) <= Len(inquiries') /\ asks[k].of \in 0 .. Len(inquiries)
      /\ Len(chats') = Len(chats) \/ (Len(chats') = Len(chats) + 1 /\ k \in Homeless)
  BY StoredCounts
<1>2. /\ RoomToTalk /\ DrawerNamed /\ ErrandsNamed /\ asks[k] \in Asks /\ asks \in [Slots -> Asks]
      /\ AssistantEvents \in Nat /\ events \in 0 .. AssistantEvents
  BY BoundsAssumption DEF AnswersInv, Desk, AnswerBounds
<1>3. asks'[k] = y /\ \A j \in Slots \ {k} : asks'[j] = asks[j] BY <1>2 DEF Assistant!Goes
<1>4. RoomToTalk'
  <2>1. CASE y.chat = asks[k].chat /\ y.step = asks[k].step /\ UNCHANGED chats
    <3>1. Homeless' \subseteq Homeless BY <1>3, <2>1 DEF Homeless
    <3> QED BY <1>1, <1>2, <2>1, <3>1, RoomLeft
  <2>2. CASE y.step # "ensure" \/ y.chat # 0
    <3>1. Homeless' \subseteq Homeless \ {k} BY <1>3, <2>2 DEF Homeless
    <3> QED BY <1>1, <1>2, <3>1, RoomLeft
  <2> QED BY <2>1, <2>2
<1>5. DrawerNamed' /\ ErrandsNamed' BY <1>1, <1>2, HeardNames, NamesStay
<1>6. events' \in 0 .. AssistantEvents BY <1>2 DEF Assistant!Event
<1> QED BY <1>4, <1>5, <1>6 DEF AnswerBounds

LEMMA AsksBounded ==
  ASSUME AnswersInv, AnswersInv', AnswerBounds, NEW k \in Slots,
         Assistant!Answers(k) \/ Assistant!CallFails(k) \/ Assistant!GivesUp(k)
  PROVE  AnswerBounds'
<1>1. asks[k] \in Asks /\ Works(asks[k]) BY DEF AnswersInv, Desk
<1>2. PICK x \in Asks : x = asks[k] BY <1>1
<1>3. Assistant!NoAsk.step # "ensure" BY DEF Assistant!NoAsk
<1>4. ASSUME Assistant!Raises(k), Assistant!Stores(asks[k]) \/ UNCHANGED <<chats, inquiries>>,
             UNCHANGED errands, Assistant!Event \/ UNCHANGED events
      PROVE  AnswerBounds'
  <2>1. CASE Assistant!Over(k, FALSE)
    <3>1. Assistant!Goes(k, Assistant!NoAsk) /\ Assistant!Heard(asks[k], FALSE) BY <2>1 DEF Assistant!Over
    <3> QED BY <1>3, <1>4, <3>1, QuestionBounds
  <2>2. CASE ~Assistant!Over(k, FALSE)
    <3>1. PICK y : y = [x EXCEPT !.step = "fail"] OBVIOUS
    <3>2. Assistant!Goes(k, y) /\ UNCHANGED drawer BY <1>2, <1>4, <2>2, <3>1 DEF Assistant!Raises
    <3>3. y.step # "ensure" BY <3>1 DEF Asks
    <3> QED BY <1>4, <3>2, <3>3, QuestionBounds
  <2> QED BY <2>1, <2>2
<1>5. CASE Assistant!Advances(k)
  <2>1. /\ Assistant!Stores(asks[k]) /\ UNCHANGED <<errands, events>>
        /\ \/ \E ok \in BOOLEAN : Assistant!Over(k, ok)
           \/ /\ Assistant!Goes(k, [x EXCEPT !.step = Assistant!After(x),
                                             !.chat = IF @ = 0 THEN Len(chats') ELSE @,
                                             !.of = IF x.step = "start" THEN Len(inquiries') ELSE @])
              /\ UNCHANGED drawer
    BY <1>2, <1>5 DEF Assistant!Advances
  <2>2. CASE \E ok \in BOOLEAN : Assistant!Over(k, ok)
    <3>1. Assistant!Goes(k, Assistant!NoAsk) /\ \E ok \in BOOLEAN : Assistant!Heard(asks[k], ok)
      BY <2>2 DEF Assistant!Over
    <3> QED BY <1>3, <2>1, <3>1, QuestionBounds
  <2>3. ASSUME NEW y, y = [x EXCEPT !.step = Assistant!After(x),
                                    !.chat = IF @ = 0 THEN Len(chats') ELSE @,
                                    !.of = IF x.step = "start" THEN Len(inquiries') ELSE @],
               Assistant!Goes(k, y), UNCHANGED drawer
        PROVE  AnswerBounds'
    <3>1. y.step # "ensure" BY <2>3 DEF Asks, Assistant!After
    <3> QED BY <2>1, <2>3, <3>1, QuestionBounds
  <2> QED BY <2>1, <2>2, <2>3
<1>6. CASE Assistant!Refused(k) BY <1>4, <1>6 DEF Assistant!Refused
<1>7. CASE Assistant!CallFails(k) BY <1>4, <1>7 DEF Assistant!CallFails
<1>8. CASE Assistant!GivesUp(k)
  <2>1. PICK y : y = [x EXCEPT !.heard = FALSE] OBVIOUS
  <2>2. y.chat = asks[k].chat /\ y.step = asks[k].step BY <1>2, <2>1 DEF Asks
  <2>3. /\ Assistant!Goes(k, y) /\ Assistant!Heard(asks[k], FALSE) /\ UNCHANGED <<chats, inquiries, errands>>
        /\ Assistant!Event
    BY <1>2, <1>8, <2>1 DEF Assistant!GivesUp
  <2> QED BY <2>2, <2>3, QuestionBounds
<1> QED BY <1>5, <1>6, <1>7, <1>8 DEF Assistant!Answers

\* A question is asked, with or without a conversation.
LEMMA SendBounded ==
  ASSUME AnswersInv, AnswersInv', AnswerBounds, NEW k \in Slots, NEW small \in BOOLEAN,
         Assistant!handleSend(k, small)
  PROVE  AnswerBounds'
<1>1. /\ Len(chats) \in Nat /\ Len(inquiries) \in Nat /\ asks \in [Slots -> Asks]
      /\ RoomToTalk /\ DrawerNamed /\ ErrandsNamed /\ events \in 0 .. AssistantEvents
      /\ AssistantEvents \in Nat /\ MaxChats \in Nat
  BY Lengths, BoundsAssumption DEF AnswersInv, Shelf, Desk, AnswerBounds
<1>2. PICK d \in Drawers : d = drawer BY DEF AnswersInv, Told
<1>3. /\ UNCHANGED <<chats, inquiries, errands>> /\ Assistant!Event /\ asks[k] = Assistant!NoAsk
      /\ drawer' = [drawer EXCEPT !.thinking = TRUE, !.messages = Append(@, [kind |-> "question", of |-> 0])]
      /\ asks' = [asks EXCEPT ![k] = [Assistant!NoAsk EXCEPT !.step = "ensure", !.chat = drawer.chat,
                                                            !.small = small, !.heard = TRUE]]
      /\ drawer.chat = 0 => Len(chats) + Assistant!Cardinality({j \in Slots : asks[j].step = "ensure"}) < MaxChats
  BY DEF Assistant!handleSend, Assistant!Goes
<1>4. DrawerNamed'
  <2>1. PICK m \in Shown : m = [kind |-> "question", of |-> 0] BY DEF Shown
  <2>2. drawer'.messages = Append(drawer.messages, m) /\ m.of = 0 BY <1>2, <1>3, <2>1 DEF Drawers
  <2> QED BY <1>1, <1>3, <2>2, NamesStay
<1>5. asks'[k].chat = d.chat /\ \A j \in Slots \ {k} : asks'[j] = asks[j]
  <2>1. PICK y : y = [Assistant!NoAsk EXCEPT !.step = "ensure", !.chat = d.chat, !.small = small, !.heard = TRUE]
    OBVIOUS
  <2>2. y.chat = d.chat BY <2>1 DEF Assistant!NoAsk
  <2> QED BY <1>1, <1>2, <1>3, <2>1, <2>2
<1>6. RoomToTalk'
  <2>1. CASE d.chat # 0
    <3>1. Homeless' \subseteq Homeless BY <1>5, <2>1 DEF Homeless
    <3> QED BY <1>1, <1>3, <3>1, RoomLeft
  <2>2. CASE d.chat = 0
    <3>1. PICK all \in SUBSET Slots : all = {j \in Slots : asks[j].step = "ensure"} OBVIOUS
    <3>2. PICK a \in SUBSET Slots : a = Homeless BY DEF Homeless
    <3>3. PICK b \in SUBSET Slots : b = Homeless' BY DEF Homeless
    <3>4. a \subseteq all /\ b \subseteq a \cup {k} /\ a \cup {k} \subseteq Slots
      BY <1>5, <3>1, <3>2, <3>3 DEF Homeless
    <3>5. Len(chats) + Cardinality(all) < MaxChats BY <1>2, <1>3, <2>2, <3>1, SlotsCounted
    <3>6. Cardinality(a) <= Cardinality(all) BY <3>4, SlotsCounted
    <3>7. Cardinality(b) <= Cardinality(a \cup {k}) BY <3>4, SlotsCounted
    <3>8. Cardinality(a \cup {k}) <= Cardinality(a) + 1 BY SlotsCounted
    <3>9. Cardinality(a) \in Nat /\ Cardinality(b) \in Nat /\ Cardinality(all) \in Nat
          /\ Cardinality(a \cup {k}) \in Nat
      BY <3>4, SlotsCounted
    <3>10. Len(chats) + Cardinality(b) <= MaxChats BY <1>1, <3>5, <3>6, <3>7, <3>8, <3>9
    <3> QED BY <1>3, <3>3, <3>10 DEF RoomToTalk
  <2> QED BY <2>1, <2>2
<1>7. ErrandsNamed' BY <1>1, <1>3 DEF ErrandsNamed
<1>8. events' \in 0 .. AssistantEvents BY <1>1, <1>3 DEF Assistant!Event
<1> QED BY <1>4, <1>6, <1>7, <1>8 DEF AnswerBounds

\* No conversation is made and no question asked.
LEMMA QuietBounds ==
  ASSUME AnswersInv, AnswersInv', AnswerBounds, Len(chats') = Len(chats), UNCHANGED inquiries,
         Homeless' \subseteq Homeless, DrawerNamed', ErrandsNamed', Assistant!Event \/ UNCHANGED events
  PROVE  AnswerBounds'
<1>1. Len(chats) \in Nat /\ AssistantEvents \in Nat /\ events \in 0 .. AssistantEvents
  BY Lengths, BoundsAssumption DEF AnswersInv, Shelf, AnswerBounds
<1>2. RoomToTalk' BY <1>1, RoomLeft, Firsts DEF AnswerBounds
<1>3. events' \in 0 .. AssistantEvents BY <1>1 DEF Assistant!Event
<1> QED BY <1>2, <1>3 DEF AnswerBounds

LEMMA CrashBounded ==
  ASSUME AnswersInv, AnswersInv', AnswerBounds, Assistant!Crash
  PROVE  AnswerBounds'
<1>1. /\ Len(inquiries) \in Nat /\ DrawerNamed /\ ErrandsNamed /\ UNCHANGED <<chats, inquiries>>
      /\ errands' = {} /\ asks' = [k \in Slots |-> Assistant!NoAsk] /\ Assistant!Event
  BY Lengths DEF AnswersInv, Shelf, AnswerBounds, Assistant!Crash
<1>2. Homeless' = {} BY <1>1 DEF Homeless, Assistant!NoAsk
<1>3. ErrandsNamed' BY <1>1 DEF ErrandsNamed
<1>4. DrawerNamed'
  <2>1. ASSUME NEW k \in Slots, Assistant!Heard(asks[k], FALSE) PROVE DrawerNamed'
    <3>1. PICK x \in Asks : x = asks[k] /\ x.of \in 0 .. Len(inquiries) BY DEF AnswersInv, Desk, Works
    <3>2. Len(inquiries') \in Nat /\ Len(inquiries) <= Len(inquiries') BY <1>1
    <3>3. Assistant!Heard(x, FALSE) BY <2>1, <3>1
    <3> QED BY <1>1, <3>1, <3>2, <3>3, HeardNames
  <2>2. CASE UNCHANGED drawer BY <1>1, <2>2, NamesStay
  <2> QED BY <2>1, <2>2 DEF Assistant!Crash
<1> QED BY <1>1, <1>2, <1>3, <1>4, QuietBounds

\* The manager opens, leaves or deletes conversations.
LEMMA ErrandsBounded ==
  ASSUME AnswersInv, AnswersInv', AnswerBounds,
         \/ Assistant!clearChat
         \/ \E c \in Assistant!Chats, verb \in {"GET", "DELETE"} : Assistant!SendsFor(c, verb)
         \/ \E e \in errands : Assistant!Serves(e) \/ Assistant!Arrives(e) \/ Assistant!Lost(e)
  PROVE  AnswerBounds'
<1>1. /\ Len(inquiries) \in Nat /\ DrawerNamed /\ ErrandsNamed /\ chats \in Seq(Conversations)
      /\ drawer \in Drawers
  BY Lengths DEF AnswersInv, Shelf, AnswerBounds, ChatsTyped, Told
<1>2. ASSUME Len(chats') = Len(chats), UNCHANGED <<inquiries, asks>>, DrawerNamed', ErrandsNamed',
             Assistant!Event \/ UNCHANGED events
      PROVE  AnswerBounds'
  <2>1. Homeless' = Homeless BY <1>2 DEF Homeless
  <2> QED BY <1>2, <2>1, QuietBounds
<1>3. CASE Assistant!clearChat
  <2>1. drawer' = [drawer EXCEPT !.chat = 0, !.messages = <<>>] /\ UNCHANGED <<chats, inquiries, asks, errands>>
        /\ Assistant!Event
    BY <1>3 DEF Assistant!clearChat
  <2>2. drawer'.messages = <<>> BY <1>1, <2>1 DEF Drawers
  <2> QED BY <1>1, <1>2, <2>1, <2>2, NamesStay
<1>4. ASSUME NEW c, NEW verb, Assistant!SendsFor(c, verb) PROVE AnswerBounds'
  <2>1. /\ errands' = errands \cup {[verb |-> verb, chat |-> c, seen |-> drawer.chat, served |-> FALSE, messages |-> <<>>]}
        /\ UNCHANGED <<chats, inquiries, asks, drawer>> /\ Assistant!Event
    BY <1>4 DEF Assistant!SendsFor
  <2>2. ErrandsNamed' BY <1>1, <2>1 DEF ErrandsNamed
  <2> QED BY <1>1, <1>2, <2>1, <2>2, NamesStay
<1>5. ASSUME NEW e \in errands, Assistant!Lost(e) PROVE AnswerBounds'
  <2>1. errands' \subseteq errands /\ UNCHANGED <<chats, inquiries, asks, drawer>> /\ Assistant!Event
    BY <1>5 DEF Assistant!Lost
  <2> QED BY <1>1, <1>2, <2>1, NamesStay
<1>6. ASSUME NEW e \in errands, Assistant!Serves(e) PROVE AnswerBounds'
  <2>1. e \in Errands /\ e.chat \in 1 .. Len(chats) BY DEF AnswersInv, Fetched
  <2>2. PICK f : f = [e EXCEPT !.served = TRUE, !.messages = chats[e.chat].messages] OBVIOUS
  <2>3. /\ UNCHANGED <<inquiries, asks, drawer, events>> /\ errands' \subseteq errands \cup {f}
        /\ chats' = chats \/ chats' = [chats EXCEPT ![e.chat].deleted = TRUE]
    BY <1>6, <2>2 DEF Assistant!Serves
  <2>4. f.messages = chats[e.chat].messages BY <2>1, <2>2 DEF Errands
  <2>5. Len(chats') = Len(chats)
    <3>1. chats' \in Seq(Conversations) BY DEF AnswersInv, Shelf, ChatsTyped
    <3> QED BY <1>1, <2>3, <3>1
  <2>6. \A i \in DOMAIN f.messages : f.messages[i].of \in 0 .. Len(inquiries)
    <3>1. e.chat \in Nat /\ Msgs(e.chat) = chats[e.chat].messages BY <2>1 DEF Msgs, Errands
    <3> QED BY <2>4, <3>1 DEF AnswersInv, Shelf, NamesRuns
  <2>7. ErrandsNamed' BY <1>1, <2>3, <2>6 DEF ErrandsNamed
  <2> QED BY <1>1, <1>2, <2>3, <2>5, <2>7, NamesStay
<1>7. ASSUME NEW e \in errands, Assistant!Arrives(e) PROVE AnswerBounds'
  <2>1. e \in Errands BY DEF AnswersInv, Fetched
  <2>2. errands' \subseteq errands /\ UNCHANGED <<chats, inquiries, asks, events>>
    BY <1>7 DEF Assistant!Arrives
  <2>3. CASE e.verb # "GET"
    <3>1. UNCHANGED drawer \/ drawer' = [drawer EXCEPT !.chat = 0, !.messages = <<>>]
      BY <1>7, <2>3 DEF Assistant!Arrives
    <3>2. UNCHANGED drawer \/ drawer'.messages = <<>> BY <1>1, <3>1 DEF Drawers
    <3> QED BY <1>1, <1>2, <2>2, <3>2, NamesStay
  <2>4. CASE e.verb = "GET"
    <3>1. PICK s : s = [i \in DOMAIN e.messages |-> [kind |-> "saved", of |-> e.messages[i].of]] OBVIOUS
    <3>2. drawer' = [drawer EXCEPT !.chat = e.chat, !.messages = s]
      BY <1>7, <2>4, <3>1 DEF Assistant!Arrives
    <3>3. drawer'.messages = s BY <1>1, <3>2 DEF Drawers
    <3>4. DrawerNamed' BY <1>1, <2>2, <3>1, <3>3 DEF DrawerNamed, ErrandsNamed
    <3>5. ErrandsNamed' BY <1>1, <2>2, NamesStay
    <3> QED BY <1>2, <2>2, <3>4, <3>5
  <2> QED BY <2>3, <2>4
<1> QED BY <1>3, <1>4, <1>5, <1>6, <1>7

LEMMA AnswersCounted ==
  ASSUME AnswersInv, AnswerBounds, Assistant!Next
  PROVE  AnswerBounds'
<1>1. AnswersInv' BY AnswersNext
<1> QED BY <1>1, AsksBounded, SendBounded, CrashBounded, ErrandsBounded DEF Assistant!Next

LEMMA AnswersStartCounted ==
  ASSUME Assistant!Init
  PROVE  AnswerBounds
<1>1. /\ chats = <<>> /\ inquiries = <<>> /\ errands = {} /\ drawer.messages = <<>> /\ events = 0
      /\ asks = [k \in Slots |-> Assistant!NoAsk]
  BY DEF Assistant!Init
<1>2. Homeless = {} BY <1>1 DEF Homeless, Assistant!NoAsk
<1>3. Cardinality(Homeless) = 0 BY <1>2, FS_EmptySet
<1>4. RoomToTalk BY <1>1, <1>3, BoundsAssumption DEF RoomToTalk
<1> QED BY <1>1, <1>4, BoundsAssumption DEF AnswerBounds, DrawerNamed, ErrandsNamed

\* What the module calls its types.
LEMMA AnswerTypes ==
  ASSUME AnswersInv, AnswerBounds
  PROVE  Assistant!TypeOK
<1> DEFINE Runs == {0} \cup Assistant!Inquiries
           Talks == {0} \cup Assistant!Chats
<1>1. /\ Len(chats) \in Nat /\ Len(inquiries) \in Nat /\ Shelf /\ Desk /\ Told /\ Fetched
      /\ chats \in Seq(Conversations) /\ RoomToTalk /\ DrawerNamed /\ MaxChats \in Nat
  BY Lengths, BoundsAssumption DEF AnswersInv, Shelf, ChatsTyped, AnswerBounds
<1>8. 0 .. Len(inquiries) \subseteq Runs /\ 0 .. Len(chats) \subseteq Talks
  BY <1>1 DEF Assistant!Chats, Assistant!Inquiries
<1>2. Len(chats) <= MaxChats
  <2>1. PICK a \in SUBSET Slots : a = Homeless BY DEF Homeless
  <2>2. Cardinality(a) \in Nat BY SlotsCounted
  <2> QED BY <1>1, <2>1, <2>2 DEF RoomToTalk
<1> HIDE DEF Runs, Talks
<1>3. ASSUME NEW c \in Assistant!Chats
      PROVE  Assistant!Range(chats[c].messages) \subseteq [role : {"user", "assistant"}, of : Runs]
  <2>1. c \in Nat /\ Msgs(c) = chats[c].messages BY <1>1 DEF Msgs, Assistant!Chats
  <2>2. chats[c] \in Conversations BY <1>1, Replaced DEF Shelf, ChatsTyped, Assistant!Chats
  <2>3. PICK s \in Seq(Message) : s = chats[c].messages BY <2>2 DEF Conversations
  <2>4. ASSUME NEW i \in DOMAIN s PROVE s[i] \in [role : {"user", "assistant"}, of : Runs]
    <3>1. s[i] \in Message /\ s[i].of \in Runs BY <1>1, <1>8, <2>1, <2>3 DEF Shelf, NamesRuns
    <3> QED BY <3>1 DEF Message
  <2> QED BY <2>3, <2>4 DEF Assistant!Range
<1>4. ASSUME NEW r \in Assistant!Inquiries
      PROVE  inquiries[r] \in [chat : Assistant!Chats, status : {"running", "completed", "failed"}]
  <2>1. inquiries[r] \in [chat : Nat, status : RunStates] /\ Filed(r)
    BY <1>1, Lengths DEF Shelf, Assistant!Inquiries
  <2>2. inquiries[r].chat \in Assistant!Chats BY <2>1 DEF Filed, Assistant!Chats
  <2> QED BY <2>1, <2>2 DEF RunStates
<1>5. asks \in [Slots -> [step : {"none"} \cup Assistant!Steps, chat : Talks, of : Runs,
                          small : BOOLEAN, heard : BOOLEAN]]
  <2>1. ASSUME NEW k \in Slots
        PROVE  asks[k] \in [step : {"none"} \cup Assistant!Steps, chat : Talks, of : Runs,
                            small : BOOLEAN, heard : BOOLEAN]
    <3>1. asks[k] \in Asks /\ asks[k].chat \in Talks /\ asks[k].of \in Runs BY <1>1, <1>8 DEF Desk, Works
    <3> QED BY <3>1 DEF Asks
  <2> QED BY <1>1, <2>1 DEF Desk
<1>6. /\ drawer.chat \in Talks /\ drawer.thinking \in BOOLEAN
      /\ Assistant!Range(drawer.messages) \subseteq [kind : {"question", "answer", "error", "saved"}, of : Runs]
  <2>1. PICK s \in Seq(Shown) : s = drawer.messages BY <1>1 DEF Told, Drawers
  <2>2. ASSUME NEW i \in DOMAIN s PROVE s[i] \in [kind : {"question", "answer", "error", "saved"}, of : Runs]
    <3>1. s[i] \in Shown /\ s[i].of \in Runs BY <1>1, <1>8, <2>1 DEF DrawerNamed
    <3> QED BY <3>1 DEF Shown
  <2>3. Assistant!Range(drawer.messages) \subseteq [kind : {"question", "answer", "error", "saved"}, of : Runs]
    BY <2>1, <2>2 DEF Assistant!Range
  <2> QED BY <1>1, <1>8, <2>3 DEF Told, Drawers
<1>7. \A e \in errands : e.verb \in {"GET", "DELETE"} /\ e.chat \in Assistant!Chats /\ e.served \in BOOLEAN
  BY <1>1 DEF Fetched, Errands, Assistant!Chats
<1> QED BY <1>2, <1>3, <1>4, <1>5, <1>6, <1>7 DEF Assistant!TypeOK, AnswerBounds, Runs, Talks

-----------------------------------------------------------------------------
\* The decisions, the floor plan and the accounts.
DP == INSTANCE DecisionProofs WITH
  panel <- decisions, calls <- decisionCalls, Generators <- Slots, MaxEvents <- DecisionEvents
FP == INSTANCE FloorProofs WITH
  made <- built, orders <- taken, panel <- plan, MaxOrders <- MaxTaken, MaxEvents <- FloorEvents
AP == INSTANCE AccountProofs WITH made <- attempts, desk <- staff, MaxEvents <- AccountEvents

LEMMA SameBeginning ==
  ASSUME Decisions!Init
  PROVE  DP!Init
BY DEF
  Decisions!Init, DP!Init, Decisions!Written, DP!Written, Decisions!NoGen, DP!NoGen,
  Decisions!Nothing, DP!Nothing

LEMMA SameSteps ==
  ASSUME Decisions!Next
  PROVE  DP!Next
BY DEF
  Decisions!Statuses, DP!Statuses, Decisions!Open, DP!Open, Decisions!Kinds, DP!Kinds,
  Decisions!Changes, DP!Changes, Decisions!Categories, DP!Categories, Decisions!Category, DP!Category,
  Decisions!Nothing, DP!Nothing, Decisions!NoGen, DP!NoGen, Decisions!Event, DP!Event,
  Decisions!Server, DP!Server, Decisions!Audited, DP!Audited, Decisions!NewRec,
  DP!NewRec, Decisions!Create, DP!Create, Decisions!Decided, DP!Decided,
  Decisions!SameTarget, DP!SameTarget, Decisions!MayApply, DP!MayApply, Decisions!Legal,
  DP!Legal, Decisions!Approve, DP!Approve, Decisions!Reject, DP!Reject, Decisions!Apply,
  DP!Apply, Decisions!Carry, DP!Carry, Decisions!Reprice, DP!Reprice,
  Decisions!Unlocked, DP!Unlocked, Decisions!OpenTask, DP!OpenTask, Decisions!GenLocks,
  DP!GenLocks, Decisions!Proposes, DP!Proposes, Decisions!GenCommits, DP!GenCommits,
  Decisions!OtherManager, DP!OtherManager, Decisions!OtherCreates, DP!OtherCreates,
  Decisions!OtherGenerates, DP!OtherGenerates, Decisions!Card, DP!Card, Decisions!Cards,
  DP!Cards, Decisions!filteredRecommendations, DP!filteredRecommendations,
  Decisions!Least, DP!Least, Decisions!TrailPage, DP!TrailPage, Decisions!Wanted,
  DP!Wanted, Decisions!Asks, DP!Asks, Decisions!ListAnswers, DP!ListAnswers,
  Decisions!TrailAnswers, DP!TrailAnswers, Decisions!ListFails, DP!ListFails,
  Decisions!Look, DP!Look, Decisions!PickView, DP!PickView, Decisions!PickStatus,
  DP!PickStatus, Decisions!PickCategory, DP!PickCategory, Decisions!NextPage,
  DP!NextPage, Decisions!PreviousPage, DP!PreviousPage, Decisions!Reload, DP!Reload,
  Decisions!Offers, DP!Offers, Decisions!Sends, DP!Sends, Decisions!Click, DP!Click,
  Decisions!Rejecting, DP!Rejecting, Decisions!SubmitReject, DP!SubmitReject,
  Decisions!CloseReject, DP!CloseReject, Decisions!Done, DP!Done, Decisions!SameVersion,
  DP!SameVersion, Decisions!CallCommits, DP!CallCommits, Decisions!CallRefused,
  DP!CallRefused, Decisions!GenerateModal, DP!GenerateModal, Decisions!handleGenerate,
  DP!handleGenerate, Decisions!Ops, DP!Ops, Decisions!Next, DP!Next

-----------------------------------------------------------------------------
DecisionsKept == desk = "decisions" => DP!IInv

LEMMA DecisionsInit ==
  ASSUME Init
  PROVE  DecisionsKept
BY SameBeginning, DP!InitIInv, BoundsAssumption DEF Init, DecisionsKept

LEMMA DecisionsNext ==
  ASSUME DecisionsKept, [Next]_vars
  PROVE  DecisionsKept'
<1>1. UNCHANGED desk
  BY DEF Next, vars, AtOrders, AtDecisions, AtForecasts, AtExpenses, AtReceipts, AtSessions,
         AtAccounts, AtFloorPlan, AtAssistant, AtDays
<1> SUFFICES ASSUME desk = "decisions" PROVE DP!IInv'
  BY <1>1 DEF DecisionsKept
<1>2. Decisions!Next \/ UNCHANGED <<DecisionVars, events>>
  BY DEF Next, vars, AtOrders, AtForecasts, AtExpenses, AtReceipts, AtSessions, AtAccounts,
         AtFloorPlan, AtAssistant, AtDays
<1>3. DP!Next \/ UNCHANGED DP!vars
  BY <1>2, SameSteps DEF DecisionVars, DP!vars
<1> QED BY <1>3, DP!NextIInv, BoundsAssumption DEF DecisionsKept

LEMMA AlwaysDecisionsKept == Spec => []DecisionsKept
<1>1. Init => DecisionsKept BY DecisionsInit
<1>2. DecisionsKept /\ [Next]_vars => DecisionsKept' BY DecisionsNext
<1> QED BY <1>1, <1>2, PTL DEF Spec

-----------------------------------------------------------------------------
\* In the portal, whatever desk is open: a price is applied once, after it was
\* approved, and replaces the price it was written against (recommendation_apply).
THEOREM PortalAppliesAsApproved == Spec => []AppliedAsApproved
<1>1. DecisionsKept => AppliedAsApproved
  BY DEF DecisionsKept, AppliedAsApproved, Decisions!AppliedAsApproved, DP!IInv, DP!Kept,
         DP!BasisKept, DP!TrailTells, DP!AppliedOnce
<1> QED BY <1>1, AlwaysDecisionsKept, PTL

\* In the portal, whatever desk is open: generations that run at once leave one open
\* task (the advisory lock of recommendation_generate).
THEOREM PortalHasOneTask == Spec => []OneOpenPerTarget
<1>1. DecisionsKept => OneOpenPerTarget
  BY DEF DecisionsKept, OneOpenPerTarget, Decisions!OneOpenPerTarget, Decisions!OpenTask,
         Decisions!Open, DP!IInv, DP!Kept, DP!OneOpenPerTarget, DP!OpenTask, DP!Open
<1> QED BY <1>1, AlwaysDecisionsKept, PTL

-----------------------------------------------------------------------------
\* The same for the desk of the floors.
LEMMA SameFloorBeginning ==
  ASSUME FloorPlan!Init
  PROVE  FP!Init
BY DEF
  FloorPlan!NoTable, FP!NoTable, FloorPlan!NoTxn, FP!NoTxn, FloorPlan!NoRefresh,
  FP!NoRefresh, FloorPlan!NoForm, FP!NoForm, FloorPlan!Init, FP!Init

LEMMA SameFloorSteps ==
  ASSUME FloorPlan!Next
  PROVE  FP!Next
BY DEF
  FloorPlan!NoTable, FP!NoTable, FloorPlan!NoTxn, FP!NoTxn, FloorPlan!NoRefresh,
  FP!NoRefresh, FloorPlan!NoForm, FP!NoForm, FloorPlan!FloorOps, FP!FloorOps,
  FloorPlan!TableOps, FP!TableOps, FloorPlan!Ops, FP!Ops, FloorPlan!Event, FP!Event,
  FloorPlan!Rows, FP!Rows, FloorPlan!Lock, FP!Lock, FloorPlan!UsualLocks, FP!UsualLocks,
  FloorPlan!Locks, FP!Locks, FloorPlan!Held, FP!Held, FloorPlan!Free, FP!Free,
  FloorPlan!Version, FP!Version, FloorPlan!Ends, FP!Ends, FloorPlan!Fails, FP!Fails,
  FloorPlan!StartRefresh, FP!StartRefresh, FloorPlan!Done, FP!Done, FloorPlan!Acquire,
  FP!Acquire, FloorPlan!Locked, FP!Locked, FloorPlan!OnFloor, FP!OnFloor,
  FloorPlan!Occupied, FP!Occupied, FloorPlan!Referred, FP!Referred, FloorPlan!Check,
  FP!Check, FloorPlan!floor_create, FP!floor_create, FloorPlan!floor_update,
  FP!floor_update, FloorPlan!floor_delete, FP!floor_delete, FloorPlan!floor_set_tax,
  FP!floor_set_tax, FloorPlan!table_create, FP!table_create, FloorPlan!table_update,
  FP!table_update, FloorPlan!table_delete, FP!table_delete, FloorPlan!order_create,
  FP!order_create, FloorPlan!Written, FP!Written, FloorPlan!Effect, FP!Effect,
  FloorPlan!Commit, FP!Commit, FloorPlan!Begin, FP!Begin, FloorPlan!Elsewhere,
  FP!Elsewhere, FloorPlan!OrderEnds, FP!OrderEnds, FloorPlan!RefreshFloors,
  FP!RefreshFloors, FloorPlan!RefreshTables, FP!RefreshTables, FloorPlan!RefreshFails,
  FP!RefreshFails, FloorPlan!FloorCard, FP!FloorCard, FloorPlan!Opens, FP!Opens,
  FloorPlan!Close, FP!Close, FloorPlan!Submit, FP!Submit, FloorPlan!Transactions,
  FP!Transactions, FloorPlan!Panel, FP!Panel, FloorPlan!Max, FP!Max, FloorPlan!Min, FP!Min,
  FloorPlan!Next, FP!Next

FloorsKept == desk = "floors" => FP!IInv

LEMMA FloorsInit ==
  ASSUME Init
  PROVE  FloorsKept
BY SameFloorBeginning, FP!InitIInv, PortalAssumption DEF Init, FloorsKept

LEMMA FloorsNext ==
  ASSUME FloorsKept, [Next]_vars
  PROVE  FloorsKept'
<1>1. UNCHANGED desk
  BY DEF Next, vars, AtOrders, AtDecisions, AtForecasts, AtExpenses, AtReceipts, AtSessions,
         AtAccounts, AtFloorPlan, AtAssistant, AtDays
<1> SUFFICES ASSUME desk = "floors" PROVE FP!IInv'
  BY <1>1 DEF FloorsKept
<1>2. FloorPlan!Next \/ UNCHANGED <<FloorVars, events>>
  BY DEF Next, vars, AtOrders, AtDecisions, AtForecasts, AtExpenses, AtReceipts,
         AtSessions, AtAccounts, AtAssistant, AtDays
<1>3. FP!Next \/ UNCHANGED FP!vars
  BY <1>2, SameFloorSteps DEF FloorVars, FP!vars
<1> QED BY <1>3, FP!NextIInv, PortalAssumption DEF FloorsKept

LEMMA AlwaysFloorsKept == Spec => []FloorsKept
<1>1. Init => FloorsKept BY FloorsInit
<1>2. FloorsKept /\ [Next]_vars => FloorsKept' BY FloorsNext
<1> QED BY <1>1, <1>2, PTL DEF Spec

\* In the portal: tables keep their floor, and orders their table (floor_delete,
\* table_delete).
THEOREM PortalKeepsFloors == Spec => []TablesHaveFloors
<1>1. FloorsKept => TablesHaveFloors
  BY FP!Standing, PortalAssumption
  DEF FloorsKept, TablesHaveFloors, FloorPlan!TablesHaveFloors, FP!TablesHaveFloors,
      FloorPlan!NoTable, FP!NoTable
<1> QED BY <1>1, AlwaysFloorsKept, PTL

-----------------------------------------------------------------------------
\* The same for the desk of the accounts.
LEMMA SameAccountBeginning ==
  ASSUME Accounts!Init
  PROVE  AP!Init
BY DEF
  Accounts!Ids, AP!Ids, Accounts!NoProvision, AP!NoProvision, Accounts!NoUser,
  AP!NoUser, Accounts!NoRequest, AP!NoRequest, Accounts!NoForm, AP!NoForm,
  Accounts!NoCard, AP!NoCard, Accounts!Init, AP!Init

LEMMA SameAccountSteps ==
  ASSUME Accounts!Next
  PROVE  AP!Next
BY DEF
  Accounts!Ids, AP!Ids, Accounts!NoProvision, AP!NoProvision, Accounts!NoUser,
  AP!NoUser, Accounts!NoRequest, AP!NoRequest, Accounts!NoForm, AP!NoForm,
  Accounts!NoCard, AP!NoCard, Accounts!Event, AP!Event, Accounts!HasUser, AP!HasUser,
  Accounts!HasProvision, AP!HasProvision, Accounts!Shown, AP!Shown, Accounts!Rows,
  AP!Rows, Accounts!Fails, AP!Fails, Accounts!Answers, AP!Answers, Accounts!Continues,
  AP!Continues, Accounts!reserve_user, AP!reserve_user, Accounts!lookup, AP!lookup,
  Accounts!insert, AP!insert, Accounts!activate_user, AP!activate_user, Accounts!Lost,
  AP!Lost, Accounts!user_update, AP!user_update, Accounts!credentials, AP!credentials,
  Accounts!sd_delete_staff, AP!sd_delete_staff, Accounts!Elsewhere, AP!Elsewhere,
  Accounts!ClientKey, AP!ClientKey, Accounts!Again, AP!Again, Accounts!load, AP!load,
  Accounts!Opens, AP!Opens, Accounts!AddStaff, AP!AddStaff, Accounts!RowButton,
  AP!RowButton, Accounts!Close, AP!Close, Accounts!Key, AP!Key, Accounts!StaffForm,
  AP!StaffForm, Accounts!Unchanged, AP!Unchanged, Accounts!Saves, AP!Saves,
  Accounts!Reactivate, AP!Reactivate, Accounts!Next, AP!Next

AccountsKept == desk = "accounts" => AP!IInv

LEMMA AccountsInit ==
  ASSUME Init
  PROVE  AccountsKept
BY SameAccountBeginning, AP!InitIInv, PortalAssumption DEF Init, AccountsKept

LEMMA AccountsNext ==
  ASSUME AccountsKept, [Next]_vars
  PROVE  AccountsKept'
<1>1. UNCHANGED desk
  BY DEF Next, vars, AtOrders, AtDecisions, AtForecasts, AtExpenses, AtReceipts, AtSessions,
         AtAccounts, AtFloorPlan, AtAssistant, AtDays
<1> SUFFICES ASSUME desk = "accounts" PROVE AP!IInv'
  BY <1>1 DEF AccountsKept
<1>2. Accounts!Next \/ UNCHANGED <<AccountVars, events>>
  BY DEF Next, vars, AtOrders, AtDecisions, AtForecasts, AtExpenses, AtReceipts,
         AtSessions, AtFloorPlan, AtAssistant, AtDays
<1>3. AP!Next \/ UNCHANGED AP!vars
  BY <1>2, SameAccountSteps DEF AccountVars, AP!vars
<1> QED BY <1>3, AP!NextIInv, PortalAssumption DEF AccountsKept

LEMMA AlwaysAccountsKept == Spec => []AccountsKept
<1>1. Init => AccountsKept BY AccountsInit
<1>2. AccountsKept /\ [Next]_vars => AccountsKept' BY AccountsNext
<1> QED BY <1>1, <1>2, PTL DEF Spec

\* In the portal: an e-mail has one account, made for the reservation that names it,
\* and the form hands over that account's password (UserService.create).
THEOREM PortalProvisionsOnce == Spec => []ProvisionedOnce
<1>1. ASSUME AccountsKept, desk = "accounts" PROVE AP!ProvisionedOnce
  BY <1>1, AP!IInvProvisionedOnce, PortalAssumption DEF AccountsKept
<1>2. AP!ProvisionedOnce => Accounts!ProvisionedOnce
  BY DEF Accounts!ProvisionedOnce, AP!ProvisionedOnce, Accounts!HasUser, AP!HasUser,
      Accounts!HasProvision, AP!HasProvision, Accounts!Ids, AP!Ids, Accounts!NoUser, AP!NoUser
<1>3. AccountsKept => ProvisionedOnce BY <1>1, <1>2 DEF ProvisionedOnce
<1> QED BY <1>3, AlwaysAccountsKept, PTL

-----------------------------------------------------------------------------
\* What was seen is what is acted on, at the three desks that say so.
LEMMA DecisionsActOnSeen ==
  ASSUME DecisionsKept, [Next]_vars
  PROVE  \A c \in decisionCalls \ decisionCalls' : recs' # recs => recs[c.id].status = c.status
<1> SUFFICES ASSUME recs' # recs
             PROVE  \A c \in decisionCalls \ decisionCalls' : recs[c.id].status = c.status
  OBVIOUS
<1>1. ~UNCHANGED DecisionVars BY DEF DecisionVars
<1>2. desk = "decisions" /\ Decisions!Next
  BY <1>1 DEF Next, vars, AtOrders, AtDecisions, AtForecasts, AtExpenses, AtReceipts, AtSessions,
              AtAccounts, AtFloorPlan, AtAssistant, AtDays
<1> QED BY <1>2, SameSteps, DP!CarriedOnSeen DEF DecisionsKept

\* In the portal: a command that a row, a card or a dialog offered changes an order, a
\* recommendation or an expense as the user saw it there, however old the list was,
\* whatever was done elsewhere, and however late the command arrives
\* (expected_version of the orders, the decisions and the expenses).
THEOREM PortalActsOnSeen == Spec => ActedOnSeen
<1>1. Init => ReadKept
  BY OrdersInit, ExpensesInit DEF Init, ReadKept
<1>2. ReadKept /\ [Next]_vars => ReadKept'
  BY ReadKeptNext
<1>3. ReadKept /\ [Next]_vars =>
        [(Orders!Changes /\ click.kind # "new") =>
           /\ orders[click.row.n].status = click.row.status
           /\ orders[click.row.n].version = click.row.version]_Orders!vars
  BY OrdersActOnSeen
<1>4. DecisionsKept /\ [Next]_vars =>
        [\A c \in decisionCalls \ decisionCalls' :
           recs' # recs => recs[c.id].status = c.status]_Decisions!vars
  BY DecisionsActOnSeen
<1>5. ReadKept /\ [Next]_vars =>
        [\A c \in expenseCalls \ expenseCalls' : (c.kind = "void" /\ expenses' # expenses) =>
           /\ Expenses!Row(c.what.n) = c.what /\ expenses'[c.what.n].voided]_Expenses!vars
  BY ExpensesActOnSeen
<1>6. Spec => Orders!ActedOnSeen
  BY <1>1, <1>2, <1>3, PTL DEF Spec, Orders!ActedOnSeen
<1>7. Spec => Decisions!ActedOnSeen
  BY <1>4, AlwaysDecisionsKept, PTL DEF Spec, Decisions!ActedOnSeen
<1>8. Spec => Expenses!ActedOnSeen
  BY <1>1, <1>2, <1>5, PTL DEF Spec, Expenses!ActedOnSeen
<1> QED BY <1>6, <1>7, <1>8 DEF ActedOnSeen

-----------------------------------------------------------------------------
\* The types of the desk that is open.
LEMMA DecisionTypes ==
  ASSUME DP!IInv
  PROVE  Decisions!TypeOK
<1>1. DP!TypeOK
  BY DEF DP!IInv, DP!Kept, DP!GensKept, DP!ScreenKept, DP!Shape, DP!TypeOK, DP!Dish, DP!Rec, DP!Row, DP!Gen
<1> QED BY <1>1 DEF DP!TypeOK, Decisions!TypeOK, DP!Kinds, Decisions!Kinds, DP!Categories, Decisions!Categories,
             DP!Statuses, Decisions!Statuses

LEMMA FloorPlanTypes ==
  ASSUME FP!IInv, FP!Bounds
  PROVE  FloorPlan!TypeOK
<1>1. FP!TypeOK BY FP!Types
<1> QED
  BY <1>1 DEF FP!TypeOK, FloorPlan!TypeOK, FP!Ops, FloorPlan!Ops, FP!FloorOps, FloorPlan!FloorOps,
              FP!TableOps, FloorPlan!TableOps

LEMMA StaffTypes ==
  ASSUME AP!IInv, AP!Bounds
  PROVE  Accounts!TypeOK
<1>1. AP!TypeOK BY AP!Types, PortalAssumption
<1> QED
  BY <1>1 DEF AP!TypeOK, Accounts!TypeOK, AP!Ids, Accounts!Ids, AP!NoProvision, Accounts!NoProvision,
              AP!NoUser, Accounts!NoUser

Kept ==
  /\ DecisionsKept /\ FloorsKept /\ AccountsKept /\ ReceiptsKept /\ DaysKept /\ AnswersFiled
  /\ ReadKept
Bounded ==
  /\ desk \in Desks
  /\ desk = "orders" => OrderBounds
  /\ desk = "forecasts" => ForecastsInv
  /\ desk = "expenses" => ExpenseBounds
  /\ desk = "receipts" => ReceiptBounds
  /\ desk = "session" => SessionsInv
  /\ desk = "accounts" => AP!Bounds
  /\ desk = "floors" => FP!Bounds
  /\ desk = "assistant" => AnswerBounds
  /\ desk = "days" => DayBounds

LEMMA KeptTypes ==
  ASSUME Kept, Bounded
  PROVE  TypeOK
BY OrderTypes, DecisionTypes, ForecastTypes, ExpenseTypes, ReceiptTypes, SessionTypes, StaffTypes,
   FloorPlanTypes, AnswerTypes, DayTypes
DEF Kept, Bounded, TypeOK, DecisionsKept, FloorsKept, AccountsKept, ReceiptsKept, DaysKept,
    AnswersFiled, ReadKept

LEMMA KeptInit ==
  ASSUME Init
  PROVE  Kept /\ Bounded
<1>1. Kept
  BY DecisionsInit, FloorsInit, AccountsInit, ReceiptsInit, DaysInit, AnswersInit, OrdersInit, ExpensesInit
  DEF Kept, Init, DaysKept, AnswersFiled, ReadKept
<1>2. OrderBounds
  <2>1. Len(orders) = 2 /\ events = 0 BY DEF Init, Orders!Init
  <2> QED BY <2>1, BoundsAssumption DEF OrderBounds
<1>3. ExpenseBounds
  <2>1. Len(expenses) = 2 /\ events = 0 BY DEF Init, Expenses!Init
  <2> QED BY <2>1, BoundsAssumption DEF ExpenseBounds
<1>4. ReceiptBounds
  <2>1. /\ links = <<>> /\ events = 0 /\ pages = [p \in Phones |-> Receipts!NoPage]
        /\ tokens = [b \in Bills |-> Receipts!NoToken] /\ till.section = "today" /\ till.filter = "unpaid"
    BY DEF Init, Receipts!Init
  <2>2. CodesCounted BY <2>1, BoundsAssumption DEF CodesCounted, Receipts!NoToken
  <2>3. NoPageNoCode BY <2>1 DEF NoPageNoCode, Receipts!NoPage
  <2> QED BY <2>1, <2>2, <2>3, BoundsAssumption DEF ReceiptBounds, Sorted, Receipts!Sections
<1>5. AP!Bounds BY BoundsAssumption, SameAccountBeginning, AP!BoundsInit DEF Init
<1>6. FP!Bounds BY BoundsAssumption, SameFloorBeginning, FP!BoundsInit DEF Init
<1>7. ForecastsInv /\ SessionsInv /\ AnswerBounds /\ DayBounds
  BY ForecastsInit, SessionsInit, AnswersStartCounted, DaysStartCounted DEF Init
<1> QED BY <1>1, <1>2, <1>3, <1>4, <1>5, <1>6, <1>7 DEF Bounded, Init

LEMMA BoundedNext ==
  ASSUME Kept, Bounded, [Next]_vars
  PROVE  Bounded'
<1> USE DEF Next, vars, AtOrders, AtDecisions, AtForecasts, AtExpenses, AtReceipts, AtSessions,
            AtAccounts, AtFloorPlan, AtAssistant, AtDays
<1>1. UNCHANGED desk OBVIOUS
<1>2. /\ desk = "orders" => Orders!Next \/ UNCHANGED <<OrderVars, events>>
      /\ desk = "forecasts" => Forecasts!Next \/ UNCHANGED <<ForecastVars, events>>
      /\ desk = "expenses" => Expenses!Next \/ UNCHANGED <<ExpenseVars, events>>
      /\ desk = "receipts" => Receipts!Next \/ UNCHANGED <<ReceiptVars, events>>
      /\ desk = "session" => Sessions!Next \/ UNCHANGED <<SessionVars, events>>
      /\ desk = "accounts" => Accounts!Next \/ UNCHANGED <<AccountVars, events>>
      /\ desk = "floors" => FloorPlan!Next \/ UNCHANGED <<FloorVars, events>>
      /\ desk = "assistant" => Assistant!Next \/ UNCHANGED <<AssistantVars, events>>
      /\ desk = "days" => DayBook!Next \/ UNCHANGED <<DayVars, events>>
  OBVIOUS
<1> USE DEF Kept, Bounded
<1> HIDE DEF Next, vars, AtOrders, AtDecisions, AtForecasts, AtExpenses, AtReceipts, AtSessions,
             AtAccounts, AtFloorPlan, AtAssistant, AtDays
<1>3. desk = "orders" => OrderBounds'
  BY <1>2, OrdersCounted DEF ReadKept, OrderVars, OrderBounds
<1>4. desk = "forecasts" => ForecastsInv'
  BY <1>2, ForecastsNext DEF ForecastVars, ForecastsInv
<1>5. desk = "expenses" => ExpenseBounds'
  BY <1>2, ExpensesCounted DEF ReadKept, ExpenseVars, ExpenseBounds
<1>6. desk = "receipts" => ReceiptBounds'
  BY <1>2, ReceiptsCounted DEF ReceiptsKept, ReceiptVars, ReceiptBounds, CodesCounted, NoPageNoCode, Sorted
<1>7. desk = "session" => SessionsInv'
  BY <1>2, SessionsNext
  DEF SessionVars, SessionsInv, ServerTyped, BrowserTyped, OneSignIn, RoomToOpen
<1>8. desk = "accounts" => AP!Bounds'
  <2>1. ASSUME desk = "accounts" PROVE AP!Next \/ UNCHANGED AP!vars
    BY <1>2, <2>1, SameAccountSteps DEF AccountVars, AP!vars
  <2> QED BY <2>1, AP!BoundsNext, BoundsAssumption DEF AccountsKept
<1>9. desk = "floors" => FP!Bounds'
  <2>1. ASSUME desk = "floors" PROVE FP!Next \/ UNCHANGED FP!vars
    BY <1>2, <2>1, SameFloorSteps DEF FloorVars, FP!vars
  <2> QED BY <2>1, FP!BoundsNext, BoundsAssumption DEF FloorsKept
<1>10. desk = "assistant" => AnswerBounds'
  BY <1>2, AnswersCounted
  DEF AnswersFiled, AssistantVars, AnswerBounds, RoomToTalk, Homeless, DrawerNamed, ErrandsNamed
<1>11. desk = "days" => DayBounds'
  BY <1>2, DaysCounted DEF DaysKept, DayVars, DayBounds, TxnFits
<1> QED BY <1>1, <1>3, <1>4, <1>5, <1>6, <1>7, <1>8, <1>9, <1>10, <1>11

LEMMA KeptNext ==
  ASSUME Kept, [Next]_vars
  PROVE  Kept'
BY DecisionsNext, FloorsNext, AccountsNext, ReceiptsNext, DaysKeptNext, AnswersFiledNext, ReadKeptNext
DEF Kept

\* In the portal, whatever desk is open: what the desk, its calls and its tables hold
\* is of its type, and no table, no list of events and no session number goes beyond
\* its bound (the state of the components and the rows they read and write).
THEOREM PortalTypes == Spec => []TypeOK
<1>1. Init => Kept /\ Bounded BY KeptInit
<1>2. Kept /\ Bounded /\ [Next]_vars => (Kept /\ Bounded)' BY KeptNext, BoundedNext
<1>3. Kept /\ Bounded => TypeOK BY KeptTypes
<1> QED BY <1>1, <1>2, <1>3, PTL DEF Spec

=============================================================================
