----------------------------- MODULE DecisionDesk -----------------------------
(***************************************************************************)
(* Recommendations: written through the API or generated from the figures, *)
(* approved, rejected and applied to a dish on the page "Recommended       *)
(* Actions", and the audit trail beside them.  Another manager does the    *)
(* same from another browser, and the dish is edited meanwhile.            *)
(*                                                                         *)
(* A recommendation is a price for the dish ("price"), another change of   *)
(* it ("menu": fields of the menu or the recipe), or a task for the        *)
(* manager (marketing or reorder).  Only tasks are generated, and name a   *)
(* dish or an ingredient ("task"); one that is written through the API     *)
(* names nothing ("own").                                                  *)
(***************************************************************************)
EXTENDS Integers, Sequences, FiniteSets

CONSTANTS AuditPage,   \* events of one page of the trail (50 in the code)
          MaxRecs,     \* bound: recommendations
          MaxEvents,   \* bound: choices of the managers, edits, failed calls
          Generators   \* bound: generations at once

VARIABLES dish,    \* the dish: price and version
          recs,    \* sequence of recommendations
          trail,   \* sequence of audited commands
          gens,    \* transactions that generate
          panel,   \* the state of DecisionsAuditPanel
          calls,   \* commands of the panel under way
          lists,   \* lists asked for and not answered yet
          events   \* bound

vars == <<dish, recs, trail, gens, panel, calls, lists, events>>

Statuses == {"proposed", "approved", "applied", "rejected"}
Open == {"proposed", "approved"}
Kinds == {"price", "menu", "task", "own"}
Changes == {"price", "menu"}
Categories == Kinds \ {"own"}
Nothing == [id |-> 0]
NoGen == [step |-> "none", finds |-> FALSE, mine |-> FALSE, asks |-> "all"]

TypeOK ==
  /\ dish \in [price : Nat, version : Nat \ {0}]
  /\ recs \in Seq([kind : Kinds, status : Statuses, version : Nat \ {0}, price : Nat,
                   target : Nat, basis : Nat, replaced : Nat])
  /\ Len(recs) <= MaxRecs
  /\ trail \in Seq([op : {"create", "approve", "reject", "apply", "menu_update"}, id : Nat])
  /\ gens \in [Generators -> [step : {"none", "sent", "locked"}, finds : BOOLEAN,
                           mine : BOOLEAN, asks : {"all"} \cup Statuses]]
  /\ panel.view \in {"recommendations", "audit"}
  /\ panel.filter \in {"all"} \cup Statuses /\ panel.category \in {"all"} \cup Categories
  /\ events \in 0 .. MaxEvents

\* A dish has been edited and a price been recommended for it since.
Written ==
  [kind |-> "price", status |-> "proposed", version |-> 1, price |-> 2, target |-> 2,
   basis |-> 1, replaced |-> 0]

Init ==
  /\ dish = [price |-> 1, version |-> 2]
  /\ recs = <<Written>>
  /\ trail = <<[op |-> "menu_update", id |-> 0], [op |-> "create", id |-> 1]>>
  /\ events = 0
  /\ gens = [g \in Generators |-> NoGen]
  /\ panel = [view |-> "recommendations", filter |-> "all", category |-> "all", cards |-> {},
              busy |-> 0, rejecting |-> Nothing, modal |-> FALSE, generating |-> FALSE,
              offset |-> 0, total |-> 0, log |-> <<>>, loading |-> TRUE, error |-> FALSE]
  /\ calls = {}
  /\ lists = {"all"}

Event == events < MaxEvents /\ events' = events + 1
Server == <<dish, recs, trail, gens>>

-----------------------------------------------------------------------------
\* The commands of the database.

Audited(op, id) == trail' = Append(trail, [op |-> op, id |-> id])

NewRec(kind, price) ==
  [kind |-> kind, status |-> "proposed", version |-> 1, price |-> price,
   target |-> IF kind \in Changes THEN dish.version ELSE 0, basis |-> dish.price, replaced |-> 0]

\* recommendation_create: a change names the version of the dish it was written
\* for.  It takes no lock, so a generation may be under way.
Create(kind, price) ==
  /\ Len(recs) < MaxRecs
  /\ recs' = Append(recs, NewRec(kind, price))
  /\ Audited("create", Len(recs) + 1)
  /\ UNCHANGED <<dish, gens>>

Decided(i, status) ==
  recs' = [recs EXCEPT ![i].status = status, ![i].version = @ + 1]

\* A task is never applied; a change only to the version it was written for.
SameTarget_Unchecked(i) == TRUE
SameTarget(i) == dish.version = recs[i].target
MayApply(i) == recs[i].status = "approved" /\ recs[i].kind \in Changes /\ SameTarget(i)

Legal(op, i) ==
  /\ i \in 1 .. Len(recs)
  /\ \/ op = "approve" /\ recs[i].status = "proposed"
     \/ op = "reject" /\ recs[i].status \in Open
     \/ op = "apply" /\ MayApply(i)

Approve(i) == Decided(i, "approved") /\ UNCHANGED dish
Reject(i) == Decided(i, "rejected") /\ UNCHANGED dish
Apply(i) ==
  /\ dish' = [price |-> recs[i].price, version |-> dish.version + 1]
  /\ recs' = [recs EXCEPT ![i].status = "applied", ![i].version = @ + 1, ![i].replaced = dish.price]

\* A change that is applied is an update of the menu, audited as such as well.
Carry(op, i) ==
  /\ Legal(op, i)
  /\ \/ op = "approve" /\ Approve(i)
     \/ op = "reject" /\ Reject(i)
     \/ op = "apply" /\ Apply(i)
  /\ trail' = trail \o (IF op = "apply" THEN <<[op |-> "menu_update", id |-> 0]>> ELSE <<>>)
                    \o <<[op |-> op, id |-> i]>>
  /\ UNCHANGED gens

\* The dish is edited on the menu.
Reprice(price) ==
  /\ Event
  /\ dish' = [price |-> price, version |-> dish.version + 1]
  /\ Audited("menu_update", 0)
  /\ UNCHANGED <<recs, gens, panel, calls, lists>>

\* recommendation_generate, one at a time: what it finds open it does not
\* propose again, what it proposes is seen when it commits.
Unlocked_Always == TRUE
Unlocked == \A g \in Generators : gens[g].step # "locked"
OpenTask(i) == recs[i].kind = "task" /\ recs[i].status \in Open
GenLocks(g) ==
  /\ gens[g].step = "sent" /\ Unlocked
  /\ gens' = [gens EXCEPT ![g].step = "locked",
                          ![g].finds = \E i \in 1 .. Len(recs) : OpenTask(i)]
  /\ UNCHANGED <<dish, recs, trail, panel, calls, lists, events>>

Proposes(g, slow) == slow /\ ~gens[g].finds /\ Len(recs) < MaxRecs
\* "slow": the figures give reason for a task.  The dialog of the panel closes
\* when the answer arrives.
GenCommits(g, slow, answered) ==
  /\ gens[g].step = "locked"
  /\ gens' = [gens EXCEPT ![g] = NoGen]
  /\ IF Proposes(g, slow)
     THEN recs' = Append(recs, NewRec("task", 0)) /\ Audited("create", Len(recs) + 1)
     ELSE UNCHANGED <<recs, trail>>
  /\ IF ~gens[g].mine THEN UNCHANGED <<panel, lists>>
     ELSE /\ panel' = [panel EXCEPT !.generating = FALSE, !.modal = @ /\ ~answered,
                                      !.loading = @ \/ answered, !.error = ~answered]
          /\ lists' = IF answered THEN lists \cup {gens[g].asks} ELSE lists
  /\ UNCHANGED <<dish, calls, events>>

\* Another manager, who reads the recommendation at the moment of the command.
OtherManager(op, i) ==
  /\ Event
  /\ Carry(op, i)
  /\ UNCHANGED <<panel, calls, lists>>
OtherCreates(kind, price) ==
  /\ Event
  /\ Create(kind, price)
  /\ UNCHANGED <<panel, calls, lists>>
OtherGenerates(g) ==
  /\ Event
  /\ gens[g] = NoGen
  /\ gens' = [gens EXCEPT ![g].step = "sent"]
  /\ UNCHANGED <<dish, recs, trail, panel, calls, lists>>

-----------------------------------------------------------------------------
\* The lists of the panel.

Card(i) == [id |-> i, kind |-> recs[i].kind, status |-> recs[i].status, version |-> recs[i].version]
Cards(filter) == {Card(i) : i \in {j \in 1 .. Len(recs) : filter \in {"all", recs[j].status}}}

Category(kind) == IF kind = "own" THEN "task" ELSE kind
filteredRecommendations == {c \in panel.cards : panel.category \in {"all", Category(c.kind)}}

Least(a, b) == IF a < b THEN a ELSE b

\* The newest events first.
TrailPage(offset) ==
  LET newest == [i \in 1 .. Len(trail) |-> trail[Len(trail) + 1 - i]]
  IN  SubSeq(newest, offset + 1, Least(offset + AuditPage, Len(trail)))

Wanted(p) == IF p.view = "audit" THEN "audit" ELSE p.filter
Asks(p) ==
  /\ panel' = [p EXCEPT !.loading = @ \/ p.view = "recommendations"]
  /\ lists' = lists \cup {Wanted(p)}

\* An answer is shown whatever the panel asks for by now.
ListAnswers(q) ==
  /\ q \in lists /\ q # "audit"
  /\ lists' = lists \ {q}
  /\ panel' = [panel EXCEPT !.cards = Cards(q), !.loading = FALSE, !.error = FALSE]
  /\ UNCHANGED <<Server, calls, events>>

TrailAnswers ==
  /\ "audit" \in lists
  /\ lists' = lists \ {"audit"}
  /\ panel' = [panel EXCEPT !.log = TrailPage(panel.offset), !.total = Len(trail), !.error = FALSE]
  /\ UNCHANGED <<Server, calls, events>>

ListFails(q) ==
  /\ Event
  /\ q \in lists
  /\ lists' = lists \ {q}
  /\ panel' = [panel EXCEPT !.loading = @ /\ q = "audit", !.error = TRUE]
  /\ UNCHANGED <<Server, calls>>

\* Another view, status or page is another list; a category only hides cards.
Look(p) ==
  /\ Event
  /\ p # panel
  /\ IF Wanted(p) = Wanted(panel) /\ p.offset = panel.offset
     THEN panel' = p /\ UNCHANGED lists ELSE Asks(p)
  /\ UNCHANGED <<Server, calls>>

PickView(v) == Look([panel EXCEPT !.view = v])
PickStatus(f) == panel.view = "recommendations" /\ Look([panel EXCEPT !.filter = f])
PickCategory(c) == panel.view = "recommendations" /\ Look([panel EXCEPT !.category = c])

NextPage ==
  /\ panel.view = "audit" /\ "audit" \notin lists
  /\ panel.offset + AuditPage < panel.total
  /\ Look([panel EXCEPT !.offset = @ + AuditPage])
PreviousPage ==
  /\ panel.view = "audit" /\ "audit" \notin lists
  /\ panel.offset > 0
  /\ Look([panel EXCEPT !.offset = IF @ > AuditPage THEN @ - AuditPage ELSE 0])
Reload ==
  /\ Event
  /\ panel.view = "audit" /\ "audit" \notin lists
  /\ Asks(panel) /\ UNCHANGED <<Server, calls>>

-----------------------------------------------------------------------------
\* Deciding: the buttons of a card and the dialogs.

Offers(c, op) ==
  /\ panel.view = "recommendations" /\ ~panel.loading /\ panel.busy # c.id
  /\ CASE c.status = "proposed" -> op \in {"approve", "reject"}
       [] c.status = "approved" -> op \in {"apply", "reject"}
       [] OTHER -> FALSE

\* The list that will follow is the one of the moment of the click.
Sends(op, c) ==
  calls' = calls \cup {[op |-> op, id |-> c.id, status |-> c.status, version |-> c.version,
                        asks |-> panel.filter]}

\* Approving and applying keep one card busy: the one clicked last.
Click(op, c) ==
  /\ Event
  /\ panel.rejecting = Nothing /\ ~panel.modal
  /\ Offers(c, op)
  /\ IF op = "reject"
     THEN panel' = [panel EXCEPT !.rejecting = c, !.error = FALSE] /\ UNCHANGED calls
     ELSE panel' = [panel EXCEPT !.busy = c.id, !.error = FALSE] /\ Sends(op, c)
  /\ UNCHANGED <<Server, lists>>

Rejecting == \E c \in calls : c.op = "reject"
\* A reason of three characters or more has been typed or picked.
SubmitReject ==
  /\ panel.rejecting # Nothing /\ ~Rejecting
  /\ Sends("reject", panel.rejecting)
  /\ UNCHANGED <<Server, panel, lists, events>>
CloseReject ==
  /\ panel.rejecting # Nothing /\ ~Rejecting
  /\ panel' = [panel EXCEPT !.rejecting = Nothing]
  /\ UNCHANGED <<Server, calls, lists, events>>

\* A card is busy until the list has followed; bound: until it was asked for.
Done(c, p) ==
  /\ calls' = calls \ {c}
  /\ panel' = [p EXCEPT !.busy = IF c.op = "reject" THEN @ ELSE 0]

SameVersion_Unchecked(c) == TRUE
SameVersion(c) == recs[c.id].version = c.version
CallCommits(c, answered) ==
  /\ c \in calls
  /\ SameVersion(c) /\ Carry(c.op, c.id)
  /\ IF answered
     THEN /\ Done(c, [panel EXCEPT !.loading = TRUE, !.rejecting = IF c.op = "reject" THEN Nothing ELSE @])
          /\ lists' = lists \cup {c.asks}
     ELSE Done(c, [panel EXCEPT !.error = TRUE]) /\ UNCHANGED lists
  /\ UNCHANGED events
CallRefused(c) ==
  /\ c \in calls
  /\ ~(SameVersion(c) /\ Legal(c.op, c.id))
  /\ Done(c, [panel EXCEPT !.error = TRUE])
  /\ UNCHANGED <<Server, lists, events>>

GenerateModal(open) ==
  /\ Event
  /\ panel.rejecting = Nothing
  /\ IF open THEN panel.view = "recommendations" /\ ~panel.generating ELSE panel.modal
  /\ panel' = [panel EXCEPT !.modal = open]
  /\ UNCHANGED <<Server, calls, lists>>

handleGenerate(g) ==
  /\ panel.modal /\ ~panel.generating
  /\ gens[g] = NoGen
  /\ gens' = [gens EXCEPT ![g].step = "sent", ![g].mine = TRUE, ![g].asks = panel.filter]
  /\ panel' = [panel EXCEPT !.generating = TRUE, !.error = FALSE]
  /\ UNCHANGED <<dish, recs, trail, calls, lists, events>>

-----------------------------------------------------------------------------
Ops == {"approve", "reject", "apply"}

Next ==
  \/ \E price \in {1, 2} : Reprice(price) \/ OtherCreates("price", price)
  \/ OtherCreates("menu", dish.price) \/ OtherCreates("own", 0)
  \/ \E op \in Ops, i \in 1 .. Len(recs) : OtherManager(op, i)
  \/ \E g \in Generators : \/ OtherGenerates(g) \/ GenLocks(g) \/ handleGenerate(g)
                           \/ \E slow, answered \in BOOLEAN : GenCommits(g, slow, answered)
  \/ \E q \in lists : ListAnswers(q) \/ ListFails(q)
  \/ TrailAnswers \/ NextPage \/ PreviousPage \/ Reload
  \/ \E v \in {"recommendations", "audit"} : PickView(v)
  \/ \E f \in {"all"} \cup Statuses : PickStatus(f)
  \/ \E k \in {"all"} \cup Categories : PickCategory(k)
  \/ \E op \in Ops, c \in filteredRecommendations : Click(op, c)
  \/ SubmitReject \/ CloseReject
  \/ \E open \in BOOLEAN : GenerateModal(open)
  \/ \E c \in calls : CallRefused(c) \/ \E answered \in BOOLEAN : CallCommits(c, answered)

Spec == Init /\ [][Next]_vars

-----------------------------------------------------------------------------
\* A recommendation is applied once, after it was approved, and the price it
\* replaced is the price the dish had when it was written, whatever was edited,
\* applied or clicked twice in between (recommendation_apply).
AppliedAsApproved ==
  \A i \in 1 .. Len(recs) : recs[i].status = "applied" =>
    /\ recs[i].replaced = recs[i].basis
    /\ \E a, b \in 1 .. Len(trail) :
         /\ a < b
         /\ trail[a] = [op |-> "approve", id |-> i]
         /\ \A k \in 1 .. Len(trail) : trail[k] = [op |-> "apply", id |-> i] <=> k = b

\* However many generations run at once, a dish or an ingredient never has two
\* open tasks (the advisory lock of recommendation_generate).
OneOpenPerTarget ==
  \A i, j \in 1 .. Len(recs) : OpenTask(i) /\ OpenTask(j) => i = j

\* A decision made on a card is carried out on the recommendation as the card
\* showed it, whatever the other manager decided since.
ActedOnSeen ==
  [][\A c \in calls \ calls' : recs' # recs => recs[c.id].status = c.status]_vars

=============================================================================
