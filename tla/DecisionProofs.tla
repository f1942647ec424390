---------------------------- MODULE DecisionProofs ----------------------------
(***************************************************************************)
(* Proofs about module DecisionDesk, for any number of recommendations,    *)
(* generations at once, clicks and edits.  The inductive invariant has a   *)
(* part for the server (what the trail, the version of the dish and the    *)
(* lock of the generation say about the recommendations) and a part for    *)
(* the screen (a card, a dialog or a command under way is never ahead of   *)
(* the recommendation, and agrees with it when the versions do).           *)
(***************************************************************************)
EXTENDS DecisionDesk, TLAPS

Dish == [price : Nat, version : Nat \ {0}]
Rec == [kind : Kinds, status : Statuses, version : Nat \ {0}, price : Nat,
        target : Nat, basis : Nat, replaced : Nat]
Row == [op : {"create", "approve", "reject", "apply", "menu_update"}, id : Nat]
Gen == [step : {"none", "sent", "locked"}, finds : BOOLEAN,
        mine : BOOLEAN, asks : {"all"} \cup Statuses]
ACard == [id : Nat \ {0}, kind : Kinds, status : Statuses, version : Nat]
ACall == [op : Ops, id : Nat \ {0}, status : Statuses, version : Nat, asks : {"all"} \cup Statuses]
Shape(p) ==
  p \in [view : {"recommendations", "audit"}, filter : {"all"} \cup Statuses,
         category : {"all"} \cup Categories, cards : SUBSET ACard, busy : Nat,
         rejecting : ACard \cup {Nothing}, modal : BOOLEAN, generating : BOOLEAN,
         offset : {p.offset}, total : {p.total}, log : {p.log}, loading : BOOLEAN, error : BOOLEAN]

\* A dish that has still the version a price was written for has the price, too.
BasisKept ==
  \A i \in 1 .. Len(recs) :
    /\ recs[i].target <= dish.version
    /\ recs[i].target = dish.version => recs[i].basis = dish.price
    /\ recs[i].status = "applied" => recs[i].replaced = recs[i].basis

\* The rows t have one application of i, and an approval before it.
AppliedOnce(t, i) ==
  \E a, b \in 1 .. Len(t) :
    /\ a < b
    /\ t[a] = [op |-> "approve", id |-> i]
    /\ \A k \in 1 .. Len(t) : t[k] = [op |-> "apply", id |-> i] <=> k = b

\* The trail tells who was approved, who was applied, and nothing of others.
TrailTells ==
  /\ \A i \in 1 .. Len(recs) : recs[i].status = "approved" =>
       \E a \in 1 .. Len(trail) : trail[a] = [op |-> "approve", id |-> i]
  /\ \A k \in 1 .. Len(trail) : trail[k].op = "apply" =>
       trail[k].id \in 1 .. Len(recs) /\ recs[trail[k].id].status = "applied"
  /\ \A i \in 1 .. Len(recs) : recs[i].status = "applied" => AppliedOnce(trail, i)

\* The generation that has the lock still knows what is open.
LockTells ==
  /\ \A g, h \in Generators : gens[g].step = "locked" /\ gens[h].step = "locked" => g = h
  /\ \A g \in Generators : gens[g].step = "locked" /\ ~gens[g].finds =>
       \A i \in 1 .. Len(recs) : ~OpenTask(i)

Kept ==
  /\ dish \in Dish /\ recs \in Seq(Rec) /\ Len(recs) <= MaxRecs /\ trail \in Seq(Row)
  /\ BasisKept /\ TrailTells /\ OneOpenPerTarget
GensKept == gens \in [Generators -> Gen] /\ LockTells

\* What was read is not ahead of the recommendation.
Behind(c) ==
  /\ c.id <= Len(recs) /\ c.version <= recs[c.id].version
  /\ c.version = recs[c.id].version => c.status = recs[c.id].status
ScreenKept ==
  /\ Shape(panel) /\ calls \subseteq ACall /\ events \in 0 .. MaxEvents
  /\ \A c \in panel.cards \cup calls : Behind(c)
  /\ panel.rejecting # Nothing => Behind(panel.rejecting)

IInv == Kept /\ GensKept /\ ScreenKept

-----------------------------------------------------------------------------
\* Bookkeeping of the sequences.
LEMMA Appended ==
  ASSUME NEW S, NEW s \in Seq(S), NEW x \in S, NEW t, t = Append(s, x)
  PROVE  /\ t \in Seq(S) /\ Len(t) = Len(s) + 1 /\ t[Len(s) + 1] = x
         /\ \A k \in 1 .. Len(s) : t[k] = s[k]
OBVIOUS

LEMMA AppendedTwo ==
  ASSUME NEW S, NEW s \in Seq(S), NEW x \in S, NEW y \in S, NEW t, t = s \o <<x>> \o <<y>>
  PROVE  /\ t \in Seq(S) /\ Len(t) = Len(s) + 2
         /\ t[Len(s) + 1] = x /\ t[Len(s) + 2] = y
         /\ \A k \in 1 .. Len(s) : t[k] = s[k]
<1>1. s \o <<x>> \in Seq(S) /\ Len(s \o <<x>>) = Len(s) + 1 OBVIOUS
<1>2. (s \o <<x>>)[Len(s) + 1] = x /\ \A k \in 1 .. Len(s) : (s \o <<x>>)[k] = s[k] OBVIOUS
<1> QED BY <1>1, <1>2

LEMMA AppendedOne ==
  ASSUME NEW S, NEW s \in Seq(S), NEW x \in S, NEW t, t = s \o <<>> \o <<x>>
  PROVE  /\ t \in Seq(S) /\ Len(t) = Len(s) + 1 /\ t[Len(s) + 1] = x
         /\ \A k \in 1 .. Len(s) : t[k] = s[k]
<1>1. s \o <<>> = s OBVIOUS
<1> QED BY <1>1

LEMMA Replaced ==
  ASSUME NEW S, NEW s \in Seq(S), NEW i \in 1 .. Len(s), NEW x \in S, NEW t,
         t = [s EXCEPT ![i] = x]
  PROVE  /\ t \in Seq(S) /\ Len(t) = Len(s) /\ t[i] = x
         /\ \A k \in 1 .. Len(s) : k # i => t[k] = s[k]
OBVIOUS

LEMMA OnceStays ==
  ASSUME NEW t \in Seq(Row), NEW u \in Seq(Row), Len(t) <= Len(u),
         \A k \in 1 .. Len(t) : u[k] = t[k],
         NEW i, \A k \in 1 .. Len(u) : k > Len(t) => u[k] # [op |-> "apply", id |-> i],
         AppliedOnce(t, i)
  PROVE  AppliedOnce(u, i)
<1>1. PICK a, b \in 1 .. Len(t) :
        /\ a < b
        /\ t[a] = [op |-> "approve", id |-> i]
        /\ \A k \in 1 .. Len(t) : t[k] = [op |-> "apply", id |-> i] <=> k = b
  BY DEF AppliedOnce
<1>2. a \in 1 .. Len(u) /\ b \in 1 .. Len(u) OBVIOUS
<1>3. u[a] = [op |-> "approve", id |-> i] BY <1>1
<1>4. ASSUME NEW k \in 1 .. Len(u)
      PROVE  u[k] = [op |-> "apply", id |-> i] <=> k = b
  <2>1. CASE k \in 1 .. Len(t) BY <1>1, <2>1
  <2>2. CASE k > Len(t) BY <2>2
  <2> QED BY <2>1, <2>2
<1> QED BY <1>1, <1>2, <1>3, <1>4 DEF AppliedOnce

-----------------------------------------------------------------------------
\* The three ways in which the server's tables change.

\* A recommendation is added: open, written for the dish as it is.
LEMMA AddedKept ==
  ASSUME Kept, NEW r \in Rec, r.status = "proposed",
         r.target <= dish.version, r.target = dish.version => r.basis = dish.price,
         r.kind = "task" => \A i \in 1 .. Len(recs) : ~OpenTask(i),
         Len(recs) < MaxRecs, MaxRecs \in Nat,
         recs' = Append(recs, r), Audited("create", Len(recs) + 1), UNCHANGED dish
  PROVE  /\ Kept'
         /\ r.kind # "task" => \A i \in 1 .. Len(recs') : OpenTask(i)' =>
              i \in 1 .. Len(recs) /\ OpenTask(i)
         /\ \A c \in ACard \cup ACall : Behind(c) => Behind(c)'
<1> DEFINE n == Len(recs)  row == [op |-> "create", id |-> n + 1]
<1>1. n \in Nat /\ recs \in Seq(Rec) /\ trail \in Seq(Row) /\ row \in Row BY DEF Kept, Row
<1>2. /\ recs' \in Seq(Rec) /\ Len(recs') = n + 1 /\ recs'[n + 1] = r
      /\ \A i \in 1 .. n : recs'[i] = recs[i]
  BY <1>1, Appended
<1>3. /\ trail' \in Seq(Row) /\ Len(trail') = Len(trail) + 1 /\ trail'[Len(trail) + 1] = row
      /\ \A k \in 1 .. Len(trail) : trail'[k] = trail[k]
  <2>1. trail' = Append(trail, row) BY DEF Audited
  <2> QED BY <1>1, <2>1, Appended
<1>4. /\ 1 .. n + 1 = 1 .. n \cup {n + 1} /\ Len(trail) \in Nat
      /\ 1 .. Len(trail) + 1 = 1 .. Len(trail) \cup {Len(trail) + 1}
  BY <1>1
<1> HIDE DEF n
<1>5. BasisKept' BY <1>2, <1>4 DEF Kept, BasisKept, n
<1>6. TrailTells'
  <2>1. ASSUME NEW i \in 1 .. Len(recs'), recs'[i].status = "approved"
        PROVE  \E a \in 1 .. Len(trail') : trail'[a] = [op |-> "approve", id |-> i]
    <3>1. i \in 1 .. n /\ recs[i].status = "approved" BY <1>2, <1>4, <2>1
    <3>2. PICK a \in 1 .. Len(trail) : trail[a] = [op |-> "approve", id |-> i]
      BY <3>1 DEF Kept, TrailTells, n
    <3> QED BY <1>3, <1>4, <3>2
  <2>2. ASSUME NEW k \in 1 .. Len(trail'), trail'[k].op = "apply"
        PROVE  trail'[k].id \in 1 .. Len(recs') /\ recs'[trail'[k].id].status = "applied"
    <3>1. k \in 1 .. Len(trail) BY <1>3, <1>4, <2>2
    <3>2. trail[k].id \in 1 .. n /\ recs[trail[k].id].status = "applied"
      BY <1>3, <2>2, <3>1 DEF Kept, TrailTells, n
    <3> QED BY <1>2, <1>3, <1>4, <3>1, <3>2
  <2>3. ASSUME NEW i \in 1 .. Len(recs'), recs'[i].status = "applied"
        PROVE  AppliedOnce(trail', i)
    <3>1. i \in 1 .. n /\ recs[i].status = "applied" BY <1>2, <1>4, <2>3
    <3>2. AppliedOnce(trail, i) BY <3>1 DEF Kept, TrailTells, n
    <3>3. row # [op |-> "apply", id |-> i] BY DEF row
    <3>4. \A k \in 1 .. Len(trail') : k > Len(trail) => trail'[k] # [op |-> "apply", id |-> i]
      BY <1>3, <1>4, <3>3
    <3>5. trail' \in Seq(Row) /\ Len(trail) <= Len(trail') BY <1>3, <1>4
    <3>6. \A k \in 1 .. Len(trail) : trail'[k] = trail[k] BY <1>3
    <3> QED BY <1>1, <3>2, <3>4, <3>5, <3>6, OnceStays, Zenon
  <2> QED BY <2>1, <2>2, <2>3 DEF TrailTells
<1>7. r.kind # "task" => \A i \in 1 .. Len(recs') : OpenTask(i)' => i \in 1 .. n /\ OpenTask(i)
  BY <1>2, <1>4 DEF OpenTask
<1>8. OneOpenPerTarget'
  <2>1. CASE r.kind # "task"
    BY <1>2, <1>7, <2>1 DEF Kept, OneOpenPerTarget, OpenTask, n
  <2>2. CASE r.kind = "task"
    <3>1. \A i \in 1 .. n : ~OpenTask(i)' BY <1>2, <2>2 DEF OpenTask, n
    <3> QED BY <1>2, <1>4, <3>1 DEF OneOpenPerTarget
  <2> QED BY <2>1, <2>2
<1>9. ASSUME NEW c \in ACard \cup ACall, Behind(c) PROVE Behind(c)'
  <2>1. c.id \in 1 .. n BY <1>1, <1>9 DEF ACard, ACall, Behind, n
  <2> QED BY <1>1, <1>2, <1>9, <2>1 DEF Behind, n
<1> QED BY <1>1, <1>2, <1>3, <1>5, <1>6, <1>7, <1>8, <1>9 DEF Kept, n

\* The dish is edited, and nothing else.
LEMMA RepricedKept ==
  ASSUME Kept, NEW price \in Nat,
         dish' = [price |-> price, version |-> dish.version + 1],
         Audited("menu_update", 0), UNCHANGED recs
  PROVE  Kept'
<1> DEFINE row == [op |-> "menu_update", id |-> 0]
<1>1. dish \in Dish /\ trail \in Seq(Row) /\ row \in Row BY DEF Kept, Row
<1>2. /\ trail' \in Seq(Row) /\ Len(trail') = Len(trail) + 1 /\ trail'[Len(trail) + 1] = row
      /\ \A k \in 1 .. Len(trail) : trail'[k] = trail[k]
  <2>1. trail' = Append(trail, row) BY DEF Audited
  <2> QED BY <1>1, <2>1, Appended
<1>3. Len(trail) \in Nat /\ 1 .. Len(trail) + 1 = 1 .. Len(trail) \cup {Len(trail) + 1} BY <1>1
<1>4. dish' \in Dish /\ dish'.version = dish.version + 1 /\ dish.version \in Nat BY <1>1 DEF Dish
<1>5. BasisKept'
  <2> SUFFICES ASSUME NEW i \in 1 .. Len(recs)
               PROVE  /\ recs[i].target <= dish'.version /\ recs[i].target # dish'.version
                      /\ recs[i].status = "applied" => recs[i].replaced = recs[i].basis
    BY DEF BasisKept
  <2>1. recs[i] \in Rec BY DEF Kept
  <2>2. recs[i].target \in Nat BY <2>1 DEF Rec
  <2> QED BY <1>4, <2>2 DEF Kept, BasisKept
<1>6. TrailTells'
  <2>1. ASSUME NEW i \in 1 .. Len(recs), recs[i].status = "approved"
        PROVE  \E a \in 1 .. Len(trail') : trail'[a] = [op |-> "approve", id |-> i]
    <3>1. PICK a \in 1 .. Len(trail) : trail[a] = [op |-> "approve", id |-> i]
      BY <2>1 DEF Kept, TrailTells
    <3> QED BY <1>2, <1>3, <3>1
  <2>2. ASSUME NEW k \in 1 .. Len(trail'), trail'[k].op = "apply"
        PROVE  trail'[k].id \in 1 .. Len(recs) /\ recs[trail'[k].id].status = "applied"
    <3>1. k \in 1 .. Len(trail) BY <1>2, <1>3, <2>2
    <3> QED BY <1>2, <2>2, <3>1 DEF Kept, TrailTells
  <2>3. ASSUME NEW i \in 1 .. Len(recs), recs[i].status = "applied"
        PROVE  AppliedOnce(trail', i)
    <3>1. AppliedOnce(trail, i) BY <2>3 DEF Kept, TrailTells
    <3>2. row # [op |-> "apply", id |-> i] BY DEF row
    <3>3. \A k \in 1 .. Len(trail') : k > Len(trail) => trail'[k] # [op |-> "apply", id |-> i]
      BY <1>2, <1>3, <3>2
    <3>4. trail' \in Seq(Row) /\ Len(trail) <= Len(trail') BY <1>2, <1>3
    <3>5. \A k \in 1 .. Len(trail) : trail'[k] = trail[k] BY <1>2
    <3> QED BY <1>1, <3>1, <3>3, <3>4, <3>5, OnceStays, Zenon
  <2> QED BY <2>1, <2>2, <2>3 DEF TrailTells
<1> QED BY <1>1, <1>2, <1>4, <1>5, <1>6 DEF Kept, OneOpenPerTarget, OpenTask


\* A recommendation is decided: its version moves, and a task stays closed.
LEMMA CarriedKept ==
  ASSUME Kept, NEW op \in Ops, NEW i \in Nat, Carry(op, i)
  PROVE  /\ Kept'
         /\ \A j \in 1 .. Len(recs') : OpenTask(j)' => j \in 1 .. Len(recs) /\ OpenTask(j)
         /\ \A c \in ACard \cup ACall : Behind(c) => Behind(c)'
<1> DEFINE n == Len(recs)  row == [op |-> op, id |-> i]
           edit == [op |-> "menu_update", id |-> 0]
<1>1. /\ n \in Nat /\ recs \in Seq(Rec) /\ trail \in Seq(Row) /\ row \in Row /\ edit \in Row
      /\ i \in 1 .. n /\ recs[i] \in Rec /\ dish \in Dish /\ Len(trail) \in Nat
  BY DEF Kept, Row, Ops, Carry, Legal
<1>2. /\ op = "approve" => recs[i].status = "proposed" /\ Approve(i)
      /\ op = "reject" => recs[i].status \in Open /\ Reject(i)
      /\ op = "apply" => MayApply(i) /\ Apply(i)
  BY DEF Carry, Legal
<1> DEFINE new == recs'[i]
<1>3. /\ new \in Rec /\ recs' = [recs EXCEPT ![i] = new]
      /\ op = "approve" => new.status = "approved"
      /\ op = "reject" => new.status = "rejected"
      /\ op = "apply" => new.status = "applied"
      /\ new.version = recs[i].version + 1 /\ new.kind = recs[i].kind
      /\ new.target = recs[i].target /\ new.basis = recs[i].basis
      /\ op = "apply" => new.replaced = dish.price
  <2>1. recs[i].version + 1 \in Nat \ {0}
    <3>1. recs[i].version \in Nat BY <1>1 DEF Rec
    <3> QED BY <3>1
  <2>2. CASE op = "approve"
    <3> DEFINE x == [recs[i] EXCEPT !.status = "approved", !.version = @ + 1]
    <3>1. recs' = [recs EXCEPT ![i] = x] BY <1>1, <1>2, <2>2 DEF Approve, Decided
    <3>3. x \in Rec BY <1>1, <2>1, Zenon DEF Rec, Statuses
    <3>4. /\ x.status = "approved" /\ x.version = recs[i].version + 1 /\ x.kind = recs[i].kind
          /\ x.target = recs[i].target /\ x.basis = recs[i].basis
      BY <1>1 DEF Rec
    <3> HIDE DEF x
    <3>5. new = x BY <1>1, <3>1, <3>3, Replaced
    <3> QED BY <2>2, <3>1, <3>3, <3>4, <3>5
  <2>3. CASE op = "reject"
    <3> DEFINE x == [recs[i] EXCEPT !.status = "rejected", !.version = @ + 1]
    <3>1. recs' = [recs EXCEPT ![i] = x] BY <1>1, <1>2, <2>3 DEF Reject, Decided
    <3>3. x \in Rec BY <1>1, <2>1, Zenon DEF Rec, Statuses
    <3>4. /\ x.status = "rejected" /\ x.version = recs[i].version + 1 /\ x.kind = recs[i].kind
          /\ x.target = recs[i].target /\ x.basis = recs[i].basis
      BY <1>1 DEF Rec
    <3> HIDE DEF x
    <3>5. new = x BY <1>1, <3>1, <3>3, Replaced
    <3> QED BY <2>3, <3>1, <3>3, <3>4, <3>5
  <2>4. CASE op = "apply"
    <3> DEFINE x == [recs[i] EXCEPT !.status = "applied", !.version = @ + 1, !.replaced = dish.price]
    <3>1. recs' = [recs EXCEPT ![i] = x] BY <1>1, <1>2, <2>4 DEF Apply
    <3>2. dish.price \in Nat BY <1>1 DEF Dish
    <3>3. x \in Rec BY <1>1, <2>1, <3>2, Zenon DEF Rec, Statuses
    <3>4. /\ x.status = "applied" /\ x.version = recs[i].version + 1 /\ x.kind = recs[i].kind
          /\ x.target = recs[i].target /\ x.basis = recs[i].basis
          /\ x.replaced = dish.price
      BY <1>1 DEF Rec
    <3> HIDE DEF x
    <3>5. new = x BY <1>1, <3>1, <3>3, Replaced
    <3> QED BY <2>4, <3>1, <3>3, <3>4, <3>5
  <2> QED BY <2>2, <2>3, <2>4 DEF Ops
<1> HIDE DEF new
<1>4. /\ recs' \in Seq(Rec) /\ Len(recs') = n /\ recs'[i] = new
      /\ \A k \in 1 .. n : k # i => recs'[k] = recs[k]
  BY <1>1, <1>3, Replaced
<1>5. /\ op = "apply" => dish' = [price |-> recs[i].price, version |-> dish.version + 1]
      /\ op # "apply" => dish' = dish
  BY <1>2 DEF Apply, Approve, Reject, Ops
<1>6. /\ trail' \in Seq(Row) /\ Len(trail') \in Nat /\ Len(trail') > Len(trail)
      /\ trail'[Len(trail')] = row
      /\ \A k \in 1 .. Len(trail) : trail'[k] = trail[k]
      /\ \A k \in 1 .. Len(trail') : k > Len(trail) /\ k # Len(trail') => trail'[k] = edit
  <2>1. CASE op = "apply"
    <3>1. trail' = trail \o <<edit>> \o <<row>> BY <2>1 DEF Carry
    <3> QED BY <1>1, <3>1, AppendedTwo
  <2>2. CASE op # "apply"
    <3>1. trail' = trail \o <<>> \o <<row>> BY <2>2 DEF Carry
    <3> QED BY <1>1, <3>1, AppendedOne
  <2> QED BY <2>1, <2>2
<1>7. recs[i].status # "applied" BY <1>2 DEF MayApply, Open, Ops
<1> HIDE DEF n
<1>8. dish' \in Dish
  <2>1. recs[i].price \in Nat BY <1>1 DEF Rec
  <2>2. dish.version \in Nat BY <1>1 DEF Dish
  <2>3. dish.version + 1 \in Nat \ {0} BY <2>2
  <2>4. [price |-> recs[i].price, version |-> dish.version + 1] \in Dish
    BY <2>1, <2>3, Zenon DEF Dish
  <2> QED BY <1>1, <1>5, <2>4
<1>9. BasisKept'
  <2> SUFFICES ASSUME NEW k \in 1 .. n
               PROVE  /\ recs'[k].target <= dish'.version
                      /\ recs'[k].target = dish'.version => recs'[k].basis = dish'.price
                      /\ recs'[k].status = "applied" => recs'[k].replaced = recs'[k].basis
    BY <1>4 DEF BasisKept, n
  <2>1. /\ recs[k].target <= dish.version
        /\ recs[k].target = dish.version => recs[k].basis = dish.price
        /\ recs[k].status = "applied" => recs[k].replaced = recs[k].basis
    BY DEF Kept, BasisKept, n
  <2>2. recs[k] \in Rec BY <1>1 DEF n
  <2>3. recs[k].target \in Nat /\ dish.version \in Nat BY <1>1, <2>2 DEF Rec, Dish
  <2>4. recs'[k].target = recs[k].target /\ recs'[k].basis = recs[k].basis BY <1>3, <1>4
  <2>5. op = "apply" => dish'.version = dish.version + 1 BY <1>5
  <2>6. recs'[k].status = "applied" => recs'[k].replaced = recs'[k].basis
    <3>1. CASE k # i BY <1>4, <2>1, <3>1
    <3>2. CASE k = i /\ op = "apply"
      <4>1. recs[i].target = dish.version BY <1>2, <3>2 DEF MayApply, SameTarget
      <4> QED BY <1>3, <1>4, <2>1, <2>4, <3>2, <4>1
    <3>3. CASE k = i /\ op # "apply" BY <1>3, <1>4, <3>3 DEF Ops
    <3> QED BY <3>1, <3>2, <3>3
  <2> QED BY <1>5, <2>1, <2>3, <2>4, <2>5, <2>6
<1>10. TrailTells'
  <2>1. ASSUME NEW k \in 1 .. n, recs'[k].status = "approved"
        PROVE  \E a \in 1 .. Len(trail') : trail'[a] = [op |-> "approve", id |-> k]
    <3>1. CASE k = i
      <4>1. op = "approve" BY <1>3, <1>4, <2>1, <3>1 DEF Ops
      <4> QED BY <1>1, <1>6, <3>1, <4>1
    <3>2. CASE k # i
      <4>1. recs[k].status = "approved" BY <1>4, <2>1, <3>2
      <4>2. PICK a \in 1 .. Len(trail) : trail[a] = [op |-> "approve", id |-> k]
        BY <4>1 DEF Kept, TrailTells, n
      <4> QED BY <1>1, <1>6, <4>2
    <3> QED BY <3>1, <3>2
  <2>2. ASSUME NEW k \in 1 .. Len(trail'), trail'[k].op = "apply"
        PROVE  trail'[k].id \in 1 .. n /\ recs'[trail'[k].id].status = "applied"
    <3>1. CASE k \in 1 .. Len(trail)
      <4>1. trail[k].id \in 1 .. n /\ recs[trail[k].id].status = "applied"
        BY <1>6, <2>2, <3>1 DEF Kept, TrailTells, n
      <4>2. trail[k].id # i BY <1>7, <4>1
      <4> QED BY <1>4, <1>6, <3>1, <4>1, <4>2
    <3>2. CASE k = Len(trail') BY <1>1, <1>3, <1>4, <1>6, <2>2, <3>2
    <3>3. CASE k > Len(trail) /\ k # Len(trail') BY <1>6, <2>2, <3>3
    <3> QED BY <1>1, <1>6, <3>1, <3>2, <3>3
  <2>3. ASSUME NEW k \in 1 .. n, recs'[k].status = "applied"
        PROVE  AppliedOnce(trail', k)
    <3>1. CASE k # i
      <4>1. AppliedOnce(trail, k) BY <1>4, <2>3, <3>1 DEF Kept, TrailTells, n
      <4>2. row # [op |-> "apply", id |-> k] /\ edit # [op |-> "apply", id |-> k] BY <3>1
      <4>3. \A m \in 1 .. Len(trail') : m > Len(trail) => trail'[m] # [op |-> "apply", id |-> k]
        BY <1>6, <4>2
      <4> QED BY <1>1, <1>6, <4>1, <4>3, OnceStays
    <3>2. CASE k = i
      <4>1. op = "apply" BY <1>3, <1>4, <2>3, <3>2 DEF Ops
      <4>2. recs[i].status = "approved" BY <1>2, <4>1 DEF MayApply
      <4>3. PICK a \in 1 .. Len(trail) : trail[a] = [op |-> "approve", id |-> i]
        BY <1>1, <4>2 DEF Kept, TrailTells, n
      <4>4. ASSUME NEW m \in 1 .. Len(trail'), trail'[m] = [op |-> "apply", id |-> i]
            PROVE  m = Len(trail')
        <5>1. CASE m \in 1 .. Len(trail)
          <6>1. trail[m].op = "apply" /\ trail[m].id = i BY <1>6, <4>4, <5>1
          <6> QED BY <1>7, <5>1, <6>1 DEF Kept, TrailTells
        <5>2. CASE m > Len(trail) BY <1>6, <4>4, <5>2
        <5> QED BY <1>1, <5>1, <5>2
      <4>5. a \in 1 .. Len(trail') /\ Len(trail') \in 1 .. Len(trail') /\ a < Len(trail')
        BY <1>1, <1>6
      <4>6. trail'[a] = [op |-> "approve", id |-> i] BY <1>6, <4>3
      <4>7. trail'[Len(trail')] = [op |-> "apply", id |-> i] BY <1>6, <4>1
      <4> QED BY <3>2, <4>4, <4>5, <4>6, <4>7 DEF AppliedOnce
    <3> QED BY <3>1, <3>2
  <2> QED BY <1>4, <2>1, <2>2, <2>3 DEF TrailTells, n
<1>11. ASSUME NEW j \in 1 .. Len(recs'), OpenTask(j)' PROVE j \in 1 .. n /\ OpenTask(j)
  BY <1>1, <1>2, <1>3, <1>4, <1>11 DEF OpenTask, MayApply, Open, Ops, n
<1>12. OneOpenPerTarget' BY <1>11 DEF Kept, OneOpenPerTarget, n
<1>13. ASSUME NEW c \in ACard \cup ACall, Behind(c) PROVE Behind(c)'
  <2>1. c.id \in 1 .. n /\ c.version \in Nat BY <1>1, <1>13 DEF ACard, ACall, Behind, n
  <2>2. recs[i].version \in Nat BY <1>1 DEF Rec
  <2> QED BY <1>3, <1>4, <1>13, <2>1, <2>2 DEF Behind, n
<1> QED BY <1>4, <1>6, <1>8, <1>9, <1>10, <1>11, <1>12, <1>13 DEF Kept, n


-----------------------------------------------------------------------------
\* A step of the screen: what is shown, asked or sent is not ahead of the
\* recommendations as they were before the step.
ScreenMoves ==
  /\ Shape(panel') /\ calls' \subseteq ACall /\ events' \in 0 .. MaxEvents
  /\ \A c \in panel'.cards \cup calls' : Behind(c)
  /\ panel'.rejecting # Nothing => Behind(panel'.rejecting)

LEMMA ScreenMoved ==
  ASSUME ScreenMoves, \A c \in ACard \cup ACall : Behind(c) => Behind(c)'
  PROVE  ScreenKept'
<1>1. panel'.cards \subseteq ACard /\ (panel'.rejecting # Nothing => panel'.rejecting \in ACard)
  BY DEF ScreenMoves, Shape
<1>2. ASSUME NEW c \in panel'.cards \cup calls' PROVE Behind(c)'
  <2>1. c \in ACard \cup ACall /\ Behind(c) BY <1>1 DEF ScreenMoves
  <2> QED BY <2>1
<1>3. ASSUME panel'.rejecting # Nothing
      PROVE  (Behind(panel.rejecting))'
  <2> DEFINE c == panel'.rejecting
  <2>1. c \in ACard /\ Behind(c) BY <1>1, <1>3 DEF ScreenMoves
  <2>2. c.id <= Len(recs') /\ c.version <= recs'[c.id].version
    BY <2>1 DEF Behind
  <2>3. c.version = recs'[c.id].version => c.status = recs'[c.id].status
    BY <2>1 DEF Behind
  <2> QED BY <2>2, <2>3 DEF Behind
<1> QED BY <1>2, <1>3 DEF ScreenMoves, ScreenKept

LEMMA GensStay ==
  ASSUME GensKept, UNCHANGED gens,
         \A j \in 1 .. Len(recs') : OpenTask(j)' => j \in 1 .. Len(recs) /\ OpenTask(j)
  PROVE  GensKept'
BY DEF GensKept, LockTells

\* Steps that leave the server alone.
LEMMA ScreenOnly ==
  ASSUME IInv, UNCHANGED Server, ScreenMoves
  PROVE  IInv'
<1>1. UNCHANGED <<dish, recs, trail, gens>> BY DEF Server
<1>2. Kept' BY <1>1 DEF IInv, Kept, BasisKept, TrailTells, OneOpenPerTarget, OpenTask
<1>3. \A j \in 1 .. Len(recs') : OpenTask(j)' => j \in 1 .. Len(recs) /\ OpenTask(j)
  BY <1>1 DEF OpenTask
<1>4. \A c \in ACard \cup ACall : Behind(c) => Behind(c)' BY <1>1 DEF Behind
<1>5. GensKept' BY <1>1, <1>3, GensStay DEF IInv
<1>6. ScreenKept' BY <1>4, ScreenMoved
<1> QED BY <1>2, <1>5, <1>6 DEF IInv

LEMMA Counted ==
  ASSUME Event, MaxEvents \in Nat, events \in 0 .. MaxEvents
  PROVE  events' \in 0 .. MaxEvents
BY DEF Event

\* Steps of the server that leave the screen alone.
LEMMA ServerOnly ==
  ASSUME IInv, MaxEvents \in Nat, UNCHANGED <<panel, calls>>, Event \/ UNCHANGED events,
         \A c \in ACard \cup ACall : Behind(c) => Behind(c)'
  PROVE  ScreenKept'
<1>1. events' \in 0 .. MaxEvents BY Counted DEF IInv, ScreenKept
<1>2. ScreenMoves BY <1>1 DEF IInv, ScreenKept, ScreenMoves
<1> QED BY <1>2, ScreenMoved

-----------------------------------------------------------------------------
\* The dish, the other managers and the generations.
LEMMA RepriceIInv ==
  ASSUME IInv, MaxEvents \in Nat, NEW price \in Nat, Reprice(price)
  PROVE  IInv'
<1>1. Kept' BY RepricedKept DEF Reprice, IInv
<1>2. UNCHANGED <<recs, gens, panel, calls>> /\ Event BY DEF Reprice
<1>3. GensKept' BY <1>2, GensStay DEF IInv, OpenTask
<1>4. ScreenKept' BY <1>2, ServerOnly DEF Behind
<1> QED BY <1>1, <1>3, <1>4 DEF IInv

LEMMA OtherCreatesIInv ==
  ASSUME IInv, MaxEvents \in Nat, MaxRecs \in Nat,
         NEW kind \in Kinds \ {"task"}, NEW price \in Nat, OtherCreates(kind, price)
  PROVE  IInv'
<1> DEFINE r == NewRec(kind, price)
<1>1. /\ r \in Rec /\ r.status = "proposed" /\ r.kind # "task"
      /\ r.target \in {0, dish.version} /\ r.basis = dish.price
  <2>1. dish.price \in Nat /\ dish.version \in Nat BY DEF IInv, Kept, Dish
  <2>2. r = [kind |-> kind, status |-> "proposed", version |-> 1, price |-> price,
             target |-> IF kind \in Changes THEN dish.version ELSE 0,
             basis |-> dish.price, replaced |-> 0]
    BY DEF NewRec
  <2>3. 1 \in Nat \ {0} /\ 0 \in Nat OBVIOUS
  <2> HIDE DEF r
  <2>4. r.target \in {0, dish.version} /\ r.kind = kind BY <2>2
  <2>5. kind \in Kinds /\ kind # "task" /\ "proposed" \in Statuses BY DEF Statuses
  <2>6. r \in Rec BY <2>1, <2>2, <2>3, <2>5 DEF Rec
  <2> QED BY <2>2, <2>4, <2>5, <2>6
<1>2. /\ Len(recs) < MaxRecs /\ recs' = Append(recs, r) /\ Audited("create", Len(recs) + 1)
      /\ UNCHANGED <<dish, gens, panel, calls>> /\ Event
  BY DEF OtherCreates, Create
<1>3. r.target <= dish.version BY <1>1 DEF IInv, Kept, Dish
<1> HIDE DEF r
<1>4. /\ Kept'
      /\ \A i \in 1 .. Len(recs') : OpenTask(i)' => i \in 1 .. Len(recs) /\ OpenTask(i)
      /\ \A c \in ACard \cup ACall : Behind(c) => Behind(c)'
  BY <1>1, <1>2, <1>3, AddedKept DEF IInv
<1>5. GensKept' BY <1>2, <1>4, GensStay DEF IInv
<1>6. ScreenKept' BY <1>2, <1>4, ServerOnly
<1> QED BY <1>4, <1>5, <1>6 DEF IInv

LEMMA OtherManagerIInv ==
  ASSUME IInv, MaxEvents \in Nat, NEW op \in Ops, NEW i \in Nat, OtherManager(op, i)
  PROVE  IInv'
<1>1. Carry(op, i) /\ UNCHANGED <<gens, panel, calls>> /\ Event BY DEF OtherManager, Carry
<1>2. /\ Kept'
      /\ \A j \in 1 .. Len(recs') : OpenTask(j)' => j \in 1 .. Len(recs) /\ OpenTask(j)
      /\ \A c \in ACard \cup ACall : Behind(c) => Behind(c)'
  BY <1>1, CarriedKept DEF IInv
<1>3. GensKept' BY <1>1, <1>2, GensStay DEF IInv
<1>4. ScreenKept' BY <1>1, <1>2, ServerOnly
<1> QED BY <1>2, <1>3, <1>4 DEF IInv

\* One generation moves, and the recommendations stay.
LEMMA GenMoved ==
  ASSUME GensKept, NEW g \in Generators, NEW x \in Gen, gens' = [gens EXCEPT ![g] = x],
         UNCHANGED recs,
         x.step = "locked" => Unlocked /\ (x.finds <=> \E i \in 1 .. Len(recs) : OpenTask(i))
  PROVE  GensKept'
<1>1. /\ gens' \in [Generators -> Gen] /\ gens'[g] = x
      /\ \A h \in Generators \ {g} : gens'[h] = gens[h]
  BY DEF GensKept
<1>2. \A i : OpenTask(i)' <=> OpenTask(i) BY DEF OpenTask
<1>3. ASSUME NEW h \in Generators, NEW k \in Generators,
             gens'[h].step = "locked", gens'[k].step = "locked"
      PROVE  h = k
  BY <1>1, <1>3 DEF GensKept, LockTells, Unlocked
<1>4. ASSUME NEW h \in Generators, gens'[h].step = "locked", ~gens'[h].finds
      PROVE  \A i \in 1 .. Len(recs') : ~OpenTask(i)'
  <2>1. CASE h = g BY <1>1, <1>2, <1>4, <2>1
  <2>2. CASE h # g BY <1>1, <1>2, <1>4, <2>2 DEF GensKept, LockTells
  <2> QED BY <2>1, <2>2
<1> QED BY <1>1, <1>3, <1>4 DEF GensKept, LockTells

\* The generation that had the lock gives it up.
LEMMA GenDone ==
  ASSUME GensKept, NEW g \in Generators, gens[g].step = "locked",
         gens' = [gens EXCEPT ![g] = NoGen]
  PROVE  GensKept'
<1>1. NoGen \in Gen /\ NoGen.step = "none" BY DEF NoGen, Gen
<1>2. /\ gens' \in [Generators -> Gen] /\ gens'[g] = NoGen
      /\ \A h \in Generators \ {g} : gens'[h] = gens[h]
  BY <1>1 DEF GensKept
<1>3. \A h \in Generators : gens'[h].step # "locked" BY <1>1, <1>2 DEF GensKept, LockTells
<1> QED BY <1>2, <1>3 DEF GensKept, LockTells

LEMMA KeptStays ==
  ASSUME Kept, UNCHANGED <<dish, recs, trail>>
  PROVE  Kept' /\ \A c \in ACard \cup ACall : Behind(c) => Behind(c)'
BY DEF Kept, BasisKept, TrailTells, OneOpenPerTarget, OpenTask, Behind

LEMMA OtherGeneratesIInv ==
  ASSUME IInv, MaxEvents \in Nat, NEW g \in Generators, OtherGenerates(g)
  PROVE  IInv'
<1> DEFINE x == [gens[g] EXCEPT !.step = "sent"]
<1>1. UNCHANGED <<dish, recs, trail, panel, calls>> /\ Event /\ gens' = [gens EXCEPT ![g] = x]
  BY DEF OtherGenerates
<1>2. gens[g] \in Gen BY DEF IInv, GensKept
<1>3. x \in Gen /\ x.step # "locked" BY <1>2 DEF Gen
<1> HIDE DEF x
<1>4. GensKept' BY <1>1, <1>3, GenMoved DEF IInv
<1>5. Kept' /\ ScreenKept' BY <1>1, KeptStays, ServerOnly DEF IInv
<1> QED BY <1>4, <1>5 DEF IInv

LEMMA GenLocksIInv ==
  ASSUME IInv, MaxEvents \in Nat, NEW g \in Generators, GenLocks(g)
  PROVE  IInv'
<1> DEFINE found == \E i \in 1 .. Len(recs) : OpenTask(i)
           x == [gens[g] EXCEPT !.step = "locked", !.finds = found]
<1>1. gens[g] \in Gen BY DEF IInv, GensKept
<1>2. /\ UNCHANGED <<dish, recs, trail, panel, calls, events>> /\ Unlocked
      /\ gens' = [gens EXCEPT ![g] = x]
  BY <1>1 DEF GenLocks, IInv, GensKept
<1>3. found \in BOOLEAN OBVIOUS
<1>4. x \in Gen /\ x.step = "locked" /\ x.finds = found BY <1>1, <1>3, Zenon DEF Gen
<1> HIDE DEF x
<1>5. GensKept' BY <1>2, <1>4, GenMoved DEF IInv
<1>6. Kept' /\ ScreenKept' BY <1>2, KeptStays, ServerOnly DEF IInv
<1> QED BY <1>5, <1>6 DEF IInv

LEMMA handleGenerateIInv ==
  ASSUME IInv, NEW g \in Generators, handleGenerate(g)
  PROVE  IInv'
<1> DEFINE x == [gens[g] EXCEPT !.step = "sent", !.mine = TRUE, !.asks = panel.filter]
           p == [panel EXCEPT !.generating = TRUE, !.error = FALSE]
<1>1. gens[g] \in Gen /\ panel.filter \in {"all"} \cup Statuses
  BY DEF IInv, GensKept, ScreenKept, Shape
<1>2. /\ UNCHANGED <<dish, recs, trail, calls, events>>
      /\ gens' = [gens EXCEPT ![g] = x] /\ panel' = p
  BY <1>1 DEF handleGenerate, IInv, GensKept
<1>3. x \in Gen /\ x.step # "locked" BY <1>1 DEF Gen
<1>4. Shape(p) /\ p.cards = panel.cards /\ p.rejecting = panel.rejecting
  BY DEF Shape, IInv, ScreenKept
<1> HIDE DEF x, p
<1>5. GensKept' BY <1>2, <1>3, GenMoved DEF IInv
<1>6. ScreenMoves BY <1>2, <1>4 DEF ScreenMoves, IInv, ScreenKept
<1>7. Kept' /\ ScreenKept' BY <1>2, <1>6, KeptStays, ScreenMoved DEF IInv
<1> QED BY <1>5, <1>7 DEF IInv

\* What a generation proposes is a task, and it found none open.
LEMMA GenCommitsIInv ==
  ASSUME IInv, MaxEvents \in Nat, MaxRecs \in Nat, NEW g \in Generators,
         NEW slow \in BOOLEAN, NEW answered \in BOOLEAN, GenCommits(g, slow, answered)
  PROVE  IInv'
<1>1. gens[g].step = "locked" /\ gens' = [gens EXCEPT ![g] = NoGen] /\ UNCHANGED <<dish, calls, events>>
  BY DEF GenCommits
<1>2. GensKept' BY <1>1, GenDone DEF IInv
<1>3. Kept' /\ \A c \in ACard \cup ACall : Behind(c) => Behind(c)'
  <2>1. CASE Proposes(g, slow)
    <3> DEFINE r == NewRec("task", 0)
    <3>1. /\ recs' = Append(recs, r) /\ Audited("create", Len(recs) + 1)
          /\ Len(recs) < MaxRecs /\ ~gens[g].finds
      BY <2>1 DEF GenCommits, Proposes
    <3>2. \A i \in 1 .. Len(recs) : ~OpenTask(i) BY <1>1, <3>1 DEF IInv, GensKept, LockTells
    <3>3. dish.price \in Nat /\ dish.version \in Nat /\ dish.version > 0
      BY DEF IInv, Kept, Dish
    <3>4. r = [kind |-> "task", status |-> "proposed", version |-> 1, price |-> 0,
               target |-> 0, basis |-> dish.price, replaced |-> 0]
      BY DEF NewRec, Changes
    <3>5. 1 \in Nat \ {0} /\ 0 \in Nat OBVIOUS
    <3> HIDE DEF r
    <3>6. r \in Rec BY <3>3, <3>4, <3>5, Zenon DEF Rec, Kinds, Statuses
    <3>7. r.status = "proposed" /\ r.target <= dish.version /\ r.target # dish.version
      BY <3>3, <3>4
    <3> QED BY <1>1, <3>1, <3>2, <3>6, <3>7, AddedKept DEF IInv
  <2>2. CASE ~Proposes(g, slow)
    <3>1. UNCHANGED <<dish, recs, trail>> BY <1>1, <2>2 DEF GenCommits
    <3> QED BY <3>1, KeptStays DEF IInv
  <2> QED BY <2>1, <2>2
<1>4. ScreenMoves
  <2>1. CASE ~gens[g].mine
    <3>1. UNCHANGED panel BY <2>1 DEF GenCommits
    <3> QED BY <1>1, <3>1 DEF ScreenMoves, IInv, ScreenKept
  <2>2. CASE gens[g].mine
    <3> DEFINE m == panel.modal /\ ~answered
               a == panel.loading \/ answered
               b == ~answered
               p == [panel EXCEPT !.generating = FALSE, !.modal = m, !.loading = a, !.error = b]
    <3>1. m \in BOOLEAN /\ a \in BOOLEAN /\ b \in BOOLEAN /\ FALSE \in BOOLEAN OBVIOUS
    <3>2. panel' = p BY <2>2 DEF GenCommits
    <3> HIDE DEF m, a, b
    <3>3. Shape(p) /\ p.cards = panel.cards /\ p.rejecting = panel.rejecting
      BY <3>1, Zenon DEF Shape, IInv, ScreenKept
    <3> QED BY <1>1, <3>2, <3>3 DEF ScreenMoves, IInv, ScreenKept
  <2> QED BY <2>1, <2>2
<1>5. ScreenKept' BY <1>3, <1>4, ScreenMoved
<1> QED BY <1>2, <1>3, <1>5 DEF IInv

-----------------------------------------------------------------------------
\* The panel keeps its shape, whatever one handler changes of it.
SameReadings(p) == p.cards = panel.cards /\ p.rejecting = panel.rejecting

LEMMA AsksMoves ==
  ASSUME NEW p, Shape(p), SameReadings(p), Asks(p)
  PROVE  Shape(panel') /\ panel'.cards = panel.cards /\ panel'.rejecting = panel.rejecting
<1> DEFINE a == p.loading \/ p.view = "recommendations"
<1>1. panel' = [p EXCEPT !.loading = a] BY DEF Asks
<1>2. a \in BOOLEAN OBVIOUS
<1> HIDE DEF a
<1>3. Shape([p EXCEPT !.loading = a]) BY <1>2, Zenon DEF Shape
<1>4. /\ [p EXCEPT !.loading = a].cards = p.cards
      /\ [p EXCEPT !.loading = a].rejecting = p.rejecting
  BY DEF Shape
<1> QED BY <1>1, <1>3, <1>4 DEF SameReadings

LEMMA LookIInv ==
  ASSUME IInv, MaxEvents \in Nat, NEW p, Shape(p), SameReadings(p), Look(p)
  PROVE  IInv'
<1>1. Shape(panel') /\ panel'.cards = panel.cards /\ panel'.rejecting = panel.rejecting
  BY AsksMoves DEF Look, SameReadings
<1>2. UNCHANGED <<Server, calls>> /\ Event BY DEF Look
<1>3. events' \in 0 .. MaxEvents BY <1>2, Counted DEF IInv, ScreenKept
<1>4. ScreenMoves BY <1>1, <1>2, <1>3 DEF ScreenMoves, IInv, ScreenKept
<1> QED BY <1>2, <1>4, ScreenOnly

LEMMA LooksIInv ==
  ASSUME IInv, MaxEvents \in Nat,
         \/ NextPage \/ PreviousPage \/ Reload
         \/ \E v \in {"recommendations", "audit"} : PickView(v)
         \/ \E f \in {"all"} \cup Statuses : PickStatus(f)
         \/ \E k \in {"all"} \cup Categories : PickCategory(k)
  PROVE  IInv'
<1> USE DEF SameReadings
<1>1. Shape(panel) BY DEF IInv, ScreenKept
<1>2. CASE NextPage
  <2> DEFINE p == [panel EXCEPT !.offset = @ + AuditPage]
  <2>1. Look(p) BY <1>2 DEF NextPage
  <2>2. Shape(p) /\ SameReadings(p) BY <1>1 DEF Shape
  <2> HIDE DEF p
  <2> QED BY <2>1, <2>2, LookIInv
<1>3. CASE PreviousPage
  <2> DEFINE o == IF panel.offset > AuditPage THEN panel.offset - AuditPage ELSE 0
             p == [panel EXCEPT !.offset = o]
  <2>1. Look(p) BY <1>3 DEF PreviousPage
  <2> HIDE DEF o
  <2>2. Shape(p) /\ SameReadings(p) BY <1>1 DEF Shape
  <2> HIDE DEF p
  <2> QED BY <2>1, <2>2, LookIInv
<1>4. CASE Reload
  <2>1. Event /\ Asks(panel) /\ UNCHANGED <<Server, calls>> BY <1>4 DEF Reload
  <2>2. Shape(panel') /\ panel'.cards = panel.cards /\ panel'.rejecting = panel.rejecting
    BY <1>1, <2>1, AsksMoves
  <2>3. events' \in 0 .. MaxEvents BY <2>1, Counted DEF IInv, ScreenKept
  <2>4. ScreenMoves BY <2>1, <2>2, <2>3 DEF ScreenMoves, IInv, ScreenKept
  <2> QED BY <2>1, <2>4, ScreenOnly
<1>5. ASSUME NEW v \in {"recommendations", "audit"}, PickView(v) PROVE IInv'
  <2> DEFINE p == [panel EXCEPT !.view = v]
  <2>1. Look(p) BY <1>5 DEF PickView
  <2>2. Shape(p) /\ SameReadings(p) BY <1>1 DEF Shape
  <2> HIDE DEF p
  <2> QED BY <2>1, <2>2, LookIInv
<1>6. ASSUME NEW f \in {"all"} \cup Statuses, PickStatus(f) PROVE IInv'
  <2> DEFINE p == [panel EXCEPT !.filter = f]
  <2>1. Look(p) BY <1>6 DEF PickStatus
  <2>2. Shape(p) /\ SameReadings(p) BY <1>1 DEF Shape
  <2> HIDE DEF p
  <2> QED BY <2>1, <2>2, LookIInv
<1>7. ASSUME NEW k \in {"all"} \cup Categories, PickCategory(k) PROVE IInv'
  <2> DEFINE p == [panel EXCEPT !.category = k]
  <2>1. Look(p) BY <1>7 DEF PickCategory
  <2>2. Shape(p) /\ SameReadings(p) BY <1>1 DEF Shape
  <2> HIDE DEF p
  <2> QED BY <2>1, <2>2, LookIInv
<1> QED BY <1>2, <1>3, <1>4, <1>5, <1>6, <1>7

\* A card that the server answers with is the recommendation of that moment.
LEMMA CardsRead ==
  ASSUME Kept, NEW q
  PROVE  Cards(q) \subseteq ACard /\ \A c \in Cards(q) : Behind(c)
<1> SUFFICES ASSUME NEW i \in 1 .. Len(recs) PROVE Card(i) \in ACard /\ Behind(Card(i))
  BY DEF Cards
<1>1. recs[i] \in Rec /\ i \in Nat \ {0} BY DEF Kept
<1>2. Card(i) = [id |-> i, kind |-> recs[i].kind, status |-> recs[i].status,
                 version |-> recs[i].version]
  BY DEF Card
<1>3. /\ recs[i].kind \in Kinds /\ recs[i].status \in Statuses /\ recs[i].version \in Nat
  BY <1>1 DEF Rec
<1>4. Card(i) \in ACard BY <1>1, <1>2, <1>3 DEF ACard
<1>5. Card(i).id = i /\ Card(i).status = recs[i].status /\ Card(i).version = recs[i].version
  BY <1>2
<1> QED BY <1>3, <1>4, <1>5 DEF Behind

LEMMA ListAnswersIInv ==
  ASSUME IInv, NEW q, ListAnswers(q)
  PROVE  IInv'
<1> DEFINE p == [panel EXCEPT !.cards = Cards(q), !.loading = FALSE, !.error = FALSE]
<1>1. panel' = p /\ UNCHANGED <<Server, calls, events>> BY DEF ListAnswers
<1>2. Cards(q) \subseteq ACard /\ \A c \in Cards(q) : Behind(c) BY CardsRead DEF IInv
<1>3. Shape(p) /\ p.cards = Cards(q) /\ p.rejecting = panel.rejecting
  BY <1>2, Zenon DEF Shape, IInv, ScreenKept
<1> HIDE DEF p
<1>4. ScreenMoves BY <1>1, <1>2, <1>3 DEF ScreenMoves, IInv, ScreenKept
<1> QED BY <1>1, <1>4, ScreenOnly

LEMMA TrailAnswersIInv ==
  ASSUME IInv, TrailAnswers
  PROVE  IInv'
<1> DEFINE page == TrailPage(panel.offset)
           p == [panel EXCEPT !.log = page, !.total = Len(trail), !.error = FALSE]
<1>1. panel' = p /\ UNCHANGED <<Server, calls, events>> BY DEF TrailAnswers
<1> HIDE DEF page
<1>2. Shape(p) /\ p.cards = panel.cards /\ p.rejecting = panel.rejecting
  BY DEF Shape, IInv, ScreenKept
<1> HIDE DEF p
<1>3. ScreenMoves BY <1>1, <1>2 DEF ScreenMoves, IInv, ScreenKept
<1> QED BY <1>1, <1>3, ScreenOnly

LEMMA ListFailsIInv ==
  ASSUME IInv, MaxEvents \in Nat, NEW q, ListFails(q)
  PROVE  IInv'
<1> DEFINE a == panel.loading /\ q = "audit"
           p == [panel EXCEPT !.loading = a, !.error = TRUE]
<1>1. panel' = p /\ UNCHANGED <<Server, calls>> /\ Event BY DEF ListFails
<1>2. a \in BOOLEAN /\ TRUE \in BOOLEAN OBVIOUS
<1> HIDE DEF a
<1>3. Shape(p) /\ p.cards = panel.cards /\ p.rejecting = panel.rejecting
  BY <1>2, Zenon DEF Shape, IInv, ScreenKept
<1> HIDE DEF p
<1>4. events' \in 0 .. MaxEvents BY <1>1, Counted DEF IInv, ScreenKept
<1>5. ScreenMoves BY <1>1, <1>3, <1>4 DEF ScreenMoves, IInv, ScreenKept
<1> QED BY <1>1, <1>5, ScreenOnly

-----------------------------------------------------------------------------
\* Deciding.

\* A command carries what the card or the dialog showed.
LEMMA SendsBehind ==
  ASSUME IInv, NEW op \in Ops, NEW c \in ACard, Behind(c), Sends(op, c)
  PROVE  calls' \subseteq ACall /\ \A d \in calls' : Behind(d)
<1> DEFINE d == [op |-> op, id |-> c.id, status |-> c.status, version |-> c.version,
                 asks |-> panel.filter]
<1>1. calls' = calls \cup {d} BY DEF Sends
<1>2. panel.filter \in {"all"} \cup Statuses BY DEF IInv, ScreenKept, Shape
<1>3. d \in ACall BY <1>2 DEF ACall, ACard
<1>4. Behind(d) BY DEF Behind
<1> HIDE DEF d
<1> QED BY <1>1, <1>3, <1>4 DEF IInv, ScreenKept

LEMMA ClickIInv ==
  ASSUME IInv, MaxEvents \in Nat, NEW op \in Ops, NEW c \in filteredRecommendations, Click(op, c)
  PROVE  IInv'
<1>1. c \in panel.cards /\ c \in ACard /\ Behind(c)
  BY DEF filteredRecommendations, IInv, ScreenKept, Shape
<1>2. UNCHANGED Server /\ Event BY DEF Click
<1>3. events' \in 0 .. MaxEvents BY <1>2, Counted DEF IInv, ScreenKept
<1>4. CASE op = "reject"
  <2> DEFINE p == [panel EXCEPT !.rejecting = c, !.error = FALSE]
  <2>1. panel' = p /\ UNCHANGED calls BY <1>4 DEF Click
  <2>2. Shape(p) /\ p.cards = panel.cards /\ p.rejecting = c
    BY <1>1 DEF Shape, IInv, ScreenKept
  <2> HIDE DEF p
  <2>3. ScreenMoves BY <1>1, <1>3, <2>1, <2>2 DEF ScreenMoves, IInv, ScreenKept
  <2> QED BY <1>2, <2>3, ScreenOnly
<1>5. CASE op # "reject"
  <2> DEFINE p == [panel EXCEPT !.busy = c.id, !.error = FALSE]
  <2>1. panel' = p /\ Sends(op, c) BY <1>5 DEF Click
  <2>2. c.id \in Nat BY <1>1 DEF ACard
  <2>3. Shape(p) /\ p.cards = panel.cards /\ p.rejecting = panel.rejecting
    BY <2>2 DEF Shape, IInv, ScreenKept
  <2> HIDE DEF p
  <2>4. calls' \subseteq ACall /\ \A d \in calls' : Behind(d) BY <1>1, <2>1, SendsBehind
  <2>5. ScreenMoves BY <1>3, <2>1, <2>3, <2>4 DEF ScreenMoves, IInv, ScreenKept
  <2> QED BY <1>2, <2>5, ScreenOnly
<1> QED BY <1>4, <1>5

LEMMA SubmitRejectIInv ==
  ASSUME IInv, SubmitReject
  PROVE  IInv'
<1>1. Sends("reject", panel.rejecting) /\ UNCHANGED <<Server, panel, events>>
  BY DEF SubmitReject
<1>2. panel.rejecting \in ACard /\ Behind(panel.rejecting)
  BY DEF SubmitReject, IInv, ScreenKept, Shape
<1>3. calls' \subseteq ACall /\ \A d \in calls' : Behind(d)
  BY <1>1, <1>2, SendsBehind DEF Ops
<1>4. ScreenMoves BY <1>1, <1>3 DEF ScreenMoves, IInv, ScreenKept
<1> QED BY <1>1, <1>4, ScreenOnly

LEMMA CloseRejectIInv ==
  ASSUME IInv, CloseReject
  PROVE  IInv'
<1> DEFINE p == [panel EXCEPT !.rejecting = Nothing]
<1>1. panel' = p /\ UNCHANGED <<Server, calls, events>> BY DEF CloseReject
<1>2. Shape(p) /\ p.cards = panel.cards /\ p.rejecting = Nothing
  BY DEF Shape, IInv, ScreenKept
<1> HIDE DEF p
<1>3. ScreenMoves BY <1>1, <1>2 DEF ScreenMoves, IInv, ScreenKept
<1> QED BY <1>1, <1>3, ScreenOnly

LEMMA GenerateModalIInv ==
  ASSUME IInv, MaxEvents \in Nat, NEW open \in BOOLEAN, GenerateModal(open)
  PROVE  IInv'
<1> DEFINE p == [panel EXCEPT !.modal = open]
<1>1. panel' = p /\ UNCHANGED <<Server, calls>> /\ Event BY DEF GenerateModal
<1>2. Shape(p) /\ p.cards = panel.cards /\ p.rejecting = panel.rejecting
  BY Zenon DEF Shape, IInv, ScreenKept
<1> HIDE DEF p
<1>3. events' \in 0 .. MaxEvents BY <1>1, Counted DEF IInv, ScreenKept
<1>4. ScreenMoves BY <1>1, <1>2, <1>3 DEF ScreenMoves, IInv, ScreenKept
<1> QED BY <1>1, <1>4, ScreenOnly

LEMMA CallRefusedIInv ==
  ASSUME IInv, NEW c, CallRefused(c)
  PROVE  IInv'
<1> DEFINE n == IF c.op = "reject" THEN panel.busy ELSE 0
           p == [panel EXCEPT !.error = TRUE, !.busy = n]
<1>1. UNCHANGED <<Server, events>> /\ calls' = calls \ {c} BY DEF CallRefused, Done
<1>2. panel' = p BY DEF CallRefused, Done, IInv, ScreenKept, Shape
<1>3. n \in Nat BY DEF IInv, ScreenKept, Shape
<1> HIDE DEF n
<1>4. Shape(p) /\ p.cards = panel.cards /\ p.rejecting = panel.rejecting
  BY <1>3 DEF Shape, IInv, ScreenKept
<1> HIDE DEF p
<1>5. ScreenMoves BY <1>1, <1>2, <1>4 DEF ScreenMoves, IInv, ScreenKept
<1> QED BY <1>1, <1>5, ScreenOnly

LEMMA CallCommitsIInv ==
  ASSUME IInv, NEW c, NEW answered \in BOOLEAN, CallCommits(c, answered)
  PROVE  IInv'
<1>1. c \in ACall /\ Carry(c.op, c.id) /\ UNCHANGED <<gens, events>> /\ calls' = calls \ {c}
  BY DEF CallCommits, Carry, Done, IInv, ScreenKept
<1>2. c.op \in Ops /\ c.id \in Nat BY <1>1 DEF ACall
<1>3. /\ Kept'
      /\ \A j \in 1 .. Len(recs') : OpenTask(j)' => j \in 1 .. Len(recs) /\ OpenTask(j)
      /\ \A d \in ACard \cup ACall : Behind(d) => Behind(d)'
  BY <1>1, <1>2, CarriedKept DEF IInv
<1>4. GensKept' BY <1>1, <1>3, GensStay DEF IInv
<1> DEFINE n == IF c.op = "reject" THEN panel.busy ELSE 0
           r == IF c.op = "reject" THEN Nothing ELSE panel.rejecting
<1>5. n \in Nat /\ r \in {panel.rejecting, Nothing} /\ r \in ACard \cup {Nothing}
  BY DEF IInv, ScreenKept, Shape
<1>6. Shape(panel') /\ panel'.cards = panel.cards /\ panel'.rejecting \in {panel.rejecting, Nothing}
  <2>1. CASE answered
    <3> DEFINE p == [panel EXCEPT !.loading = TRUE, !.rejecting = r, !.busy = n]
    <3>1. panel' = p BY <2>1 DEF CallCommits, Done, IInv, ScreenKept, Shape
    <3> HIDE DEF n, r
    <3>2. Shape(p) /\ p.cards = panel.cards /\ p.rejecting = r
      BY <1>5 DEF Shape, IInv, ScreenKept
    <3> QED BY <1>5, <3>1, <3>2
  <2>2. CASE ~answered
    <3> DEFINE p == [panel EXCEPT !.error = TRUE, !.busy = n]
    <3>1. panel' = p BY <2>2 DEF CallCommits, Done, IInv, ScreenKept, Shape
    <3> HIDE DEF n, r
    <3>2. Shape(p) /\ p.cards = panel.cards /\ p.rejecting = panel.rejecting
      BY <1>5 DEF Shape, IInv, ScreenKept
    <3> QED BY <3>1, <3>2
  <2> QED BY <2>1, <2>2
<1>7. ScreenMoves BY <1>1, <1>6 DEF ScreenMoves, IInv, ScreenKept
<1>8. ScreenKept' BY <1>3, <1>7, ScreenMoved
<1> QED BY <1>3, <1>4, <1>8 DEF IInv

-----------------------------------------------------------------------------
LEMMA InitIInv ==
  ASSUME Init, MaxRecs \in Nat \ {0}, MaxEvents \in Nat
  PROVE  IInv
<1> DEFINE e == [op |-> "menu_update", id |-> 0]  w == [op |-> "create", id |-> 1]
           p == [view |-> "recommendations", filter |-> "all", category |-> "all", cards |-> {},
                 busy |-> 0, rejecting |-> Nothing, modal |-> FALSE, generating |-> FALSE,
                 offset |-> 0, total |-> 0, log |-> <<>>, loading |-> TRUE, error |-> FALSE]
<1>1. /\ dish = [price |-> 1, version |-> 2] /\ recs = <<Written>> /\ trail = <<e, w>>
      /\ events = 0 /\ gens = [g \in Generators |-> NoGen] /\ panel = p /\ calls = {}
  BY DEF Init
<1>2. 0 \in Nat /\ 1 \in Nat \ {0} /\ 2 \in Nat \ {0} /\ 1 \in Nat /\ 2 \in Nat OBVIOUS
<1>3. dish \in Dish BY <1>1, <1>2, Zenon DEF Dish
<1>4. Written \in Rec BY <1>2, Zenon DEF Written, Rec, Kinds, Statuses
<1>5. recs \in Seq(Rec) /\ Len(recs) = 1 /\ recs[1] = Written BY <1>1, <1>4
<1>6. e \in Row /\ w \in Row BY DEF Row
<1>7. trail \in Seq(Row) /\ Len(trail) = 2 /\ trail[1] = e /\ trail[2] = w
  <2> HIDE DEF e, w
  <2> QED BY <1>1, <1>6
<1>8. /\ Written.status = "proposed" /\ Written.target = 2 /\ Written.basis = 1
      /\ Written.kind = "price"
  BY DEF Written
<1>9. BasisKept BY <1>1, <1>5, <1>8 DEF BasisKept
<1>10. TrailTells BY <1>5, <1>7, <1>8 DEF TrailTells
<1>11. OneOpenPerTarget BY <1>5, <1>8 DEF OneOpenPerTarget, OpenTask
<1>12. NoGen \in Gen /\ NoGen.step = "none" BY DEF NoGen, Gen
<1>13. GensKept BY <1>1, <1>12 DEF GensKept, LockTells
<1>14. Shape(p) BY DEF Shape
<1>15. panel.cards = {} /\ panel.rejecting = Nothing BY <1>1
<1>16. ScreenKept
  <2> HIDE DEF p
  <2> QED BY <1>1, <1>14, <1>15 DEF ScreenKept
<1> QED BY <1>3, <1>5, <1>7, <1>9, <1>10, <1>11, <1>13, <1>16 DEF IInv, Kept

LEMMA NextIInv ==
  ASSUME IInv, [Next]_vars, MaxRecs \in Nat \ {0}, MaxEvents \in Nat
  PROVE  IInv'
<1>1. CASE (\E price \in {1, 2} : Reprice(price) \/ OtherCreates("price", price))
           \/ OtherCreates("menu", dish.price) \/ OtherCreates("own", 0)
  <2>1. {"price", "menu", "own"} \subseteq Kinds \ {"task"} BY DEF Kinds
  <2>2. dish.price \in Nat BY DEF IInv, Kept, Dish
  <2> QED BY <1>1, <2>1, <2>2, RepriceIInv, OtherCreatesIInv
<1>2. ASSUME NEW op \in Ops, NEW i \in 1 .. Len(recs), OtherManager(op, i) PROVE IInv'
  BY <1>2, OtherManagerIInv
<1>3. ASSUME NEW g \in Generators,
             \/ OtherGenerates(g) \/ GenLocks(g) \/ handleGenerate(g)
             \/ \E slow, answered \in BOOLEAN : GenCommits(g, slow, answered)
      PROVE  IInv'
  BY <1>3, OtherGeneratesIInv, GenLocksIInv, handleGenerateIInv, GenCommitsIInv
<1>4. ASSUME NEW q \in lists, ListAnswers(q) \/ ListFails(q) PROVE IInv'
  BY <1>4, ListAnswersIInv, ListFailsIInv
<1>5. ASSUME NEW op \in Ops, NEW c \in filteredRecommendations, Click(op, c) PROVE IInv'
  BY <1>5, ClickIInv
<1>6. ASSUME NEW open \in BOOLEAN, GenerateModal(open) PROVE IInv'
  BY <1>6, GenerateModalIInv
<1>7. ASSUME NEW c \in calls, CallRefused(c) \/ \E answered \in BOOLEAN : CallCommits(c, answered)
      PROVE  IInv'
  BY <1>7, CallRefusedIInv, CallCommitsIInv
<1>8. CASE TrailAnswers \/ SubmitReject \/ CloseReject
  BY <1>8, TrailAnswersIInv, SubmitRejectIInv, CloseRejectIInv
<1>9. CASE UNCHANGED vars
  <2>1. UNCHANGED <<Server, panel, calls, events>> BY <1>9 DEF vars, Server
  <2>2. ScreenMoves BY <2>1 DEF ScreenMoves, IInv, ScreenKept
  <2> QED BY <2>1, <2>2, ScreenOnly
<1> QED
  BY <1>1, <1>2, <1>3, <1>4, <1>5, <1>6, <1>7, <1>8, <1>9, LooksIInv DEF Next

LEMMA AlwaysIInv ==
  ASSUME MaxRecs \in Nat \ {0}, MaxEvents \in Nat
  PROVE  Spec => []IInv
<1>1. Init => IInv BY InitIInv
<1>2. IInv /\ [Next]_vars => IInv' BY NextIInv
<1> QED BY <1>1, <1>2, PTL DEF Spec

-----------------------------------------------------------------------------
\* The tables, the generations and the panel keep their types, and the bounds hold.
THEOREM DecisionTypes ==
  ASSUME MaxRecs \in Nat \ {0}, MaxEvents \in Nat
  PROVE  Spec => []TypeOK
<1>1. IInv => TypeOK
  BY DEF IInv, Kept, GensKept, ScreenKept, Shape, TypeOK, Dish, Rec, Row, Gen
<1> QED BY <1>1, AlwaysIInv, PTL

\* A price is applied once, after it was approved, and replaces the price it was
\* written against (recommendation_apply), for any number of recommendations,
\* edits, managers and clicks.
THEOREM AppliesWhatWasApproved ==
  ASSUME MaxRecs \in Nat \ {0}, MaxEvents \in Nat
  PROVE  Spec => []AppliedAsApproved
<1>1. IInv => AppliedAsApproved
  BY DEF IInv, Kept, BasisKept, TrailTells, AppliedOnce, AppliedAsApproved
<1> QED BY <1>1, AlwaysIInv, PTL

\* The advisory lock of recommendation_generate leaves one open task, however many
\* generations wait for it.
THEOREM NoSecondTask ==
  ASSUME MaxRecs \in Nat \ {0}, MaxEvents \in Nat
  PROVE  Spec => []OneOpenPerTarget
<1>1. IInv => OneOpenPerTarget BY DEF IInv, Kept
<1> QED BY <1>1, AlwaysIInv, PTL

\* The call that changes a recommendation finds it as its card showed it.
LEMMA CarriedOnSeen ==
  ASSUME IInv, Next
  PROVE  \A c \in calls \ calls' : recs' # recs => recs[c.id].status = c.status
<1> SUFFICES ASSUME NEW c \in calls \ calls', recs' # recs
             PROVE  recs[c.id].status = c.status
  OBVIOUS
<1>1. PICK d \in calls : CallCommits(d, TRUE) \/ CallCommits(d, FALSE)
  <2>1. ~UNCHANGED calls OBVIOUS
  <2>2. ~\E op \in Ops, e \in filteredRecommendations : Click(op, e) BY DEF Click, Sends
  <2>3. ~SubmitReject BY DEF SubmitReject, Sends
  <2>4. ~\E e \in calls : CallRefused(e) BY DEF CallRefused, Server
  <2>5. ~\E v \in {"recommendations", "audit"} : PickView(v) BY <2>1 DEF PickView, Look
  <2>6. ~\E f \in {"all"} \cup Statuses : PickStatus(f) BY <2>1 DEF PickStatus, Look
  <2>7. ~\E k \in {"all"} \cup Categories : PickCategory(k) BY <2>1 DEF PickCategory, Look
  <2>8. ~NextPage /\ ~PreviousPage /\ ~Reload
    BY <2>1 DEF NextPage, PreviousPage, Reload, Look
  <2>9. ~TrailAnswers /\ ~CloseReject /\ ~\E open \in BOOLEAN : GenerateModal(open)
    BY <2>1 DEF TrailAnswers, CloseReject, GenerateModal
  <2>10. ~\E q \in lists : ListAnswers(q) \/ ListFails(q) BY <2>1 DEF ListAnswers, ListFails
  <2>11. ~\E g \in Generators : \/ OtherGenerates(g) \/ GenLocks(g) \/ handleGenerate(g)
                                \/ \E slow, answered \in BOOLEAN : GenCommits(g, slow, answered)
    BY <2>1 DEF OtherGenerates, GenLocks, handleGenerate, GenCommits
  <2>12. ~\E op \in Ops, i \in 1 .. Len(recs) : OtherManager(op, i) BY <2>1 DEF OtherManager
  <2>13. /\ ~\E price \in {1, 2} : Reprice(price) \/ OtherCreates("price", price)
         /\ ~OtherCreates("menu", dish.price) /\ ~OtherCreates("own", 0)
    BY <2>1 DEF Reprice, OtherCreates
  <2> QED BY <2>2, <2>3, <2>4, <2>5, <2>6, <2>7, <2>8, <2>9, <2>10, <2>11, <2>12, <2>13 DEF Next
<1>2. calls' = calls \ {d} /\ recs[d.id].version = d.version
  BY <1>1 DEF CallCommits, Done, SameVersion
<1>3. c = d BY <1>2
<1>4. Behind(c) BY DEF IInv, ScreenKept
<1> QED BY <1>2, <1>3, <1>4 DEF Behind

\* A decision is carried out on the recommendation as its card showed it
\* (expected_version of the commands), however late the command arrives.
THEOREM DecidesOnSeen ==
  ASSUME MaxRecs \in Nat \ {0}, MaxEvents \in Nat
  PROVE  Spec => ActedOnSeen
<1>1. IInv /\ [Next]_vars
        => [\A c \in calls \ calls' : recs' # recs => recs[c.id].status = c.status]_vars
  BY CarriedOnSeen DEF vars
<1> QED BY <1>1, AlwaysIInv, PTL DEF Spec, ActedOnSeen

=============================================================================
