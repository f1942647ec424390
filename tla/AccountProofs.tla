---------------------------- MODULE AccountProofs ----------------------------
(***************************************************************************)
(* Proofs about module AccountDesk, for any number of e-mails, requests at *)
(* once and failures.  Every number is given to one request, which makes   *)
(* its provision and its user at most once (Fits); two requests never mean *)
(* the same number, and none works on the provision of a request that has  *)
(* a key of its own (Apart).  So an e-mail is provisioned once, and the    *)
(* form hands over the password of the account it made.                    *)
(***************************************************************************)
EXTENDS AccountDesk, TLAPS

Provision == [email : Emails \cup {""}, key : Nat, user : Nat]
User == [email : Emails \cup {""}, provision : Nat, given : Nat, active : BOOLEAN, version : Nat]
Request == [step : {"none", "reserve", "lookup", "insert", "activate"}, email : Emails \cup {""},
            key : Nat, given : Nat, provision : Nat, user : Nat]

Active(r) == r.step # "none"
Early(r) == r.step \in {"reserve", "lookup", "insert"}
Placed(r) == r.step \in {"lookup", "insert", "activate"}
\* A request of the form, whose key is its own.
Own(r) == r.key = r.given

RowTypes ==
  /\ made \in 0 .. MaxMade
  /\ provisions \in [Ids -> Provision]
  /\ users \in [Ids -> User]

\* What the numbers of the rows tell, and ProvisionedOnce without the card.
RowsKept ==
  /\ \A p \in Ids : provisions[p] # NoProvision =>
       p <= made /\ provisions[p].email \in Emails /\ provisions[p].key \in {p, ClientKey}
  /\ \A u \in Ids : users[u] # NoUser =>
       u <= made /\ users[u].email \in Emails /\ users[u].given = u /\ users[u].provision \in 1 .. made
  /\ \A u, v \in Ids : users[u] # NoUser /\ users[u].email = users[v].email => u = v
  /\ \A p, q \in Ids : provisions[p] # NoProvision /\ provisions[p].email = provisions[q].email => p = q
  /\ \A p \in Ids : provisions[p].user # 0 =>
       provisions[p].user \in Ids /\ users[provisions[p].user].provision = p

\* A request and the rows.
Fits(r, pv, us, m) ==
  Active(r) =>
    /\ r.given \in 1 .. m /\ r.email \in Emails /\ r.key \in {r.given, ClientKey}
    /\ r.step = "reserve" => pv[r.given] = NoProvision
    /\ Early(r) => us[r.given] = NoUser
    /\ Placed(r) => r.provision \in 1 .. m
    /\ r.step = "activate" => r.user \in 1 .. m /\ (us[r.user] = NoUser \/ us[r.user].provision = r.provision)
    /\ Own(r) => /\ pv[r.given].key \in {0, r.given}
                 /\ r.step \in {"lookup", "insert"} => r.provision = r.given
                 /\ r.step = "activate" => r.user = r.given
                 /\ Early(r) => \A u \in Ids : us[u].provision # r.given

\* Two requests.
Apart(r, q) ==
  Active(r) /\ Active(q) =>
    /\ r.given # q.given
    /\ Early(r) /\ q.step = "activate" => q.user # r.given
    /\ Own(r) /\ Placed(q) => q.provision # r.given

RequestsKept ==
  /\ requests \in [Slots -> Request]
  /\ \A k \in Slots : Fits(requests[k], provisions, users, made)
  /\ \A j, k \in Slots : j # k => Apart(requests[j], requests[k])

\* The form waits for a request of its own, and shows the card of what that made.
DeskKept ==
  /\ desk \in [rows : {desk.rows}, form : {desk.form}, busy : {desk.busy}, card : {desk.card}]
  /\ \A r \in desk.rows : r.id \in Ids
  /\ desk.form.id \in {0} \cup Ids
  /\ desk.busy # 0 => desk.busy \in Slots /\ Active(requests[desk.busy]) /\ requests[desk.busy].key # ClientKey
  /\ desk.form.kind = "card" => desk.card.user \in Ids /\ desk.card.given = desk.card.user

IInv == RowTypes /\ RowsKept /\ RequestsKept /\ DeskKept

-----------------------------------------------------------------------------
LEMMA Numbers ==
  ASSUME MaxMade \in Nat, RowTypes
  PROVE  /\ Ids \subseteq Nat \ {0} /\ 1 .. made \subseteq Ids /\ made \in Nat
         /\ ClientKey \in Nat \ Ids /\ ClientKey # 0
BY DEF Ids, ClientKey, RowTypes

\* A row of an e-mail that none has.
LEMMA OneMore ==
  ASSUME NEW f, NEW g, NEW none, NEW e, NEW n \in Ids, g[n].email = e,
         \A p \in Ids : p # n => g[p] = f[p],
         \A p \in Ids : f[p].email # e,
         \A p, q \in Ids : f[p] # none /\ f[p].email = f[q].email => p = q
  PROVE  \A p, q \in Ids : g[p] # none /\ g[p].email = g[q].email => p = q
<1> SUFFICES ASSUME NEW p \in Ids, NEW q \in Ids, g[p] # none, g[p].email = g[q].email PROVE p = q
  OBVIOUS
<1>1. CASE p # n /\ q # n
  <2>1. g[p] = f[p] /\ g[q] = f[q] BY <1>1
  <2> QED BY <2>1
<1>2. CASE p = n /\ q # n
  <2>1. g[q] = f[q] /\ g[p].email = e BY <1>2
  <2> QED BY <2>1
<1>3. CASE p # n /\ q = n
  <2>1. g[p] = f[p] /\ g[q].email = e BY <1>3
  <2> QED BY <2>1
<1> QED BY <1>1, <1>2, <1>3

LEMMA UpTo == ASSUME NEW m \in Nat, NEW n \in 1 .. m PROVE n <= m
OBVIOUS

LEMMA Within == ASSUME NEW m \in Nat, NEW n \in Nat \ {0}, n <= m PROVE n \in Nat /\ n \in 1 .. m
OBVIOUS

\* One request goes on, with the rows it leaves.
LEMMA Moved ==
  ASSUME RequestsKept, NEW k \in Slots, NEW r \in Request, requests' = [requests EXCEPT ![k] = r],
         Fits(r, provisions', users', made'),
         \A j \in Slots \ {k} : /\ Fits(requests[j], provisions', users', made')
                                /\ Apart(requests[j], r) /\ Apart(r, requests[j])
  PROVE  RequestsKept'
<1>1. requests' \in [Slots -> Request] /\ requests'[k] = r /\ \A j \in Slots \ {k} : requests'[j] = requests[j]
  BY DEF RequestsKept
<1>2. \A j \in Slots : Fits(requests'[j], provisions', users', made') BY <1>1
<1>3. \A i, j \in Slots : i # j => Apart(requests'[i], requests'[j]) BY <1>1 DEF RequestsKept
<1> QED BY <1>1, <1>2, <1>3 DEF RequestsKept

LEMMA Idle ==
  ASSUME NEW pv, NEW us, NEW m, NEW r
  PROVE  NoRequest \in Request /\ Fits(NoRequest, pv, us, m) /\ Apart(r, NoRequest) /\ Apart(NoRequest, r)
BY DEF NoRequest, Request, Fits, Apart, Active

\* A request is over.
LEMMA Over ==
  ASSUME RequestsKept, NEW k \in Slots, requests' = [requests EXCEPT ![k] = NoRequest],
         \A j \in Slots \ {k} : Fits(requests[j], provisions', users', made')
  PROVE  RequestsKept'
BY Moved, Idle

LEMMA OthersFit ==
  ASSUME IInv, UNCHANGED <<provisions, users, made>>, NEW k \in Slots
  PROVE  \A j \in Slots \ {k} : Fits(requests[j], provisions', users', made')
BY DEF IInv, RequestsKept

\* The desk, when request k ends: it stops waiting, or shows the card.
LEMMA Stops ==
  ASSUME DeskKept, RequestsKept, NEW k \in Slots, 0 \notin Slots, Fails(k)
  PROVE  DeskKept'
<1>1. requests \in [Slots -> Request] BY DEF RequestsKept
<1>2. \A j \in Slots \ {k} : requests'[j] = requests[j] BY <1>1 DEF Fails
<1>3. CASE desk.busy = k
  <2>1. desk' = [desk EXCEPT !.busy = 0] BY <1>3 DEF Fails
  <2> QED BY <2>1 DEF DeskKept
<1>4. CASE desk.busy # k
  <2>1. desk' = desk BY <1>4 DEF Fails
  <2> QED BY <1>2, <1>4, <2>1 DEF DeskKept
<1> QED BY <1>3, <1>4

LEMMA Shows ==
  ASSUME DeskKept, RequestsKept, NEW k \in Slots, 0 \notin Slots, NEW u, Answers(k, u),
         desk.busy = k => u \in Ids /\ requests[k].given = u
  PROVE  DeskKept'
<1>1. requests \in [Slots -> Request] BY DEF RequestsKept
<1>2. \A j \in Slots \ {k} : requests'[j] = requests[j] BY <1>1 DEF Answers
<1>3. CASE desk.busy = k
  <2>1. /\ desk'.rows = desk.rows /\ desk'.busy = 0 /\ desk'.form = [NoForm EXCEPT !.kind = "card"]
        /\ desk'.card = [user |-> u, given |-> u]
        /\ desk' \in [rows : {desk'.rows}, form : {desk'.form}, busy : {desk'.busy}, card : {desk'.card}]
    BY <1>3 DEF Answers, Shown, DeskKept
  <2> QED BY <1>3, <2>1 DEF DeskKept, NoForm
<1>4. CASE desk.busy # k
  <2>1. desk' = desk BY <1>4 DEF Answers
  <2> QED BY <1>2, <1>4, <2>1 DEF DeskKept
<1> QED BY <1>3, <1>4

LEMMA Waits ==
  ASSUME DeskKept, RequestsKept, NEW k \in Slots, NEW r \in Request, Continues(k, r), Active(r), r.key = requests[k].key
  PROVE  DeskKept'
<1>1. requests' \in [Slots -> Request] /\ requests'[k] = r /\ \A j \in Slots \ {k} : requests'[j] = requests[j]
  BY DEF RequestsKept, Continues
<1>2. desk' = desk BY DEF Continues
<1> QED BY <1>1, <1>2 DEF DeskKept

-----------------------------------------------------------------------------
\* UserService.create.

LEMMA FailsIInv ==
  ASSUME IInv, NEW k \in Slots, 0 \notin Slots, Fails(k), UNCHANGED <<provisions, users, made>>
  PROVE  IInv'
<1>1. RequestsKept' BY OthersFit, Over DEF Fails, IInv
<1>2. DeskKept' BY Stops DEF IInv
<1> QED BY <1>1, <1>2 DEF IInv, RowTypes, RowsKept

\* Only a request of the API finds a provision under its key.
LEMMA FoundIsClients ==
  ASSUME IInv, MaxMade \in Nat, 0 \notin Slots, NEW k \in Slots, requests[k].step = "reserve",
         NEW p \in Ids, provisions[p].key = requests[k].key
  PROVE  /\ requests[k].key = ClientKey /\ ~Own(requests[k]) /\ desk.busy # k
         /\ provisions[p] # NoProvision /\ p \in 1 .. made
<1> DEFINE r == requests[k]
<1>1. Fits(r, provisions, users, made) /\ Active(r) BY DEF IInv, RequestsKept, Active
<1>2. r.given \in 1 .. made /\ r.key \in {r.given, ClientKey} /\ provisions[r.given] = NoProvision
  BY <1>1 DEF Fits
<1>3. r.key # 0 /\ made \in Nat /\ r.given \in Ids /\ r.given # ClientKey BY <1>2, Numbers DEF IInv
<1>4. provisions[p] # NoProvision
  <2>1. NoProvision.key = 0 BY DEF NoProvision
  <2> QED BY <1>3, <2>1
<1>5. p <= made /\ provisions[p].key \in {p, ClientKey} BY <1>4 DEF IInv, RowsKept
<1>6. r.key = ClientKey
  <2> SUFFICES ASSUME r.key = r.given PROVE FALSE BY <1>2
  <2>1. p = r.given BY <1>3, <1>5
  <2> QED BY <1>2, <1>4, <2>1
<1>7. desk.busy # k
  <2>1. k # 0 OBVIOUS
  <2> QED BY <1>6, <2>1 DEF IInv, DeskKept
<1>8. p \in 1 .. made BY <1>5, Numbers DEF IInv
<1> QED BY <1>3, <1>4, <1>6, <1>7, <1>8 DEF Own

LEMMA ReserveIInv ==
  ASSUME IInv, MaxMade \in Nat, "" \notin Emails, 0 \notin Slots, NEW k \in Slots, reserve_user(k)
  PROVE  IInv'
<1> DEFINE r == requests[k]
           mine == {p \in Ids : provisions[p].key = r.key}
<1>1. r \in Request /\ r.step = "reserve" /\ Fits(r, provisions, users, made) /\ Active(r)
  BY DEF reserve_user, IInv, RequestsKept, Active
<1>2. UNCHANGED <<users, made>> BY DEF reserve_user
<1>3. ASSUME NEW p \in mine, UNCHANGED provisions, Answers(k, provisions[p].user) PROVE IInv'
  <2>1. RequestsKept' BY <1>2, <1>3, OthersFit, Over DEF Answers, IInv
  <2>2. desk.busy # k BY <1>1, FoundIsClients
  <2>3. DeskKept' BY <1>3, <2>2, Shows DEF IInv
  <2> QED BY <1>2, <1>3, <2>1, <2>3 DEF IInv, RowTypes, RowsKept
<1>4. ASSUME NEW p \in mine, UNCHANGED provisions, Continues(k, [r EXCEPT !.step = "lookup", !.provision = p])
      PROVE  IInv'
  <2> DEFINE q == [r EXCEPT !.step = "lookup", !.provision = p]
  <2>1. r.key = ClientKey /\ ~Own(r) /\ provisions[p] # NoProvision /\ p \in 1 .. made
    BY <1>1, FoundIsClients
  <2>2. p \in Nat /\ p \in Ids BY <2>1, Numbers DEF IInv
  <2>3. /\ q \in Request /\ q.step = "lookup" /\ q.email = r.email /\ q.key = r.key
        /\ q.given = r.given /\ q.provision = p
    BY <1>1, <2>2 DEF Request
  <2> HIDE DEF q
  <2>4. Active(q) /\ Early(q) /\ Early(r) /\ ~Own(q) /\ q.step # "activate"
    BY <1>1, <2>1, <2>3 DEF Active, Early, Own
  <2>5. Fits(q, provisions', users', made') BY <1>1, <1>2, <1>4, <2>1, <2>3, <2>4 DEF Fits
  <2>6. ASSUME NEW j \in Slots \ {k}
        PROVE  Apart(requests[j], q) /\ Apart(q, requests[j])
    <3>1. Apart(requests[j], r) /\ Apart(r, requests[j]) /\ Fits(requests[j], provisions, users, made)
      BY DEF IInv, RequestsKept
    <3>2. Active(requests[j]) /\ Own(requests[j]) => requests[j].given # p
      <4> SUFFICES ASSUME Active(requests[j]), Own(requests[j]), requests[j].given = p PROVE FALSE
        OBVIOUS
      <4>1. provisions[p].key \in {0, p} BY <3>1 DEF Fits
      <4> QED BY <2>1, <2>2, <4>1, Numbers DEF IInv
    <3> QED BY <1>1, <2>3, <2>4, <3>1, <3>2 DEF Apart
  <2>7. requests' = [requests EXCEPT ![k] = q] BY <1>4 DEF Continues, q
  <2>8. RequestsKept' BY <1>2, <1>4, <2>3, <2>5, <2>6, <2>7, OthersFit, Moved DEF IInv
  <2>9. DeskKept' BY <1>4, <2>3, <2>4, Waits DEF IInv, q
  <2> QED BY <1>2, <1>4, <2>8, <2>9 DEF IInv, RowTypes, RowsKept
<1>5. ASSUME mine = {}, HasProvision(r.email) = {},
             provisions' = [provisions EXCEPT ![r.given] = [email |-> r.email, key |-> r.key, user |-> 0]],
             Continues(k, [r EXCEPT !.step = "lookup", !.provision = r.given])
      PROVE  IInv'
  <2> DEFINE q == [r EXCEPT !.step = "lookup", !.provision = r.given]
             n == r.given
             new == [email |-> r.email, key |-> r.key, user |-> 0]
  <2>1. n \in 1 .. made /\ n \in Ids /\ n \in Nat /\ n # 0 /\ n <= made /\ r.email \in Emails /\ r.key \in {n, ClientKey}
    <3>1. n \in 1 .. made /\ r.email \in Emails /\ r.key \in {n, ClientKey} BY <1>1 DEF Fits
    <3>2. n \in Ids /\ n \in Nat \ {0} /\ made \in Nat BY <3>1, Numbers DEF IInv
    <3>3. n \in Nat /\ n # 0 BY <3>2
    <3>4. n <= made BY <3>1, <3>2, UpTo
    <3> QED BY <3>1, <3>2, <3>3, <3>4
  <2>2. /\ q \in Request /\ q.step = "lookup" /\ q.email = r.email /\ q.key = r.key
        /\ q.given = n /\ q.provision = n
    BY <1>1, <2>1 DEF Request
  <2>3. new \in Provision /\ new.key = r.key /\ new.user = 0 /\ new.email = r.email
    BY <1>1, <2>1 DEF Request, Provision
  <2> HIDE DEF q, new, n
  <2>4. /\ provisions' \in [Ids -> Provision] /\ provisions'[n] = new
        /\ \A p \in Ids : p # n => provisions'[p] = provisions[p]
    BY <1>5, <2>1, <2>3 DEF IInv, RowTypes, new, n
  <2>5. RowTypes' BY <1>2, <2>4 DEF IInv, RowTypes
  <2>6. RowsKept'
    <3>1. \A p \in Ids : provisions'[p] # NoProvision =>
            p <= made /\ provisions'[p].email \in Emails /\ provisions'[p].key \in {p, ClientKey}
      <4>1. n <= made BY <2>1
      <4>2. \A p \in Ids : p # n => provisions'[p] = provisions[p] BY <2>4
      <4>3. provisions'[n].email \in Emails /\ provisions'[n].key \in {n, ClientKey} BY <2>1, <2>3, <2>4
      <4> QED BY <4>1, <4>2, <4>3 DEF IInv, RowsKept
    <3>2. \A p \in Ids : provisions[p].email # r.email BY <1>5 DEF HasProvision
    <3>3. \A p, q2 \in Ids : provisions'[p] # NoProvision /\ provisions'[p].email = provisions'[q2].email => p = q2
      <4>1. provisions'[n].email = r.email BY <2>3, <2>4
      <4>2. \A p \in Ids : p # n => provisions'[p] = provisions[p] BY <2>4
      <4>3. \A p, q2 \in Ids : provisions[p] # NoProvision /\ provisions[p].email = provisions[q2].email => p = q2
        BY DEF IInv, RowsKept
      <4> QED BY <2>1, <3>2, <4>1, <4>2, <4>3, OneMore
    <3>4. \A p \in Ids : provisions'[p].user # 0 =>
            provisions'[p].user \in Ids /\ users'[provisions'[p].user].provision = p
      BY <1>2, <2>3, <2>4 DEF IInv, RowsKept
    <3> QED BY <1>2, <3>1, <3>3, <3>4, Numbers DEF IInv, RowsKept, ClientKey
  <2>7. Active(q) /\ Early(q) /\ Early(r) /\ q.step # "activate" /\ (Own(q) <=> Own(r))
    BY <1>1, <2>2 DEF Active, Early, Own, n
  <2>8. Fits(q, provisions', users', made')
    BY <1>1, <1>2, <2>1, <2>2, <2>3, <2>4, <2>7 DEF Fits, Own, n
  <2>9. ASSUME NEW j \in Slots \ {k}
        PROVE  /\ Fits(requests[j], provisions', users', made')
               /\ Apart(requests[j], q) /\ Apart(q, requests[j])
    <3>1. Apart(requests[j], r) /\ Apart(r, requests[j]) /\ Fits(requests[j], provisions, users, made)
      BY DEF IInv, RequestsKept
    <3>2. Active(requests[j]) => requests[j].given # n /\ requests[j].given \in Ids
      BY <1>1, <3>1, Numbers DEF Apart, Fits, IInv, n
    <3>3. Fits(requests[j], provisions', users', made') BY <1>2, <2>4, <3>1, <3>2 DEF Fits
    <3> QED BY <1>1, <2>2, <2>7, <3>1, <3>2, <3>3 DEF Apart, n
  <2>10. requests' = [requests EXCEPT ![k] = q] BY <1>5 DEF Continues, q, n
  <2>11. RequestsKept' BY <2>2, <2>8, <2>9, <2>10, Moved DEF IInv
  <2>12. DeskKept' BY <1>5, <2>2, <2>7, Waits DEF IInv, q, n
  <2> QED BY <2>5, <2>6, <2>11, <2>12 DEF IInv
<1>6. ASSUME Fails(k), UNCHANGED provisions PROVE IInv' BY <1>2, <1>6, FailsIInv
<1> QED BY <1>3, <1>4, <1>5, <1>6 DEF reserve_user

LEMMA LookupIInv ==
  ASSUME IInv, MaxMade \in Nat, "" \notin Emails, 0 \notin Slots, NEW k \in Slots, lookup(k)
  PROVE  IInv'
<1> DEFINE r == requests[k]
<1>1. r \in Request /\ r.step = "lookup" /\ Fits(r, provisions, users, made) /\ Active(r) /\ Early(r) /\ Placed(r)
  BY DEF lookup, IInv, RequestsKept, Active, Early, Placed
<1>2. UNCHANGED <<provisions, users, made>> BY DEF lookup
<1>3. ASSUME Continues(k, [r EXCEPT !.step = "insert"]) PROVE IInv'
  <2> DEFINE q == [r EXCEPT !.step = "insert"]
  <2>1. /\ q \in Request /\ q.step = "insert" /\ q.email = r.email /\ q.key = r.key
        /\ q.given = r.given /\ q.provision = r.provision
    BY <1>1 DEF Request
  <2> HIDE DEF q
  <2>2. Active(q) /\ Early(q) /\ Placed(q) /\ (Own(q) <=> Own(r)) BY <1>1, <2>1 DEF Active, Early, Placed, Own
  <2>3. Fits(q, provisions', users', made') BY <1>1, <1>2, <2>1, <2>2 DEF Fits
  <2>4. ASSUME NEW j \in Slots \ {k} PROVE Apart(requests[j], q) /\ Apart(q, requests[j])
    <3>1. Apart(requests[j], r) /\ Apart(r, requests[j]) BY DEF IInv, RequestsKept
    <3> QED BY <1>1, <2>1, <2>2, <3>1 DEF Apart
  <2>5. requests' = [requests EXCEPT ![k] = q] BY <1>3 DEF Continues, q
  <2>6. RequestsKept' BY <1>2, <2>1, <2>3, <2>4, <2>5, OthersFit, Moved DEF IInv
  <2>7. DeskKept' BY <1>3, <2>1, <2>2, Waits DEF IInv, q
  <2> QED BY <1>2, <2>6, <2>7 DEF IInv, RowTypes, RowsKept
<1>4. ASSUME NEW u \in HasUser(r.email), users[u].provision = r.provision,
             Continues(k, [r EXCEPT !.step = "activate", !.user = u])
      PROVE  IInv'
  <2> DEFINE q == [r EXCEPT !.step = "activate", !.user = u]
  <2>1. u \in Ids /\ users[u].email = r.email BY DEF HasUser
  <2>2. r.email \in Emails /\ r.provision \in 1 .. made BY <1>1 DEF Fits
  <2>3. users[u] # NoUser
    <3>1. NoUser.email = "" BY DEF NoUser
    <3> QED BY <2>1, <2>2, <3>1
  <2>4. u \in Nat /\ u \in 1 .. made
    <3>1. u <= made BY <2>1, <2>3 DEF IInv, RowsKept
    <3>2. u \in Nat \ {0} /\ made \in Nat BY <2>1, Numbers DEF IInv
    <3> QED BY <3>1, <3>2, Within
  <2>5. /\ q \in Request /\ q.step = "activate" /\ q.email = r.email /\ q.key = r.key
        /\ q.given = r.given /\ q.provision = r.provision /\ q.user = u
    BY <1>1, <2>4 DEF Request
  <2> HIDE DEF q
  <2>6. ~Own(r) BY <1>1, <1>4, <2>1 DEF Fits
  <2>7. Active(q) /\ ~Early(q) /\ Placed(q) /\ ~Own(q) BY <2>5, <2>6 DEF Active, Early, Placed, Own
  <2>8. Fits(q, provisions', users', made') BY <1>1, <1>2, <1>4, <2>2, <2>4, <2>5, <2>7 DEF Fits
  <2>9. ASSUME NEW j \in Slots \ {k} PROVE Apart(requests[j], q) /\ Apart(q, requests[j])
    <3>1. Apart(requests[j], r) /\ Apart(r, requests[j]) /\ Fits(requests[j], provisions, users, made)
      BY DEF IInv, RequestsKept
    <3>2. Active(requests[j]) /\ Early(requests[j]) => requests[j].given # u BY <2>3, <3>1 DEF Fits
    <3> QED BY <1>1, <2>5, <2>7, <3>1, <3>2 DEF Apart
  <2>10. requests' = [requests EXCEPT ![k] = q] BY <1>4 DEF Continues, q
  <2>11. RequestsKept' BY <1>2, <2>5, <2>8, <2>9, <2>10, OthersFit, Moved DEF IInv
  <2>12. DeskKept' BY <1>4, <2>5, <2>7, Waits DEF IInv, q
  <2> QED BY <1>2, <2>11, <2>12 DEF IInv, RowTypes, RowsKept
<1> QED BY <1>2, <1>3, <1>4, FailsIInv DEF lookup

LEMMA InsertIInv ==
  ASSUME IInv, MaxMade \in Nat, "" \notin Emails, 0 \notin Slots, NEW k \in Slots, insert(k)
  PROVE  IInv'
<1> DEFINE r == requests[k]
           n == requests[k].given
           new == [email |-> r.email, provision |-> r.provision, given |-> n, active |-> FALSE, version |-> 1]
           q == [r EXCEPT !.step = "activate", !.user = n]
<1>1. r \in Request /\ r.step = "insert" /\ Fits(r, provisions, users, made) /\ Active(r) /\ Early(r) /\ Placed(r)
  BY DEF insert, IInv, RequestsKept, Active, Early, Placed
<1>2. UNCHANGED <<provisions, made>> BY DEF insert
<1>3. CASE HasUser(r.email) # {} BY <1>2, <1>3, FailsIInv DEF insert
<1>4. CASE HasUser(r.email) = {}
  <2>1. users' = [users EXCEPT ![n] = new] /\ Continues(k, q) BY <1>4 DEF insert
  <2>2. /\ n \in 1 .. made /\ r.email \in Emails /\ r.provision \in 1 .. made /\ users[n] = NoUser
        /\ r.key \in {n, ClientKey}
    BY <1>1 DEF Fits
  <2> HIDE DEF n
  <2>3. n \in Ids /\ n \in Nat \ {0} /\ r.provision \in Nat \ {0} /\ made \in Nat
    <3>1. 1 .. made \subseteq Ids /\ Ids \subseteq Nat \ {0} /\ made \in Nat BY Numbers DEF IInv
    <3> QED BY <2>2, <3>1
  <2>4. n <= made BY <2>2, <2>3, UpTo
  <2> USE DEF n
  <2>5. /\ q \in Request /\ q.step = "activate" /\ q.email = r.email /\ q.key = r.key
        /\ q.given = n /\ q.provision = r.provision /\ q.user = n
    BY <1>1, <2>3 DEF Request
  <2>6. new \in User /\ new.email = r.email /\ new.provision = r.provision /\ new.given = n
    BY <2>2, <2>3 DEF User
  <2> HIDE DEF q, new
  <2>7. /\ users' \in [Ids -> User] /\ users'[n] = new
        /\ \A u \in Ids : u # n => users'[u] = users[u]
    BY <2>1, <2>3, <2>6 DEF IInv, RowTypes
  <2>8. NoUser.provision = 0 /\ NoProvision.user = 0 BY DEF NoUser, NoProvision
  <2> HIDE DEF n
  <2>9. RowTypes' BY <1>2, <2>7 DEF IInv, RowTypes
  <2>10. RowsKept'
    <3>1. \A u \in Ids : users'[u] # NoUser =>
            u <= made /\ users'[u].email \in Emails /\ users'[u].given = u /\ users'[u].provision \in 1 .. made
      <4>1. users'[n].email \in Emails /\ users'[n].given = n /\ users'[n].provision \in 1 .. made
        BY <2>2, <2>6, <2>7
      <4>2. \A u \in Ids : u # n => users'[u] = users[u] BY <2>7
      <4> QED BY <2>4, <4>1, <4>2 DEF IInv, RowsKept
    <3>2. \A u, v \in Ids : users'[u] # NoUser /\ users'[u].email = users'[v].email => u = v
      <4>1. users'[n].email = r.email BY <2>6, <2>7
      <4>2. \A u \in Ids : u # n => users'[u] = users[u] BY <2>7
      <4>3. \A u, v \in Ids : users[u] # NoUser /\ users[u].email = users[v].email => u = v
        BY DEF IInv, RowsKept
      <4>4. \A u \in Ids : users[u].email # r.email BY <1>4 DEF HasUser
      <4> QED BY <2>3, <4>1, <4>2, <4>3, <4>4, OneMore
    <3>3. \A p \in Ids : provisions[p].user # 0 =>
            provisions[p].user \in Ids /\ users'[provisions[p].user].provision = p
      <4> SUFFICES ASSUME NEW p \in Ids, provisions[p].user # 0
                   PROVE  provisions[p].user \in Ids /\ users'[provisions[p].user].provision = p
        OBVIOUS
      <4>1. provisions[p].user \in Ids /\ users[provisions[p].user].provision = p BY DEF IInv, RowsKept
      <4>2. p # 0 BY Numbers DEF IInv
      <4>3. provisions[p].user # n BY <2>2, <2>8, <4>1, <4>2
      <4> QED BY <2>7, <4>1, <4>3
    <3> QED BY <1>2, <3>1, <3>2, <3>3 DEF IInv, RowsKept
  <2>11. Active(q) /\ ~Early(q) /\ Placed(q) /\ (Own(q) <=> Own(r))
    BY <2>5 DEF Active, Early, Placed, Own, n
  <2>12. Fits(q, provisions', users', made')
    <3>1. Own(r) => provisions[n].key \in {0, n} BY <1>1 DEF Fits, n
    <3> QED BY <1>2, <2>2, <2>5, <2>6, <2>7, <2>11, <3>1 DEF Fits
  <2>13. ASSUME NEW j \in Slots \ {k}
         PROVE  /\ Fits(requests[j], provisions', users', made')
                /\ Apart(requests[j], q) /\ Apart(q, requests[j])
    <3>1. Apart(requests[j], r) /\ Apart(r, requests[j]) /\ Fits(requests[j], provisions, users, made)
      BY DEF IInv, RequestsKept
    <3>2. Active(requests[j]) => /\ requests[j].given # n
                                 /\ requests[j].step = "activate" => requests[j].user # n
                                 /\ Own(requests[j]) => r.provision # requests[j].given
      BY <1>1, <3>1 DEF Apart, n
    <3>3. Active(requests[j]) => requests[j].given \in Ids
      BY <3>1, Numbers DEF Fits, IInv
    <3>4. Active(requests[j]) /\ requests[j].step = "activate" => requests[j].user \in Ids
      BY <3>1, Numbers DEF Fits, IInv
    <3>5. Fits(requests[j], provisions', users', made')
      BY <1>2, <2>6, <2>7, <3>1, <3>2, <3>3, <3>4 DEF Fits
    <3> QED BY <1>1, <2>5, <2>11, <3>1, <3>2, <3>5 DEF Apart, n
  <2>14. requests' = [requests EXCEPT ![k] = q] BY <2>1 DEF Continues
  <2>15. RequestsKept' BY <2>5, <2>12, <2>13, <2>14, Moved DEF IInv
  <2>16. DeskKept' BY <2>1, <2>5, <2>11, Waits DEF IInv
  <2> QED BY <2>9, <2>10, <2>15, <2>16 DEF IInv
<1> QED BY <1>3, <1>4

\* An account with another state or another e-mail.
LEMMA Touched ==
  ASSUME NEW u \in User, NEW active \in BOOLEAN
  PROVE  LET v == [u EXCEPT !.active = active, !.version = @ + 1] IN
         /\ v \in User /\ v.email = u.email /\ v.given = u.given /\ v.provision = u.provision
<1> DEFINE v == [u EXCEPT !.active = active, !.version = @ + 1]
<1>1. u.version + 1 \in Nat
  <2>1. u.version \in Nat BY Zenon DEF User
  <2> QED BY <2>1
<1>2. v.email = u.email /\ v.given = u.given /\ v.provision = u.provision BY DEF User
<1>3. v \in User BY <1>1, Zenon DEF User
<1> QED BY <1>2, <1>3

LEMMA Readdressed ==
  ASSUME NEW u \in User, NEW e \in Emails
  PROVE  LET v == [u EXCEPT !.email = e, !.version = @ + 1] IN
         /\ v \in User /\ v.email = e /\ v.given = u.given /\ v.provision = u.provision
<1> DEFINE v == [u EXCEPT !.email = e, !.version = @ + 1]
<1>1. u.version + 1 \in Nat
  <2>1. u.version \in Nat BY Zenon DEF User
  <2> QED BY <2>1
<1>2. v.email = e /\ v.given = u.given /\ v.provision = u.provision BY DEF User
<1>3. v \in User BY <1>1, Zenon DEF User
<1> QED BY <1>2, <1>3

\* The rows change under the requests, but none is made.
Milder(pv, us, pv2, us2) ==
  \A i \in Ids :
    /\ pv2[i] = NoProvision \/ (pv[i] # NoProvision /\ pv2[i].key = pv[i].key)
    /\ us2[i] = NoUser \/ (us[i] # NoUser /\ us2[i].provision = us[i].provision)

LEMMA MilderFits ==
  ASSUME MaxMade \in Nat, NEW r, NEW pv, NEW us, NEW pv2, NEW us2, NEW m \in 0 .. MaxMade,
         Fits(r, pv, us, m), Milder(pv, us, pv2, us2)
  PROVE  Fits(r, pv2, us2, m)
<1>1. NoProvision.key = 0 /\ NoUser.provision = 0 BY DEF NoProvision, NoUser
<1>2. Active(r) => r.given \in Ids /\ r.given # 0 BY DEF Fits, Ids
<1>3. Active(r) /\ r.step = "activate" => r.user \in Ids BY DEF Fits, Ids
<1>4. Active(r) /\ Own(r) => pv2[r.given].key \in {0, r.given} BY <1>1, <1>2 DEF Fits, Milder
<1>5. Active(r) /\ Own(r) /\ Early(r) => \A u \in Ids : us2[u].provision # r.given
  BY <1>1, <1>2 DEF Fits, Milder
<1>6. Active(r) /\ r.step = "activate" => us2[r.user] = NoUser \/ us2[r.user].provision = r.provision
  BY <1>3 DEF Fits, Milder
<1>7. Active(r) /\ r.step = "reserve" => pv2[r.given] = NoProvision BY <1>2 DEF Fits, Milder
<1>8. Active(r) /\ Early(r) => us2[r.given] = NoUser BY <1>2 DEF Fits, Milder
<1> QED BY <1>4, <1>5, <1>6, <1>7, <1>8 DEF Fits

\* The rows are in order whatever of their accounts is edited, made active or
\* given another e-mail that is free, or removed with its reservations.
LEMMA Edited ==
  ASSUME IInv, MaxMade \in Nat, UNCHANGED <<provisions, made>>, NEW id \in Ids, users[id] # NoUser,
         NEW u2 \in User, users' = [users EXCEPT ![id] = u2], u2.email \in Emails,
         HasUser(u2.email) \subseteq {id}, u2.given = users[id].given, u2.provision = users[id].provision
  PROVE  RowTypes' /\ RowsKept' /\ Milder(provisions, users, provisions', users')
<1>1. /\ users' \in [Ids -> User] /\ users'[id] = u2
      /\ \A u \in Ids : u # id => users'[u] = users[u]
  BY DEF IInv, RowTypes
<1>2. RowTypes' BY <1>1 DEF IInv, RowTypes
<1>3. \A u \in Ids : users'[u].provision = users[u].provision /\ users'[u].given = users[u].given
  BY <1>1
<1>4. \A u \in Ids : users'[u] # NoUser => users[u] # NoUser /\ users'[u].email \in Emails
  BY <1>1 DEF IInv, RowsKept
<1>5. \A u, v \in Ids : users'[u] # NoUser /\ users'[u].email = users'[v].email => u = v
  <2> SUFFICES ASSUME NEW u \in Ids, NEW v \in Ids, users'[u] # NoUser, users'[u].email = users'[v].email
               PROVE  u = v
    OBVIOUS
  <2>1. CASE u # id /\ v # id
    <3>1. users'[u] = users[u] /\ users'[v] = users[v] BY <1>1, <2>1
    <3> QED BY <3>1 DEF IInv, RowsKept
  <2>2. CASE u = id /\ v # id
    <3>1. users[v].email = u2.email BY <1>1, <2>2
    <3> QED BY <2>2, <3>1 DEF HasUser
  <2>3. CASE u # id /\ v = id
    <3>1. users[u].email = u2.email BY <1>1, <2>3
    <3> QED BY <2>3, <3>1 DEF HasUser
  <2> QED BY <2>1, <2>2, <2>3
<1>6. RowsKept' BY <1>3, <1>4, <1>5 DEF IInv, RowsKept
<1>7. Milder(provisions, users, provisions', users') BY <1>3, <1>4 DEF Milder
<1> QED BY <1>2, <1>6, <1>7

LEMMA Deleted ==
  ASSUME IInv, MaxMade \in Nat, "" \notin Emails, UNCHANGED made, NEW id \in Ids, sd_delete_staff(id)
  PROVE  RowTypes' /\ RowsKept' /\ Milder(provisions, users, provisions', users')
<1>1. NoProvision \in Provision /\ NoUser \in User /\ NoProvision.user = 0
  BY DEF NoProvision, NoUser, Provision, User
<1>2. /\ users' \in [Ids -> User] /\ users'[id] = NoUser
      /\ \A u \in Ids : u # id => users'[u] = users[u]
  BY <1>1 DEF sd_delete_staff, IInv, RowTypes
<1>3. /\ provisions' \in [Ids -> Provision]
      /\ \A p \in Ids : provisions'[p] = NoProvision \/ (provisions'[p] = provisions[p] /\ provisions[p].user # id)
  BY <1>1 DEF sd_delete_staff, IInv, RowTypes
<1>4. RowTypes' BY <1>2, <1>3 DEF IInv, RowTypes
<1>5. \A u \in Ids : users'[u] # NoUser => users'[u] = users[u] BY <1>2
<1>6. \A p \in Ids : provisions'[p] # NoProvision => provisions'[p] = provisions[p] BY <1>3
<1>7. \A u, v \in Ids : users'[u] # NoUser /\ users'[u].email = users'[v].email => u = v
  <2> SUFFICES ASSUME NEW u \in Ids, NEW v \in Ids, users'[u] # NoUser, users'[u].email = users'[v].email
               PROVE  u = v
    OBVIOUS
  <2>1. users'[u] = users[u] BY <1>5
  <2>2. users[u].email # NoUser.email
    <3>1. users[u].email \in Emails BY <2>1 DEF IInv, RowsKept
    <3>2. NoUser.email = "" BY DEF NoUser
    <3> QED BY <3>1, <3>2
  <2>3. users'[v] = users[v] BY <1>5, <2>1, <2>2
  <2> QED BY <2>1, <2>3 DEF IInv, RowsKept
<1>8. \A p, q \in Ids : provisions'[p] # NoProvision /\ provisions'[p].email = provisions'[q].email => p = q
  <2> SUFFICES ASSUME NEW p \in Ids, NEW q \in Ids, provisions'[p] # NoProvision,
                      provisions'[p].email = provisions'[q].email
               PROVE  p = q
    OBVIOUS
  <2>1. provisions'[p] = provisions[p] BY <1>6
  <2>2. provisions[p].email # NoProvision.email
    <3>1. provisions[p].email \in Emails BY <2>1 DEF IInv, RowsKept
    <3>2. NoProvision.email = "" BY DEF NoProvision
    <3> QED BY <3>1, <3>2
  <2>3. provisions'[q] = provisions[q] BY <1>6, <2>1, <2>2
  <2> QED BY <2>1, <2>3 DEF IInv, RowsKept
<1>9. \A p \in Ids : provisions'[p].user # 0 =>
        provisions'[p].user \in Ids /\ users'[provisions'[p].user].provision = p
  <2> SUFFICES ASSUME NEW p \in Ids, provisions'[p].user # 0
               PROVE  provisions'[p].user \in Ids /\ users'[provisions'[p].user].provision = p
    OBVIOUS
  <2>1. provisions'[p] = provisions[p] /\ provisions[p].user # id BY <1>1, <1>3
  <2>2. provisions[p].user \in Ids /\ users[provisions[p].user].provision = p BY <2>1 DEF IInv, RowsKept
  <2> QED BY <1>2, <2>1, <2>2
<1>10. RowsKept' BY <1>5, <1>6, <1>7, <1>8, <1>9 DEF IInv, RowsKept
<1>11. Milder(provisions, users, provisions', users') BY <1>5, <1>6 DEF Milder
<1> QED BY <1>4, <1>10, <1>11

LEMMA ActivateIInv ==
  ASSUME IInv, MaxMade \in Nat, "" \notin Emails, 0 \notin Slots, NEW k \in Slots, activate_user(k)
  PROVE  IInv'
<1> DEFINE r == requests[k]
           p == r.provision
           id == r.user
<1>1. r \in Request /\ r.step = "activate" /\ Fits(r, provisions, users, made) /\ Active(r)
  BY DEF activate_user, IInv, RequestsKept, Active
<1>2. UNCHANGED made BY DEF activate_user
<1>3. p \in Ids /\ id \in Ids /\ r.given \in Ids
  <2>1. p \in 1 .. made /\ id \in 1 .. made /\ r.given \in 1 .. made BY <1>1 DEF Fits, Placed
  <2>2. 1 .. made \subseteq Ids BY Numbers DEF IInv
  <2> QED BY <2>1, <2>2
<1>4. desk.busy = k => r.given = id
  <2>1. desk.busy = k => r.key # ClientKey
    <3>1. k # 0 OBVIOUS
    <3> QED BY <3>1 DEF IInv, DeskKept
  <2> QED BY <1>1, <2>1 DEF Fits, Own
<1>5. ASSUME Answers(k, id) PROVE DeskKept' BY <1>3, <1>4, <1>5, Shows DEF IInv
<1>6. ASSUME Answers(k, id), UNCHANGED <<provisions, users>> PROVE IInv'
  <2>1. RequestsKept' BY <1>2, <1>6, OthersFit, Over DEF Answers, IInv
  <2> QED BY <1>2, <1>5, <1>6, <2>1 DEF IInv, RowTypes, RowsKept
<1>7. ASSUME provisions[p] # NoProvision, users[id].email = provisions[p].email, Answers(k, id),
             provisions' = [provisions EXCEPT ![p].user = id],
             users' = [users EXCEPT ![id].active = TRUE, ![id].version = @ + 1]
      PROVE  IInv'
  <2> HIDE DEF p, id
  <2>1. provisions[p].email \in Emails BY <1>3, <1>7 DEF IInv, RowsKept
  <2>2. users[id] # NoUser
    <3>1. NoUser.email = "" BY DEF NoUser
    <3> QED BY <1>7, <2>1, <3>1
  <2>3. users[id].provision = p BY <1>1, <2>2 DEF Fits, p, id
  <2>4. id \in Nat BY <1>3, Numbers DEF IInv
  <2>5. /\ provisions' \in [Ids -> Provision] /\ provisions'[p].user = id
        /\ provisions'[p].email = provisions[p].email /\ provisions'[p].key = provisions[p].key
        /\ \A q \in Ids : q # p => provisions'[q] = provisions[q]
    BY <1>3, <1>7, <2>4 DEF IInv, RowTypes, Provision
  <2>6. /\ users' \in [Ids -> User] /\ users'[id].email = users[id].email
        /\ users'[id].given = users[id].given /\ users'[id].provision = users[id].provision
        /\ \A u \in Ids : u # id => users'[u] = users[u]
    <3>1. users[id] \in User BY <1>3 DEF IInv, RowTypes
    <3> DEFINE v == [users[id] EXCEPT !.active = TRUE, !.version = @ + 1]
    <3>2. users' = [users EXCEPT ![id] = v] BY <1>3, <1>7 DEF IInv, RowTypes
    <3>3. /\ v \in User /\ v.email = users[id].email /\ v.given = users[id].given
          /\ v.provision = users[id].provision
      BY <3>1, Touched
    <3> HIDE DEF v
    <3> QED BY <1>3, <3>2, <3>3 DEF IInv, RowTypes
  <2>7. \A q \in Ids : /\ provisions'[q].email = provisions[q].email /\ provisions'[q].key = provisions[q].key
                       /\ provisions'[q] # NoProvision => provisions[q] # NoProvision
    BY <1>7, <2>5
  <2>8. \A u \in Ids : /\ users'[u].email = users[u].email /\ users'[u].given = users[u].given
                       /\ users'[u].provision = users[u].provision
                       /\ users'[u] # NoUser => users[u] # NoUser
    BY <2>2, <2>6
  <2>9. \A q \in Ids : provisions'[q].user # 0 =>
          provisions'[q].user \in Ids /\ users'[provisions'[q].user].provision = q
    <3>1. ASSUME NEW q \in Ids, provisions'[q].user # 0
          PROVE  provisions'[q].user \in Ids /\ users[provisions'[q].user].provision = q
      <4>1. CASE q = p BY <1>3, <2>3, <2>5, <4>1
      <4>2. CASE q # p
        <5>1. provisions'[q] = provisions[q] BY <2>5, <4>2
        <5> QED BY <3>1, <5>1 DEF IInv, RowsKept
      <4> QED BY <4>1, <4>2
    <3> QED BY <2>8, <3>1
  <2>10. RowTypes' BY <1>2, <2>5, <2>6 DEF IInv, RowTypes
  <2>11. RowsKept'
    <3>1. \A q \in Ids : provisions'[q] # NoProvision =>
            q <= made /\ provisions'[q].email \in Emails /\ provisions'[q].key \in {q, ClientKey}
      BY <2>7 DEF IInv, RowsKept
    <3>2. \A u \in Ids : users'[u] # NoUser =>
            u <= made /\ users'[u].email \in Emails /\ users'[u].given = u /\ users'[u].provision \in 1 .. made
      BY <2>8 DEF IInv, RowsKept
    <3>3. \A u, v \in Ids : users'[u] # NoUser /\ users'[u].email = users'[v].email => u = v
      <4>1. \A u, v \in Ids : users[u] # NoUser /\ users[u].email = users[v].email => u = v
        BY DEF IInv, RowsKept
      <4> QED BY <2>8, <4>1
    <3>4. \A q, s \in Ids : provisions'[q] # NoProvision /\ provisions'[q].email = provisions'[s].email => q = s
      <4>1. \A q, s \in Ids : provisions[q] # NoProvision /\ provisions[q].email = provisions[s].email => q = s
        BY DEF IInv, RowsKept
      <4> QED BY <2>7, <4>1
    <3> QED BY <1>2, <2>9, <3>1, <3>2, <3>3, <3>4 DEF RowsKept
  <2>12. Milder(provisions, users, provisions', users') BY <2>7, <2>8 DEF Milder
  <2>13. \A j \in Slots \ {k} : Fits(requests[j], provisions', users', made')
    BY <1>2, <2>12, MilderFits DEF IInv, RowTypes, RequestsKept
  <2>14. RequestsKept' BY <1>7, <2>13, Over DEF Answers, IInv
  <2> QED BY <1>5, <1>7, <2>10, <2>11, <2>14 DEF IInv
<1>8. ASSUME Fails(k), UNCHANGED <<provisions, users>> PROVE IInv' BY <1>2, <1>8, FailsIInv
<1> QED BY <1>6, <1>7, <1>8 DEF activate_user

LEMMA LostIInv ==
  ASSUME IInv, 0 \notin Slots, NEW k \in Slots, Lost(k)
  PROVE  IInv'
BY FailsIInv DEF Lost

-----------------------------------------------------------------------------
\* The rows, wherever they are changed, and the workspace.

LEMMA RowsMilder ==
  ASSUME IInv, MaxMade \in Nat, UNCHANGED <<requests, made>>,
         RowTypes', RowsKept', Milder(provisions, users, provisions', users')
  PROVE  RequestsKept'
BY MilderFits DEF IInv, RequestsKept, RowTypes

\* An edit of an account, its new credentials and its removal.
LEMMA RowChanges ==
  ASSUME IInv, MaxMade \in Nat, "" \notin Emails, UNCHANGED <<requests, made>>, NEW id \in Ids, users[id] # NoUser,
         \/ \E active \in BOOLEAN : user_update(id, active)
         \/ \E e \in Emails : HasUser(e) \subseteq {id} /\ credentials(id, e)
         \/ sd_delete_staff(id)
  PROVE  RowTypes' /\ RowsKept' /\ RequestsKept'
<1>1. users[id] \in User /\ users[id].email \in Emails BY DEF IInv, RowTypes, RowsKept
<1>2. HasUser(users[id].email) \subseteq {id} BY DEF HasUser, IInv, RowsKept
<1>3. ASSUME NEW active \in BOOLEAN, user_update(id, active) PROVE RowTypes' /\ RowsKept' /\ Milder(provisions, users, provisions', users')
  <2> DEFINE u2 == [users[id] EXCEPT !.active = active, !.version = @ + 1]
  <2>1. /\ u2 \in User /\ u2.email = users[id].email /\ u2.given = users[id].given
        /\ u2.provision = users[id].provision
    BY <1>1, Touched
  <2>2. users' = [users EXCEPT ![id] = u2] /\ UNCHANGED provisions
    BY <1>1, <1>3 DEF user_update, IInv, RowTypes
  <2> HIDE DEF u2
  <2> QED BY <1>1, <1>2, <2>1, <2>2, Edited
<1>4. ASSUME NEW e \in Emails, HasUser(e) \subseteq {id}, credentials(id, e)
      PROVE  RowTypes' /\ RowsKept' /\ Milder(provisions, users, provisions', users')
  <2> DEFINE u2 == [users[id] EXCEPT !.email = e, !.version = @ + 1]
  <2>1. /\ u2 \in User /\ u2.email = e /\ u2.given = users[id].given /\ u2.provision = users[id].provision
    BY <1>1, Readdressed
  <2>2. users' = [users EXCEPT ![id] = u2] /\ UNCHANGED provisions
    BY <1>1, <1>4 DEF credentials, IInv, RowTypes
  <2> HIDE DEF u2
  <2> QED BY <1>4, <2>1, <2>2, Edited
<1>5. ASSUME sd_delete_staff(id) PROVE RowTypes' /\ RowsKept' /\ Milder(provisions, users, provisions', users')
  BY <1>5, Deleted
<1> QED BY <1>3, <1>4, <1>5, RowsMilder

LEMMA ElsewhereIInv ==
  ASSUME IInv, MaxMade \in Nat, "" \notin Emails, NEW id \in Ids, Elsewhere(id)
  PROVE  IInv'
<1>1. users[id] # NoUser /\ UNCHANGED <<made, requests, desk>> BY DEF Elsewhere
<1>3. (~users[id].active) \in BOOLEAN BY Zenon
<1>4. RowTypes' /\ RowsKept' /\ RequestsKept' BY <1>1, <1>3, RowChanges DEF Elsewhere
<1> QED BY <1>1, <1>4 DEF IInv, DeskKept

LEMMA Following ==
  ASSUME MaxMade \in Nat, RowTypes, made < MaxMade
  PROVE  /\ made + 1 \in Nat /\ made + 1 # 0 /\ made + 1 \in 0 .. MaxMade /\ made + 1 \in Ids /\ made + 1 # ClientKey
         /\ 1 .. made \subseteq 1 .. (made + 1) /\ made + 1 \in 1 .. (made + 1)
         /\ made + 1 \notin 1 .. made /\ ~(made + 1 <= made)
         /\ \A p \in Ids : p <= made => p <= made + 1
<1>1. made \in 0 .. MaxMade BY DEF RowTypes
<1> QED BY <1>1 DEF Ids, ClientKey

\* A new request, with a number of its own.
LEMMA Begins ==
  ASSUME IInv, MaxMade \in Nat, "" \notin Emails, NEW k \in Slots, made < MaxMade, NEW e \in Emails,
         NEW key \in {made + 1, ClientKey}, made' = made + 1, UNCHANGED <<provisions, users>>,
         requests' = [requests EXCEPT ![k] =
           [NoRequest EXCEPT !.step = "reserve", !.email = e, !.key = key, !.given = made + 1]]
  PROVE  RowTypes' /\ RowsKept' /\ RequestsKept'
<1> DEFINE q == [NoRequest EXCEPT !.step = "reserve", !.email = e, !.key = key, !.given = made + 1]
           n == made + 1
<1>1. n \in Nat /\ n \in 0 .. MaxMade /\ n \in Ids /\ n # 0 BY Following DEF IInv
<1>2. /\ q \in Request /\ q.step = "reserve" /\ q.email = e /\ q.key = key /\ q.given = n
  <2>1. key \in Nat BY <1>1, Numbers DEF IInv
  <2> HIDE DEF n
  <2>2. q = [NoRequest EXCEPT !.step = "reserve", !.email = e, !.key = key, !.given = n] BY DEF n
  <2> QED BY <1>1, <2>1, <2>2 DEF NoRequest, Request
<1>3. 1 .. made \subseteq 1 .. n /\ n \in 1 .. n /\ n \notin 1 .. made /\ ~(n <= made) BY Following DEF IInv
<1>4. provisions[n] = NoProvision /\ users[n] = NoUser BY <1>1, <1>3 DEF IInv, RowsKept
<1>5. \A u \in Ids : users[u].provision # n
  <2>1. \A u \in Ids : users[u] # NoUser => users[u].provision \in 1 .. made BY DEF IInv, RowsKept
  <2>2. NoUser.provision = 0 BY DEF NoUser
  <2> QED BY <1>1, <1>3, <2>1, <2>2
<1>6. NoProvision.key = 0 BY DEF NoProvision
<1> HIDE DEF q
<1>7. Active(q) /\ Early(q) /\ ~Placed(q) /\ q.step # "activate" BY <1>2 DEF Active, Early, Placed
<1>8. RowTypes' BY <1>1 DEF IInv, RowTypes
<1>9. \A p \in Ids : p <= made => p <= n BY Following DEF IInv
<1> HIDE DEF n
<1>10. made' = n BY DEF n
<1>11. RowsKept'
  <2>1. \A p \in Ids : provisions[p] # NoProvision =>
          p <= n /\ provisions[p].email \in Emails /\ provisions[p].key \in {p, ClientKey}
    BY <1>9 DEF IInv, RowsKept
  <2>2. \A u \in Ids : users[u] # NoUser =>
          u <= n /\ users[u].email \in Emails /\ users[u].given = u /\ users[u].provision \in 1 .. n
    BY <1>3, <1>9 DEF IInv, RowsKept
  <2>3. \A u, v \in Ids : users[u] # NoUser /\ users[u].email = users[v].email => u = v
    BY DEF IInv, RowsKept
  <2>4. \A p, s \in Ids : provisions[p] # NoProvision /\ provisions[p].email = provisions[s].email => p = s
    BY DEF IInv, RowsKept
  <2>5. \A p \in Ids : provisions[p].user # 0 =>
          provisions[p].user \in Ids /\ users[provisions[p].user].provision = p
    BY DEF IInv, RowsKept
  <2>6. UNCHANGED <<provisions, users>> OBVIOUS
  <2>7. \A p \in Ids : provisions'[p] # NoProvision =>
          p <= made' /\ provisions'[p].email \in Emails /\ provisions'[p].key \in {p, ClientKey}
    BY <1>10, <2>1, <2>6
  <2>8. \A u \in Ids : users'[u] # NoUser =>
          u <= made' /\ users'[u].email \in Emails /\ users'[u].given = u /\ users'[u].provision \in 1 .. made'
    BY <1>10, <2>2, <2>6
  <2>9. \A u, v \in Ids : users'[u] # NoUser /\ users'[u].email = users'[v].email => u = v BY <2>3, <2>6
  <2>10. \A p, s \in Ids : provisions'[p] # NoProvision /\ provisions'[p].email = provisions'[s].email => p = s
    BY <2>4, <2>6
  <2>11. \A p \in Ids : provisions'[p].user # 0 =>
           provisions'[p].user \in Ids /\ users'[provisions'[p].user].provision = p
    BY <2>5, <2>6
  <2> QED BY <2>7, <2>8, <2>9, <2>10, <2>11 DEF RowsKept
<1>12. Fits(q, provisions', users', made')
  BY <1>2, <1>3, <1>4, <1>5, <1>6, <1>7, <1>10 DEF Fits, n
<1>13. ASSUME NEW j \in Slots \ {k}
       PROVE  /\ Fits(requests[j], provisions', users', made')
              /\ Apart(requests[j], q) /\ Apart(q, requests[j])
  <2> DEFINE r == requests[j]
  <2>1. Fits(r, provisions, users, made) BY DEF IInv, RequestsKept
  <2>2. Active(r) => /\ r.given \in 1 .. made
                     /\ Placed(r) => r.provision \in 1 .. made
                     /\ r.step = "activate" => r.user \in 1 .. made
    BY <2>1 DEF Fits
  <2> HIDE DEF r
  <2>3. Fits(r, provisions', users', made') BY <1>3, <1>10, <2>1, <2>2 DEF Fits
  <2>4. Apart(r, q) /\ Apart(q, r)
    BY <1>2, <1>3, <1>7, <2>2 DEF Apart
  <2> QED BY <2>3, <2>4 DEF r
<1>14. RequestsKept' BY <1>2, <1>12, <1>13, Moved DEF IInv, q
<1> QED BY <1>8, <1>11, <1>14

LEMMA AgainIInv ==
  ASSUME IInv, MaxMade \in Nat, "" \notin Emails, 0 \notin Slots, NEW k \in Slots, NEW e \in Emails, Again(k, e)
  PROVE  IInv'
<1>1. RowTypes' /\ RowsKept' /\ RequestsKept' BY Begins DEF Again
<1>2. requests \in [Slots -> Request] BY DEF IInv, RequestsKept
<1>3. \A j \in Slots \ {k} : requests'[j] = requests[j] BY <1>2 DEF Again
<1>4. desk.busy # k
  <2>1. ~Active(requests[k])
    <3>1. requests[k] = NoRequest BY DEF Again
    <3>2. NoRequest.step = "none" BY DEF NoRequest
    <3> QED BY <3>1, <3>2 DEF Active
  <2>2. k # 0 OBVIOUS
  <2> QED BY <2>1, <2>2 DEF IInv, DeskKept
<1>5. DeskKept' BY <1>3, <1>4 DEF Again, IInv, DeskKept
<1> QED BY <1>1, <1>5 DEF IInv

LEMMA StaffFormIInv ==
  ASSUME IInv, MaxMade \in Nat, "" \notin Emails, 0 \notin Slots, NEW k \in Slots, NEW e \in Emails, StaffForm(k, e)
  PROVE  IInv'
<1>1. RowTypes' /\ RowsKept' /\ RequestsKept' BY Begins DEF StaffForm, Key
<1>2. requests' \in [Slots -> Request] BY <1>1 DEF RequestsKept
<1>3. made + 1 # ClientKey BY Following DEF StaffForm, IInv
<1>4. requests'[k].step = "reserve" /\ requests'[k].key = made + 1
  <2>1. requests \in [Slots -> Request] BY DEF IInv, RequestsKept
  <2> QED BY <2>1 DEF StaffForm, NoRequest, Key
<1>5. /\ desk'.rows = desk.rows /\ desk'.form = desk.form /\ desk'.busy = k /\ desk'.card = desk.card
      /\ desk' \in [rows : {desk'.rows}, form : {desk'.form}, busy : {desk'.busy}, card : {desk'.card}]
  BY DEF StaffForm, IInv, DeskKept
<1>6. DeskKept' BY <1>3, <1>4, <1>5 DEF IInv, DeskKept, Active
<1> QED BY <1>1, <1>6 DEF IInv

\* The section reads the accounts, and shows a form with nothing to wait for.
LEMMA LoadIInv ==
  ASSUME IInv, load
  PROVE  IInv'
<1>1. UNCHANGED <<provisions, users, made, requests>> /\ desk' = [desk EXCEPT !.rows = Rows] BY DEF load
<1>2. /\ desk'.rows = Rows /\ desk'.form = desk.form /\ desk'.busy = desk.busy /\ desk'.card = desk.card
      /\ desk' \in [rows : {desk'.rows}, form : {desk'.form}, busy : {desk'.busy}, card : {desk'.card}]
  BY <1>1 DEF IInv, DeskKept
<1>3. \A r \in Rows : r.id \in Ids BY DEF Rows
<1>4. DeskKept' BY <1>1, <1>2, <1>3 DEF IInv, DeskKept
<1> QED BY <1>1, <1>4 DEF IInv, RowTypes, RowsKept, RequestsKept

LEMMA OpensIInv ==
  ASSUME IInv, NEW form, form.id \in {0} \cup Ids, form.kind # "card", Opens(form)
  PROVE  IInv'
<1>1. UNCHANGED <<provisions, users, made, requests>> BY DEF Opens
<1>2. /\ desk'.rows = desk.rows /\ desk'.form = form /\ desk'.busy = 0 /\ desk'.card = desk.card
      /\ desk' \in [rows : {desk'.rows}, form : {desk'.form}, busy : {desk'.busy}, card : {desk'.card}]
  BY DEF Opens, Shown, IInv, DeskKept
<1>3. DeskKept' BY <1>1, <1>2 DEF IInv, DeskKept
<1> QED BY <1>1, <1>3 DEF IInv, RowTypes, RowsKept, RequestsKept

LEMMA FormsIInv ==
  ASSUME IInv,
         \/ AddStaff \/ Close
         \/ \E r \in desk.rows : \E kind \in {"edit", "deactivate", "credentials", "delete"} : RowButton(r, kind)
  PROVE  IInv'
<1>1. CASE AddStaff
  <2> DEFINE f == [NoForm EXCEPT !.kind = "create"]
  <2>1. f.id = 0 /\ f.kind # "card" BY DEF NoForm
  <2>2. Opens(f) BY <1>1 DEF AddStaff
  <2> HIDE DEF f
  <2> QED BY <2>1, <2>2, OpensIInv
<1>2. CASE Close
  <2>1. NoForm.id = 0 /\ NoForm.kind # "card" BY DEF NoForm
  <2> QED BY <1>2, <2>1, OpensIInv DEF Close
<1>3. ASSUME NEW r \in desk.rows, NEW kind \in {"edit", "deactivate", "credentials", "delete"}, RowButton(r, kind)
      PROVE  IInv'
  <2> DEFINE f == [kind |-> kind, id |-> r.id, version |-> r.version]
  <2>1. f.id \in Ids /\ f.kind # "card" BY DEF IInv, DeskKept
  <2>2. Opens(f) BY <1>3 DEF RowButton
  <2> HIDE DEF f
  <2> QED BY <2>1, <2>2, OpensIInv
<1> QED BY <1>1, <1>2, <1>3

LEMMA SavesIInv ==
  ASSUME IInv, MaxMade \in Nat, "" \notin Emails, Saves
  PROVE  IInv'
<1>1. desk.form.id \in Ids /\ users[desk.form.id] # NoUser /\ UNCHANGED <<made, requests>>
  BY DEF Saves, IInv, DeskKept
<1>2. \/ \E active \in BOOLEAN : user_update(desk.form.id, active)
      \/ \E e \in Emails : HasUser(e) \subseteq {desk.form.id} /\ credentials(desk.form.id, e)
      \/ sd_delete_staff(desk.form.id)
  BY Zenon DEF Saves
<1>3. RowTypes' /\ RowsKept' /\ RequestsKept' BY <1>1, <1>2, RowChanges
<1> DEFINE rows == {[id |-> u, active |-> users'[u].active, version |-> users'[u].version] :
                    u \in {v \in Ids : users'[v] # NoUser}}
<1>4. desk' = [Shown(desk, NoForm) EXCEPT !.rows = rows] BY DEF Saves
<1>5. ASSUME NEW r \in rows PROVE r.id \in Ids
  <2>1. PICK u \in Ids : r = [id |-> u, active |-> users'[u].active, version |-> users'[u].version] OBVIOUS
  <2>2. r.id = u BY <2>1
  <2> QED BY <2>2
<1> HIDE DEF rows
<1>6. /\ desk'.rows = rows /\ desk'.form = NoForm /\ desk'.busy = 0 /\ desk'.card = desk.card
      /\ desk' \in [rows : {desk'.rows}, form : {desk'.form}, busy : {desk'.busy}, card : {desk'.card}]
  BY <1>4 DEF Shown, IInv, DeskKept
<1>7. NoForm.id = 0 /\ NoForm.kind # "card" BY DEF NoForm
<1>8. DeskKept' BY <1>5, <1>6, <1>7 DEF DeskKept
<1> QED BY <1>3, <1>8 DEF IInv

LEMMA ReactivateIInv ==
  ASSUME IInv, MaxMade \in Nat, "" \notin Emails, NEW r \in desk.rows, Reactivate(r)
  PROVE  IInv'
<1>1. r.id \in Ids /\ users[r.id] # NoUser /\ UNCHANGED <<made, requests, desk>> BY DEF Reactivate, IInv, DeskKept
<1>2. \E active \in BOOLEAN : user_update(r.id, active) BY Zenon DEF Reactivate
<1>3. RowTypes' /\ RowsKept' /\ RequestsKept' BY <1>1, <1>2, RowChanges
<1> QED BY <1>1, <1>3 DEF IInv, DeskKept

-----------------------------------------------------------------------------
LEMMA InitIInv ==
  ASSUME MaxMade \in Nat, Init
  PROVE  IInv
<1>1. NoProvision \in Provision /\ NoUser \in User /\ NoProvision.user = 0
  BY DEF NoProvision, NoUser, Provision, User
<1>2. RowTypes BY <1>1 DEF Init, RowTypes
<1>3. \A i \in Ids : provisions[i] = NoProvision /\ users[i] = NoUser BY DEF Init
<1>4. RowsKept BY <1>1, <1>3 DEF RowsKept
<1>5. NoRequest \in Request /\ ~Active(NoRequest) BY DEF NoRequest, Request, Active
<1>6. requests \in [Slots -> Request] /\ \A k \in Slots : ~Active(requests[k]) BY <1>5 DEF Init
<1>7. RequestsKept BY <1>6 DEF RequestsKept, Fits, Apart
<1>8. DeskKept BY DEF Init, DeskKept, NoForm
<1> QED BY <1>2, <1>4, <1>7, <1>8 DEF IInv

LEMMA NextIInv ==
  ASSUME IInv, MaxMade \in Nat, "" \notin Emails, 0 \notin Slots, [Next]_vars
  PROVE  IInv'
<1>1. CASE load BY <1>1, LoadIInv
<1>2. CASE AddStaff \/ Close BY <1>2, FormsIInv
<1>3. CASE Saves BY <1>3, SavesIInv
<1>4. ASSUME NEW k \in Slots, reserve_user(k) \/ lookup(k) \/ insert(k) \/ activate_user(k) \/ Lost(k)
      PROVE  IInv'
  BY <1>4, ReserveIInv, LookupIInv, InsertIInv, ActivateIInv, LostIInv
<1>5. ASSUME NEW k \in Slots, NEW e \in Emails, StaffForm(k, e) \/ Again(k, e) PROVE IInv'
  BY <1>5, StaffFormIInv, AgainIInv
<1>6. ASSUME NEW id \in Ids, Elsewhere(id) PROVE IInv' BY <1>6, ElsewhereIInv
<1>7. ASSUME NEW r \in desk.rows, Reactivate(r) PROVE IInv' BY <1>7, ReactivateIInv
<1>8. ASSUME NEW r \in desk.rows, NEW kind \in {"edit", "deactivate", "credentials", "delete"}, RowButton(r, kind)
      PROVE  IInv'
  BY <1>8, FormsIInv
<1>9. CASE UNCHANGED vars BY <1>9 DEF vars, IInv, RowTypes, RowsKept, RequestsKept, DeskKept
<1> QED BY <1>1, <1>2, <1>3, <1>4, <1>5, <1>6, <1>7, <1>8, <1>9 DEF Next

-----------------------------------------------------------------------------
LEMMA IInvProvisionedOnce ==
  ASSUME IInv, MaxMade \in Nat, "" \notin Emails
  PROVE  ProvisionedOnce
<1>1. ASSUME NEW e \in Emails
      PROVE  (\A u, v \in HasUser(e) : u = v) /\ (\A p, q \in HasProvision(e) : p = q)
  <2>1. \A u \in HasUser(e) : users[u] # NoUser
    <3>1. NoUser.email = "" BY DEF NoUser
    <3> QED BY <3>1 DEF HasUser
  <2>2. \A p \in HasProvision(e) : provisions[p] # NoProvision
    <3>1. NoProvision.email = "" BY DEF NoProvision
    <3> QED BY <3>1 DEF HasProvision
  <2>3. \A u, v \in HasUser(e) : u = v BY <2>1 DEF HasUser, IInv, RowsKept
  <2>4. \A p, q \in HasProvision(e) : p = q BY <2>2 DEF HasProvision, IInv, RowsKept
  <2> QED BY <2>3, <2>4
<1>2. \A p \in Ids : provisions[p].user # 0 => users[provisions[p].user].provision = p BY DEF IInv, RowsKept
<1>3. desk.form.kind = "card" => users[desk.card.user] = NoUser \/ users[desk.card.user].given = desk.card.given
  BY DEF IInv, DeskKept, RowsKept
<1> QED BY <1>1, <1>2, <1>3 DEF ProvisionedOnce

\* An e-mail has one account and one reservation, an active reservation names
\* the account made for it, and the form hands over that account's password
\* (UserService.create, reserve_user, activate_user, StaffForm).
THEOREM Provisioning ==
  ASSUME MaxMade \in Nat, "" \notin Emails, 0 \notin Slots
  PROVE  Spec => []ProvisionedOnce
<1>1. Init => IInv BY InitIInv
<1>2. IInv /\ [Next]_vars => IInv' BY NextIInv
<1>3. IInv => ProvisionedOnce BY IInvProvisionedOnce
<1> QED BY <1>1, <1>2, <1>3, PTL DEF Spec

-----------------------------------------------------------------------------
\* What is left of TypeOK: the count of the choices, and what form is open.
FormKinds == {"none", "create", "card", "edit", "credentials", "deactivate", "delete"}
Bounds == events \in 0 .. MaxEvents /\ desk.form.kind \in FormKinds

LEMMA Counted ==
  ASSUME MaxEvents \in Nat, events \in 0 .. MaxEvents, Event \/ UNCHANGED events
  PROVE  events' \in 0 .. MaxEvents
BY DEF Event

LEMMA Forms ==
  ASSUME NEW d, d \in [rows : {d.rows}, form : {d.form}, busy : {d.busy}, card : {d.card}], NEW k
  PROVE  /\ [d EXCEPT !.busy = k].form = d.form
         /\ \A form : Shown(d, form).form = form
         /\ \A S : [d EXCEPT !.rows = S].form = d.form
         /\ \A form, c : [Shown(d, form) EXCEPT !.card = c].form = form
         /\ \A form, S : [Shown(d, form) EXCEPT !.rows = S].form = form
BY DEF Shown

LEMMA KindsOpened ==
  /\ NoForm.kind \in FormKinds
  /\ \A kind \in FormKinds : [NoForm EXCEPT !.kind = kind].kind = kind
BY DEF NoForm, FormKinds

LEMMA BoundsNext ==
  ASSUME IInv, Bounds, MaxEvents \in Nat, [Next]_vars
  PROVE  Bounds'
<1> DEFINE d == desk
<1>1. d \in [rows : {d.rows}, form : {d.form}, busy : {d.busy}, card : {d.card}] BY DEF IInv, DeskKept
<1>2. ASSUME NEW k, Fails(k) PROVE desk'.form = desk.form BY <1>1, <1>2, Forms DEF Fails
<1>3. ASSUME NEW k, NEW u, Answers(k, u) PROVE desk'.form.kind \in FormKinds
  <2>1. CASE desk.busy # k BY <1>3, <2>1 DEF Answers, Bounds
  <2>2. CASE desk.busy = k
    <3> DEFINE form == [NoForm EXCEPT !.kind = "card"]
               card == [user |-> u, given |-> requests[k].given]
    <3>1. desk' = [Shown(desk, form) EXCEPT !.card = card] BY <1>3, <2>2 DEF Answers
    <3>2. form.kind \in FormKinds BY KindsOpened DEF FormKinds
    <3> HIDE DEF form, card
    <3>3. desk'.form = form BY <1>1, <3>1, Forms
    <3> QED BY <3>2, <3>3
  <2> QED BY <2>1, <2>2
<1>4. ASSUME NEW k, NEW r, Continues(k, r) PROVE desk'.form = desk.form BY <1>4 DEF Continues
<1>5. ASSUME NEW form, Opens(form) PROVE desk'.form = form BY <1>1, <1>5, Forms DEF Opens
<1> HIDE DEF d
<1>6. CASE load \/ AddStaff \/ Close \/ Saves
  <2>1. CASE load BY <1>1, <2>1, Forms DEF load, Bounds, d
  <2>2. CASE AddStaff BY <1>5, <2>2, KindsOpened, Counted DEF AddStaff, Bounds, FormKinds
  <2>3. CASE Close BY <1>5, <2>3, KindsOpened DEF Close, Bounds
  <2>4. CASE Saves
    <3>1. desk'.form = NoForm /\ UNCHANGED events BY <1>1, <2>4, Forms DEF Saves, d
    <3> QED BY <3>1, KindsOpened DEF Bounds
  <2> QED BY <1>6, <2>1, <2>2, <2>3, <2>4
<1>7. ASSUME NEW k \in Slots, reserve_user(k) \/ lookup(k) \/ insert(k) \/ activate_user(k) \/ Lost(k)
      PROVE  Bounds'
  <2>1. CASE reserve_user(k)
    <3>1. (\E u : Answers(k, u)) \/ Fails(k) \/ (\E r : Continues(k, r)) BY <2>1 DEF reserve_user
    <3>2. UNCHANGED events BY <2>1 DEF reserve_user
    <3> QED BY <3>1, <3>2, <1>2, <1>3, <1>4 DEF Bounds
  <2>2. CASE lookup(k)
    <3>1. Fails(k) \/ (\E r : Continues(k, r)) BY <2>2 DEF lookup
    <3>2. UNCHANGED events BY <2>2 DEF lookup
    <3> QED BY <3>1, <3>2, <1>2, <1>4 DEF Bounds
  <2>3. CASE insert(k)
    <3>1. Fails(k) \/ (\E r : Continues(k, r)) BY <2>3 DEF insert
    <3>2. UNCHANGED events BY <2>3 DEF insert
    <3> QED BY <3>1, <3>2, <1>2, <1>4 DEF Bounds
  <2>4. CASE activate_user(k)
    <3>1. (\E u : Answers(k, u)) \/ Fails(k) BY <2>4 DEF activate_user
    <3>2. UNCHANGED events BY <2>4 DEF activate_user
    <3> QED BY <3>1, <3>2, <1>2, <1>3 DEF Bounds
  <2>5. CASE Lost(k) BY <2>5, <1>2, Counted DEF Lost, Bounds
  <2> QED BY <1>7, <2>1, <2>2, <2>3, <2>4, <2>5
<1>8. ASSUME NEW k \in Slots, NEW e \in Emails, StaffForm(k, e) \/ Again(k, e) PROVE Bounds'
  <2>1. CASE StaffForm(k, e) BY <1>1, <2>1, Forms DEF StaffForm, Bounds, d
  <2>2. CASE Again(k, e) BY <2>2, Counted DEF Again, Bounds
  <2> QED BY <1>8, <2>1, <2>2
<1>9. ASSUME NEW id \in Ids, Elsewhere(id) PROVE Bounds' BY <1>9, Counted DEF Elsewhere, Bounds
<1>10. ASSUME NEW r \in desk.rows, Reactivate(r) PROVE Bounds' BY <1>10, Counted DEF Reactivate, Bounds
<1>11. ASSUME NEW r \in desk.rows, NEW kind \in {"edit", "deactivate", "credentials", "delete"}, RowButton(r, kind)
       PROVE  Bounds'
  <2>1. desk'.form = [kind |-> kind, id |-> r.id, version |-> r.version] BY <1>5, <1>11 DEF RowButton
  <2>2. desk'.form.kind \in FormKinds BY <2>1 DEF FormKinds
  <2> QED BY <1>11, <2>2, Counted DEF RowButton, Bounds
<1>12. CASE UNCHANGED vars BY <1>12 DEF vars, Bounds
<1> QED BY <1>6, <1>7, <1>8, <1>9, <1>10, <1>11, <1>12 DEF Next

LEMMA BoundsInit ==
  ASSUME Init, MaxEvents \in Nat
  PROVE  Bounds
BY DEF Init, Bounds, FormKinds, NoForm

LEMMA Types ==
  ASSUME IInv, Bounds, MaxMade \in Nat
  PROVE  TypeOK
<1>1. made \in 0 .. MaxMade /\ events \in 0 .. MaxEvents BY DEF IInv, RowTypes, Bounds
<1>2. ASSUME NEW i \in Ids
      PROVE  /\ provisions[i] = NoProvision \/ provisions[i].email \in Emails
             /\ users[i] = NoUser \/ (users[i].email \in Emails /\ users[i].provision \in Ids)
  BY <1>1 DEF IInv, RowsKept, Ids
<1>3. \A k \in Slots : requests[k].step \in {"none", "reserve", "lookup", "insert", "activate"}
  BY DEF IInv, RequestsKept, Request
<1>4. desk.form.kind \in FormKinds /\ desk.busy \in {0} \cup Slots BY DEF IInv, DeskKept, Bounds
<1> QED BY <1>1, <1>2, <1>3, <1>4 DEF TypeOK, FormKinds

\* The desk of the accounts keeps its types and its bounds (AccountDesk.TypeOK).
THEOREM AccountTypes ==
  ASSUME MaxMade \in Nat, MaxEvents \in Nat, "" \notin Emails, 0 \notin Slots
  PROVE  Spec => []TypeOK
<1>1. Init => IInv /\ Bounds BY InitIInv, BoundsInit
<1>2. IInv /\ Bounds /\ [Next]_vars => (IInv /\ Bounds)' BY NextIInv, BoundsNext
<1>3. IInv /\ Bounds => TypeOK BY Types
<1> QED BY <1>1, <1>2, <1>3, PTL DEF Spec

=============================================================================
