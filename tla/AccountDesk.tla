------------------------------ MODULE AccountDesk ------------------------------
(***************************************************************************)
(* The manager's staff accounts.  An account is provisioned in four        *)
(* transactions: the e-mail is reserved under the key of the request, a    *)
(* user of that e-mail is looked for, one is inserted with an inactive     *)
(* profile, and the profile is activated (UserService.create).  A request  *)
(* that stopped half-way may be made again under its key by a client of    *)
(* the API; the form of the workspace takes a new key for every attempt.   *)
(*                                                                         *)
(* The accounts are edited, given new credentials, deactivated and deleted *)
(* from the rows of the staff table, and elsewhere at the same time.       *)
(***************************************************************************)
EXTENDS Integers

CONSTANTS Emails,     \* the e-mails typed
          Slots,      \* bound: requests under way at once
          MaxMade,    \* bound: requests, each with a provision and a user at most
          MaxEvents   \* bound: choices of the manager, lost requests

VARIABLES provisions,  \* user_provisioning: by number, or NoProvision
          users,       \* auth.users with their profiles: by number, or NoUser
          made,        \* attempts to create an account so far
          requests,    \* a create of the API per slot, or NoRequest; "given" is its
                       \* password, and numbers what it makes
          desk,        \* the staff section of the workspace
          events       \* bound

vars == <<provisions, users, made, requests, desk, events>>

Ids == 1 .. MaxMade
NoProvision == [email |-> "", key |-> 0, user |-> 0]
NoUser == [email |-> "", provision |-> 0, given |-> 0, active |-> FALSE, version |-> 0]
NoRequest == [step |-> "none", email |-> "", key |-> 0, given |-> 0, provision |-> 0, user |-> 0]
NoForm == [kind |-> "none", id |-> 0, version |-> 0]
NoCard == [user |-> 0, given |-> 0]

TypeOK ==
  /\ made \in 0 .. MaxMade /\ events \in 0 .. MaxEvents
  /\ \A i \in Ids :
       /\ provisions[i] = NoProvision \/ provisions[i].email \in Emails
       /\ users[i] = NoUser \/ (users[i].email \in Emails /\ users[i].provision \in Ids)
  /\ \A k \in Slots :
       requests[k].step \in {"none", "reserve", "lookup", "insert", "activate"}
  /\ desk.form.kind \in {"none", "create", "card", "edit", "credentials", "deactivate", "delete"}
  /\ desk.busy \in {0} \cup Slots

Event == events < MaxEvents /\ events' = events + 1
HasUser(e) == {u \in Ids : users[u].email = e}
HasProvision(e) == {p \in Ids : provisions[p].email = e}

Shown(d, form) == [d EXCEPT !.form = form, !.busy = 0]
Rows == {[id |-> u, active |-> users[u].active, version |-> users[u].version] : u \in {v \in Ids : users[v] # NoUser}}

-----------------------------------------------------------------------------
\* A request fails, or is answered: the form that waits for it goes on.

Fails(k) ==
  /\ requests' = [requests EXCEPT ![k] = NoRequest]
  /\ desk' = IF desk.busy = k THEN [desk EXCEPT !.busy = 0] ELSE desk

Answers(k, u) ==
  /\ requests' = [requests EXCEPT ![k] = NoRequest]
  /\ desk' = IF desk.busy # k THEN desk
             ELSE [Shown(desk, [NoForm EXCEPT !.kind = "card"])
                   EXCEPT !.card = [user |-> u, given |-> requests[k].given]]

Continues(k, r) == requests' = [requests EXCEPT ![k] = r] /\ UNCHANGED desk

-----------------------------------------------------------------------------
\* UserService.create

reserve_user(k) ==
  LET r == requests[k]
      mine == {p \in Ids : provisions[p].key = r.key}
  IN  /\ r.step = "reserve"
      /\ \/ \E p \in mine :
              /\ UNCHANGED provisions
              /\ IF provisions[p].email # r.email THEN Fails(k)
                 ELSE IF provisions[p].user # 0 THEN Answers(k, provisions[p].user)
                 ELSE Continues(k, [r EXCEPT !.step = "lookup", !.provision = p])
         \/ /\ mine = {} /\ HasProvision(r.email) \cup HasUser(r.email) # {}
            /\ Fails(k) /\ UNCHANGED provisions
         \/ /\ mine = {} /\ HasProvision(r.email) \cup HasUser(r.email) = {}
            /\ provisions' = [provisions EXCEPT ![r.given] = [email |-> r.email, key |-> r.key, user |-> 0]]
            /\ Continues(k, [r EXCEPT !.step = "lookup", !.provision = r.given])
      /\ UNCHANGED <<users, made, events>>

lookup(k) ==
  LET r == requests[k]
  IN  /\ r.step = "lookup"
      /\ \/ HasUser(r.email) = {} /\ Continues(k, [r EXCEPT !.step = "insert"])
         \/ \E u \in HasUser(r.email) :
              IF users[u].provision = r.provision
              THEN Continues(k, [r EXCEPT !.step = "activate", !.user = u]) ELSE Fails(k)
      /\ UNCHANGED <<provisions, users, made, events>>

\* The e-mail is unique; the trigger adds an inactive profile.
insert(k) ==
  LET r == requests[k]
  IN  /\ r.step = "insert"
      /\ IF HasUser(r.email) # {} THEN Fails(k) /\ UNCHANGED users
         ELSE /\ users' = [users EXCEPT ![r.given] =
                   [email |-> r.email, provision |-> r.provision, given |-> r.given,
                    active |-> FALSE, version |-> 1]]
              /\ Continues(k, [r EXCEPT !.step = "activate", !.user = r.given])
      /\ UNCHANGED <<provisions, made, events>>

activate_user(k) ==
  LET r == requests[k]
      p == provisions[r.provision]
      u == users[r.user]
  IN  /\ r.step = "activate"
      /\ IF p # NoProvision /\ p.user = r.user THEN Answers(k, r.user) /\ UNCHANGED <<provisions, users>>
         ELSE IF p = NoProvision \/ p.user # 0 \/ u.email # p.email THEN Fails(k) /\ UNCHANGED <<provisions, users>>
         ELSE /\ provisions' = [provisions EXCEPT ![r.provision].user = r.user]
              /\ users' = [users EXCEPT ![r.user].active = TRUE, ![r.user].version = @ + 1]
              /\ Answers(k, r.user)
      /\ UNCHANGED <<made, events>>

\* The backend stops, or its answer is lost.
Lost(k) ==
  /\ Event
  /\ requests[k] # NoRequest
  /\ Fails(k)
  /\ UNCHANGED <<provisions, users, made>>

-----------------------------------------------------------------------------
\* The rows of the accounts, wherever they are changed.

user_update(id, active) ==
  users' = [users EXCEPT ![id].active = active, ![id].version = @ + 1] /\ UNCHANGED provisions
\* The trigger on auth.users ends the sessions and counts the version up.
credentials(id, e) ==
  users' = [users EXCEPT ![id].email = e, ![id].version = @ + 1] /\ UNCHANGED provisions
sd_delete_staff(id) ==
  /\ provisions' = [p \in Ids |-> IF provisions[p].user = id \/ provisions[p].email = users[id].email
                                  THEN NoProvision ELSE provisions[p]]
  /\ users' = [users EXCEPT ![id] = NoUser]

Elsewhere(id) ==
  /\ Event
  /\ users[id] # NoUser
  /\ \/ user_update(id, ~users[id].active)
     \/ sd_delete_staff(id)
     \/ \E e \in Emails : HasUser(e) \subseteq {id} /\ credentials(id, e)
  /\ UNCHANGED <<made, requests, desk>>

\* A client of the API asks again, or for another e-mail, under a key of its own.
ClientKey == MaxMade + 1
Again(k, e) ==
  /\ Event
  /\ made < MaxMade /\ requests[k] = NoRequest
  /\ made' = made + 1
  /\ requests' = [requests EXCEPT ![k] =
       [NoRequest EXCEPT !.step = "reserve", !.email = e, !.key = ClientKey, !.given = made + 1]]
  /\ UNCHANGED <<provisions, users, desk>>

-----------------------------------------------------------------------------
\* The workspace.

load == desk.rows # Rows /\ desk' = [desk EXCEPT !.rows = Rows] /\ UNCHANGED <<provisions, users, made, requests, events>>

Opens(form) == desk' = Shown(desk, form) /\ UNCHANGED <<provisions, users, made, requests>>
AddStaff == Event /\ desk.form = NoForm /\ Opens([NoForm EXCEPT !.kind = "create"])
RowButton(r, kind) ==
  /\ Event
  /\ desk.form = NoForm /\ r \in desk.rows /\ (kind = "deactivate" => r.active)
  /\ Opens([kind |-> kind, id |-> r.id, version |-> r.version])
Close == desk.form # NoForm /\ desk.busy = 0 /\ Opens(NoForm) /\ UNCHANGED events

\* Every attempt has a key of its own, and a password that is typed anew.
Key_Kept(n) == 1
Key(n) == n
StaffForm(k, e) ==
  /\ made < MaxMade /\ requests[k] = NoRequest
  /\ desk.form.kind = "create" /\ desk.busy = 0
  /\ made' = made + 1
  /\ requests' = [requests EXCEPT ![k] =
       [NoRequest EXCEPT !.step = "reserve", !.email = e, !.key = Key(made + 1), !.given = made + 1]]
  /\ desk' = [desk EXCEPT !.busy = k]
  /\ UNCHANGED <<provisions, users, events>>

Unchanged(f) == users[f.id].version = f.version
\* The form of a row, its confirmation or its button: done, and read again.
Saves ==
  LET f == desk.form
  IN  /\ f.id # 0 /\ users[f.id] # NoUser
      /\ \/ f.kind = "edit" /\ Unchanged(f) /\ \E active \in BOOLEAN : user_update(f.id, active)
         \/ f.kind = "deactivate" /\ Unchanged(f) /\ user_update(f.id, FALSE)
         \/ f.kind = "credentials" /\ \E e \in Emails : HasUser(e) \subseteq {f.id} /\ credentials(f.id, e)
         \/ f.kind = "delete" /\ sd_delete_staff(f.id)
      /\ desk' = [Shown(desk, NoForm) EXCEPT
                    !.rows = {[id |-> u, active |-> users'[u].active, version |-> users'[u].version] :
                              u \in {v \in Ids : users'[v] # NoUser}}]
      /\ UNCHANGED <<made, requests, events>>

Reactivate(r) ==
  /\ Event
  /\ desk.form = NoForm /\ r \in desk.rows /\ ~r.active
  /\ users[r.id] # NoUser /\ users[r.id].version = r.version
  /\ user_update(r.id, TRUE)
  /\ UNCHANGED <<made, requests, desk>>

-----------------------------------------------------------------------------
Init ==
  /\ provisions = [i \in Ids |-> NoProvision] /\ users = [i \in Ids |-> NoUser]
  /\ made = 0 /\ events = 0
  /\ requests = [k \in Slots |-> NoRequest]
  /\ desk = [rows |-> {}, form |-> NoForm, busy |-> 0, card |-> NoCard]

Next ==
  \/ load \/ AddStaff \/ Close \/ Saves
  \/ \E k \in Slots : \/ reserve_user(k) \/ lookup(k) \/ insert(k) \/ activate_user(k) \/ Lost(k)
                      \/ \E e \in Emails : StaffForm(k, e) \/ Again(k, e)
  \/ \E id \in Ids : Elsewhere(id)
  \/ \E r \in desk.rows : Reactivate(r) \/ \E kind \in {"edit", "deactivate", "credentials", "delete"} : RowButton(r, kind)

Spec == Init /\ [][Next]_vars

-----------------------------------------------------------------------------
\* However a creation stops, is made again or meets a deletion: an e-mail has
\* one account and one reservation, a reservation that is active names a living
\* account that was made for it, and the credentials the form hands over are
\* those the account was made with (create, reserve_user, StaffForm).
ProvisionedOnce ==
  /\ \A e \in Emails : /\ \A u, v \in HasUser(e) : u = v
                      /\ \A p, q \in HasProvision(e) : p = q
  /\ \A p \in Ids : LET u == provisions[p].user IN u # 0 => users[u].provision = p
  /\ desk.form.kind = "card" => users[desk.card.user] = NoUser \/ users[desk.card.user].given = desk.card.given

=============================================================================
