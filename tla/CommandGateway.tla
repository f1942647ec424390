--------------------------- MODULE CommandGateway ---------------------------
(***************************************************************************)
(* How a command gets from a form in the browser into the database and its *)
(* result back: forms that send again what was not answered, requests that *)
(* are lost, late or answered to nobody, and private.execute_command with  *)
(* its advisory lock and its idempotency records.                          *)
(*                                                                         *)
(* Keys and records belong to one caller and one operation, so the module  *)
(* models the requests of one caller.  What the commands do is in the      *)
(* other modules; here the n-th command carried out has the result n.      *)
(***************************************************************************)
EXTENDS Integers, FiniteSets

CONSTANTS Keys,      \* Idempotency-Key headers
          Bodies,    \* request bodies
          Forms,     \* open forms of the caller
          Requests,  \* bound: requests under way at once
          None       \* no key, no body, no request

ASSUME NoneAssumption == None \notin Keys \cup Bodies \cup Requests

VARIABLES form,      \* what each form sent last, and the request it waits for
          request,   \* requests and the transactions that run them
          records,   \* rows of idempotency_records
          effects,   \* commands carried out: [key, body, result]
          told       \* results a form has been told: [key, body, result]

vars == <<form, request, records, effects, told>>

NewForm == [key |-> None, body |-> None, waits |-> None]
Free == [state |-> "free", key |-> None, body |-> None, result |-> 0]
NoRecord == [body |-> None, result |-> 0]

\* free -> sent -> locked -> looked up -> answered, or lost on the way.
States == {"free", "sent", "locked", "executing", "done", "conflict", "failed"}

TypeOK ==
  /\ form \in [Forms -> [key : Keys \cup {None}, body : Bodies \cup {None},
                         waits : Requests \cup {None}]]
  /\ request \in [Requests -> [state : States, key : Keys \cup {None},
                               body : Bodies \cup {None}, result : Nat]]
  /\ \A r \in Requests : request[r].state # "free" =>
       request[r].key \in Keys /\ request[r].body \in Bodies
  /\ records \in [Keys -> [body : Bodies \cup {None}, result : Nat]]
  /\ effects \subseteq [key : Keys, body : Bodies, result : Nat]
  /\ told \subseteq [key : Keys, body : Bodies, result : Nat]

Init == /\ form = [f \in Forms |-> NewForm]
        /\ request = [r \in Requests |-> Free]
        /\ records = [k \in Keys |-> NoRecord]
        /\ effects = {} /\ told = {}

-----------------------------------------------------------------------------
\* The browser.

Unused(k) == /\ \A f \in Forms : form[f].key # k
             /\ \A r \in Requests : request[r].key # k
             /\ records[k] = NoRecord

\* useSave: the key is kept for the same body and fresh for another one.
KeyFor(f, b, k) == IF form[f].body = b THEN k = form[f].key ELSE Unused(k)

Send(f, r, k, b) ==
  /\ form[f].waits = None
  /\ request[r] = Free
  /\ form' = [form EXCEPT ![f] = [key |-> k, body |-> b, waits |-> r]]
  /\ request' = [request EXCEPT ![r] = [state |-> "sent", key |-> k, body |-> b, result |-> 0]]
  /\ UNCHANGED <<records, effects, told>>

Save(f, r, k, b) == KeyFor(f, b, k) /\ Send(f, r, k, b)

\* Another client of the API may send a changed body under an old key; without
\* the header the backend takes no command.
HasKey_Optional(f) == TRUE
HasKey(f) == form[f].key # None
SaveUnderOldKey(f, r, b) ==
  /\ HasKey(f)
  /\ form[f].body # b
  /\ Send(f, r, form[f].key, b)

\* After 60 seconds the proxy reports the backend unavailable; the request that
\* it no longer waits for goes on.
GiveUp(f) ==
  /\ form[f].waits # None
  /\ form' = [form EXCEPT ![f].waits = None]
  /\ UNCHANGED <<request, records, effects, told>>

\* The form is closed; opened again it starts with a key of its own.
Close(f) ==
  /\ form[f] # NewForm
  /\ form[f].waits = None
  /\ form' = [form EXCEPT ![f] = NewForm]
  /\ UNCHANGED <<request, records, effects, told>>

-----------------------------------------------------------------------------
\* The database.

Move(r, state, result) ==
  request' = [request EXCEPT ![r].state = state, ![r].result = result]

\* pg_advisory_xact_lock: held to the end of the transaction.
Running == {"locked", "executing"}
LockFree_Always(k) == TRUE
LockFree(k) == \A q \in Requests : request[q].state \in Running => request[q].key # k

Lock(r) ==
  /\ request[r].state = "sent"
  /\ LockFree(request[r].key)
  /\ Move(r, "locked", 0)
  /\ UNCHANGED <<form, records, effects, told>>

SameBody_Unchecked(r) == TRUE
SameBody(r) == records[request[r].key].body = request[r].body

\* A record answers the request: its result again, or 23505 for another body.
LookUp(r) ==
  LET prior == records[request[r].key]
  IN  /\ request[r].state = "locked"
      /\ IF prior = NoRecord THEN Move(r, "executing", 0)
         ELSE IF SameBody(r) THEN Move(r, "done", prior.result)
                             ELSE Move(r, "conflict", 0)
      /\ UNCHANGED <<form, records, effects, told>>

Recorded_Not(r, n) == records
Recorded(r, n) ==
  [records EXCEPT ![request[r].key] = [body |-> request[r].body, result |-> n]]

\* command_core has run and its effect commits with the record; when the
\* connection breaks at the commit the backend reports a failure.  The primary
\* key of the records would refuse a second one with 23505.
Carried(r, n) ==
  effects \cup {[key |-> request[r].key, body |-> request[r].body, result |-> n]}
Commit(r, answer) ==
  LET n == Cardinality(effects) + 1
  IN  /\ request[r].state = "executing"
      /\ IF records[request[r].key] = NoRecord
         THEN /\ effects' = Carried(r, n)
              /\ records' = Recorded(r, n)
              /\ Move(r, answer, IF answer = "done" THEN n ELSE 0)
         ELSE Move(r, "conflict", 0) /\ UNCHANGED <<effects, records>>
      /\ UNCHANGED <<form, told>>

\* command_core refuses the command, or the connection breaks: all is undone.
Fail(r) ==
  /\ request[r].state \in {"sent"} \cup Running
  /\ Move(r, "failed", 0)
  /\ UNCHANGED <<form, records, effects, told>>

\* The answer reaches the form that waits for it; a success closes the form.
Ended == {"done", "conflict", "failed"}
Answer(r, f) ==
  /\ request[r].state \in Ended
  /\ form[f].waits = r
  /\ form' = [form EXCEPT ![f] = IF request[r].state = "done" THEN NewForm
                                 ELSE [@ EXCEPT !.waits = None]]
  /\ told' = IF request[r].state = "done"
             THEN told \cup {[key |-> request[r].key, body |-> request[r].body,
                              result |-> request[r].result]}
             ELSE told
  /\ request' = [request EXCEPT ![r] = Free]
  /\ UNCHANGED <<records, effects>>

\* The answer is lost, or nobody waits for it any more.
Unheard(r) ==
  /\ request[r].state \in Ended
  /\ \A f \in Forms : form[f].waits # r
  /\ request' = [request EXCEPT ![r] = Free]
  /\ UNCHANGED <<form, records, effects, told>>

-----------------------------------------------------------------------------
Next ==
  \/ \E f \in Forms :
       \/ \E r \in Requests :
            \/ \E k \in Keys, b \in Bodies : Save(f, r, k, b)
            \/ \E b \in Bodies : SaveUnderOldKey(f, r, b)
            \/ Answer(r, f)
       \/ GiveUp(f) \/ Close(f)
  \/ \E r \in Requests :
       \/ Lock(r) \/ LookUp(r) \/ Fail(r) \/ Unheard(r)
       \/ Commit(r, "done") \/ Commit(r, "failed")

Spec == Init /\ [][Next]_vars

-----------------------------------------------------------------------------
\* Properties.

\* A key is carried out at most once, however often and however concurrently its
\* request is sent again (docs/cashier.md:7, docs/database.md:7).
OncePerKey == \A d, e \in effects : d.key = e.key => d = e

\* What a form is told was done: with the body it sent and with this result.
ToldWasDone == told \subseteq effects

\* A repeated request is never refused for its key: a conflict is answered only
\* to a body that is not the one recorded.
RetryNotRefused ==
  \A r \in Requests : request[r].state = "conflict" =>
    records[request[r].key].body # request[r].body

\* The gateway keeps the contract.
Contract == INSTANCE CommandContract WITH outcome <- records
ImplementsContract == Contract!Spec

=============================================================================
