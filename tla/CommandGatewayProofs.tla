------------------------ MODULE CommandGatewayProofs ------------------------
(***************************************************************************)
(* Proofs about module CommandGateway, for any number of keys, bodies,     *)
(* forms and requests.  The inductive invariant relates the three places   *)
(* where a command leaves a trace: effects and records agree, a finished   *)
(* request holds what is recorded, and while a transaction executes under  *)
(* the lock of its key there is no record for the key.                     *)
(***************************************************************************)
EXTENDS CommandGateway, FiniteSetTheorems, TLAPS

EffectsRecorded ==
  /\ \A e \in effects : records[e.key] = [body |-> e.body, result |-> e.result]
  /\ \A k \in Keys : records[k] # NoRecord =>
       [key |-> k, body |-> records[k].body, result |-> records[k].result] \in effects

DoneIsRecorded ==
  \A r \in Requests : request[r].state = "done" =>
    records[request[r].key] = [body |-> request[r].body, result |-> request[r].result]

OneRunner ==
  \A q, r \in Requests :
    request[q].state \in Running /\ request[r].state \in Running
      /\ request[q].key = request[r].key => q = r

NotYetRecorded ==
  \A r \in Requests : request[r].state = "executing" =>
    records[request[r].key] = NoRecord

ConflictRecorded ==
  \A r \in Requests : request[r].state = "conflict" => records[request[r].key] # NoRecord

IInv == /\ TypeOK /\ IsFiniteSet(effects)
        /\ EffectsRecorded /\ ToldWasDone
        /\ DoneIsRecorded /\ OneRunner /\ NotYetRecorded
        /\ ConflictRecorded /\ RetryNotRefused

-----------------------------------------------------------------------------
\* A row of a key that is carried out has a body, so it is not NoRecord.
LEMMA RecordHasBody ==
  ASSUME NEW b \in Bodies, NEW n PROVE [body |-> b, result |-> n] # NoRecord
BY NoneAssumption DEF NoRecord

LEMMA InitIInv == Init => IInv
<1> SUFFICES ASSUME Init PROVE IInv OBVIOUS
<1>1. TypeOK BY DEF Init, TypeOK, NewForm, Free, NoRecord, States
<1>2. IsFiniteSet(effects) BY FS_EmptySet DEF Init
<1> QED BY <1>1, <1>2 DEF Init, IInv, EffectsRecorded, ToldWasDone, DoneIsRecorded,
          OneRunner, NotYetRecorded, ConflictRecorded, RetryNotRefused, Free, Running

\* A step of a form adds a request or removes one; a step of a request ends it
\* or moves it to a state in which it agrees with the records; only Commit
\* writes them.
LEMMA StepIInv == IInv /\ [Next]_vars => IInv'
<1> SUFFICES ASSUME IInv, [Next]_vars PROVE IInv' OBVIOUS
<1> USE NoneAssumption
<1> USE DEF IInv
<1>1. ASSUME NEW f \in Forms, NEW r \in Requests, NEW k \in Keys, NEW b \in Bodies,
             Send(f, r, k, b)
      PROVE  IInv'
  <2>1. /\ request' = [request EXCEPT ![r] = [state |-> "sent", key |-> k, body |-> b,
                                              result |-> 0]]
        /\ UNCHANGED <<records, effects, told>>
    BY <1>1 DEF Send
  <2>2. TypeOK' BY <1>1, <2>1 DEF Send, TypeOK, States
  <2>3. (DoneIsRecorded /\ OneRunner /\ NotYetRecorded /\ ConflictRecorded /\ RetryNotRefused)'
    BY <2>1 DEF TypeOK, DoneIsRecorded, OneRunner, NotYetRecorded, ConflictRecorded, RetryNotRefused, Running
  <2> QED BY <2>1, <2>2, <2>3 DEF EffectsRecorded, ToldWasDone
<1>2. ASSUME NEW f \in Forms, NEW r \in Requests, NEW k \in Keys, NEW b \in Bodies,
             Save(f, r, k, b)
      PROVE  IInv'
  BY <1>1, <1>2 DEF Save
<1>3. ASSUME NEW f \in Forms, NEW r \in Requests, NEW b \in Bodies, SaveUnderOldKey(f, r, b)
      PROVE  IInv'
  <2>1. form[f].key \in Keys BY <1>3 DEF SaveUnderOldKey, HasKey, TypeOK
  <2> QED BY <1>1, <1>3, <2>1 DEF SaveUnderOldKey
<1>4. ASSUME NEW f \in Forms, GiveUp(f) \/ Close(f) PROVE IInv'
  <2>1. UNCHANGED <<request, records, effects, told>> BY <1>4 DEF GiveUp, Close
  <2>2. TypeOK' BY <1>4, <2>1 DEF GiveUp, Close, TypeOK, NewForm
  <2> QED BY <2>1, <2>2 DEF EffectsRecorded, ToldWasDone, DoneIsRecorded, OneRunner,
            NotYetRecorded, ConflictRecorded, RetryNotRefused
\* The request is gone: its answer has been heard or not.
<1>5. ASSUME NEW r \in Requests, request' = [request EXCEPT ![r] = Free],
             UNCHANGED <<records, effects>>
      PROVE  (DoneIsRecorded /\ OneRunner /\ NotYetRecorded /\ ConflictRecorded /\ RetryNotRefused)'
  BY <1>5 DEF TypeOK, DoneIsRecorded, OneRunner, NotYetRecorded, ConflictRecorded, RetryNotRefused, Running, Free
<1>6. ASSUME NEW f \in Forms, NEW r \in Requests, Answer(r, f) PROVE IInv'
  <2>1. request' = [request EXCEPT ![r] = Free] /\ UNCHANGED <<records, effects>>
    BY <1>6 DEF Answer
  <2>2. request[r].key \in Keys /\ request[r].body \in Bodies /\ request[r].result \in Nat
    BY <1>6 DEF Answer, Ended, TypeOK
  <2>3. ASSUME request[r].state = "done" PROVE told' \subseteq effects
    <3>1. records[request[r].key]
            = [body |-> request[r].body, result |-> request[r].result]
      BY <2>3 DEF DoneIsRecorded
    <3>2. records[request[r].key] # NoRecord BY <2>2, <3>1, RecordHasBody
    <3>3. [key |-> request[r].key, body |-> request[r].body, result |-> request[r].result]
            \in effects
      BY <2>2, <3>1, <3>2 DEF EffectsRecorded
    <3> QED BY <1>6, <2>3, <3>3 DEF Answer, ToldWasDone
  <2>4. ASSUME request[r].state # "done" PROVE told' \subseteq effects
    BY <1>6, <2>4 DEF Answer, ToldWasDone
  <2>5. ToldWasDone' BY <2>1, <2>3, <2>4 DEF ToldWasDone
  <2>6. form' \in [Forms -> [key : Keys \cup {None}, body : Bodies \cup {None},
                             waits : Requests \cup {None}]]
    BY <1>6 DEF Answer, TypeOK, NewForm
  <2>7. TypeOK' BY <2>1, <2>5, <2>6 DEF TypeOK, Free, States, ToldWasDone
  <2> QED BY <1>5, <2>1, <2>5, <2>7 DEF EffectsRecorded
<1>7. ASSUME NEW r \in Requests, Unheard(r) PROVE IInv'
  <2>1. /\ request' = [request EXCEPT ![r] = Free]
        /\ UNCHANGED <<form, records, effects, told>>
    BY <1>7 DEF Unheard
  <2>2. TypeOK' BY <2>1 DEF TypeOK, Free, States
  <2> QED BY <1>5, <2>1, <2>2 DEF EffectsRecorded, ToldWasDone
\* A request moves to a state in which it holds what is recorded.
<1>8. ASSUME NEW r \in Requests, request[r].state # "free",
             NEW s \in States \ {"free"}, NEW n \in Nat, Move(r, s, n),
             UNCHANGED <<form, records, effects, told>>,
             s = "done" => records[request[r].key] = [body |-> request[r].body, result |-> n],
             s = "executing" => records[request[r].key] = NoRecord,
             s = "conflict" => records[request[r].key] # NoRecord
                                 /\ records[request[r].key].body # request[r].body,
             s \in Running => request[r].state \in Running \/ LockFree(request[r].key)
      PROVE  IInv'
  <2>1. request' = [request EXCEPT ![r] = [request[r] EXCEPT !.state = s, !.result = n]]
    BY <1>8 DEF Move, TypeOK
  <2>2. TypeOK'
    <3>1. [request[r] EXCEPT !.state = s, !.result = n]
            \in [state : States, key : Keys \cup {None}, body : Bodies \cup {None}, result : Nat]
      BY DEF TypeOK
    <3>2. request[r].key \in Keys /\ request[r].body \in Bodies BY <1>8 DEF TypeOK
    <3> QED BY <1>8, <2>1, <3>1, <3>2 DEF TypeOK
  <2>3. (DoneIsRecorded /\ NotYetRecorded /\ ConflictRecorded /\ RetryNotRefused)'
    BY <1>8, <2>1 DEF TypeOK, DoneIsRecorded, NotYetRecorded, ConflictRecorded, RetryNotRefused
  <2>4. OneRunner' BY <1>8, <2>1 DEF TypeOK, OneRunner, LockFree
  <2> QED BY <1>8, <2>2, <2>3, <2>4 DEF EffectsRecorded, ToldWasDone
<1>9. ASSUME NEW r \in Requests, Lock(r) PROVE IInv'
  BY <1>8, <1>9 DEF Lock, States, Running
<1>10. ASSUME NEW r \in Requests, Fail(r) PROVE IInv'
  BY <1>8, <1>10 DEF Fail, States, Running
<1>11. ASSUME NEW r \in Requests, LookUp(r) PROVE IInv'
  <2>1. /\ request[r].state = "locked" /\ request[r].key \in Keys
        /\ UNCHANGED <<form, records, effects, told>>
    BY <1>11 DEF LookUp, TypeOK
  <2>2. records[request[r].key].result \in Nat
        /\ records[request[r].key] = [body |-> records[request[r].key].body,
                                      result |-> records[request[r].key].result]
    BY <2>1 DEF TypeOK
  <2>3. CASE records[request[r].key] = NoRecord
    <3>1. Move(r, "executing", 0) BY <1>11, <2>3 DEF LookUp
    <3> QED BY <1>8, <2>1, <2>3, <3>1 DEF States, Running
  <2>4. CASE records[request[r].key] # NoRecord /\ SameBody(r)
    <3>1. Move(r, "done", records[request[r].key].result) BY <1>11, <2>4 DEF LookUp
    <3> QED BY <1>8, <2>1, <2>2, <2>4, <3>1 DEF States, Running, SameBody
  <2>5. CASE records[request[r].key] # NoRecord /\ ~SameBody(r)
    <3>1. Move(r, "conflict", 0) BY <1>11, <2>5 DEF LookUp
    <3> QED BY <1>8, <2>1, <2>5, <3>1 DEF States, Running, SameBody
  <2> QED BY <2>3, <2>4, <2>5
<1>12. ASSUME NEW r \in Requests, NEW answer \in {"done", "failed"}, Commit(r, answer)
       PROVE  IInv'
  <2> DEFINE n == Cardinality(effects) + 1
             k == request[r].key
             b == request[r].body
  <2>1. /\ request[r].state = "executing" /\ k \in Keys /\ b \in Bodies
        /\ records[k] = NoRecord
    BY <1>12 DEF Commit, TypeOK, NotYetRecorded
  <2>2. n \in Nat BY FS_CardinalityType
  <2> HIDE DEF n
  <2>3. /\ effects' = effects \cup {[key |-> k, body |-> b, result |-> n]}
        /\ records' = [records EXCEPT ![k] = [body |-> b, result |-> n]]
        /\ request' = [request EXCEPT ![r] = [request[r] EXCEPT !.state = answer,
                         !.result = IF answer = "done" THEN n ELSE 0]]
        /\ UNCHANGED <<form, told>>
    BY <1>12, <2>1 DEF Commit, Carried, Recorded, Move, TypeOK, n
  <2>4. \A e \in effects : e.key # k
    <3> SUFFICES ASSUME NEW e \in effects, e.key = k PROVE FALSE OBVIOUS
    <3>1. e.body \in Bodies BY DEF TypeOK
    <3>2. [body |-> e.body, result |-> e.result] # NoRecord BY <3>1, RecordHasBody
    <3> QED BY <2>1, <3>2 DEF EffectsRecorded
  <2>5. TypeOK'
    <3> DEFINE m == IF answer = "done" THEN n ELSE 0
    <3>1. m \in Nat BY <2>2
    <3> HIDE DEF m
    <3>2. [request[r] EXCEPT !.state = answer, !.result = m]
            \in [state : States, key : Keys \cup {None}, body : Bodies \cup {None}, result : Nat]
      BY <3>1 DEF TypeOK, States
    <3>3. request' = [request EXCEPT ![r] = [request[r] EXCEPT !.state = answer, !.result = m]]
      BY <2>3 DEF m
    <3>4. request' \in [Requests -> [state : States, key : Keys \cup {None},
                                     body : Bodies \cup {None}, result : Nat]]
      BY <3>2, <3>3 DEF TypeOK
    <3>5. \A q \in Requests : request'[q].state # "free" =>
            request'[q].key \in Keys /\ request'[q].body \in Bodies
      BY <2>1, <3>3 DEF TypeOK
    <3>6. records' \in [Keys -> [body : Bodies \cup {None}, result : Nat]]
      BY <2>1, <2>2, <2>3 DEF TypeOK
    <3>7. effects' \subseteq [key : Keys, body : Bodies, result : Nat]
      BY <2>1, <2>2, <2>3 DEF TypeOK
    <3> QED BY <2>3, <3>4, <3>5, <3>6, <3>7 DEF TypeOK
  <2>6. IsFiniteSet(effects') BY <2>3, FS_AddElement
  <2>7. EffectsRecorded'
    <3>1. ASSUME NEW e \in effects'
          PROVE  records'[e.key] = [body |-> e.body, result |-> e.result]
      BY <2>1, <2>3, <2>4, <3>1 DEF EffectsRecorded, TypeOK
    <3>2. ASSUME NEW j \in Keys, records'[j] # NoRecord
          PROVE  [key |-> j, body |-> records'[j].body, result |-> records'[j].result] \in effects'
      BY <2>1, <2>3, <3>2 DEF EffectsRecorded, TypeOK
    <3> QED BY <3>1, <3>2 DEF EffectsRecorded
  <2>8. ToldWasDone' BY <2>3 DEF ToldWasDone
  <2>9. DoneIsRecorded'
    <3> SUFFICES ASSUME NEW q \in Requests, request'[q].state = "done"
                 PROVE  records'[request'[q].key]
                          = [body |-> request'[q].body, result |-> request'[q].result]
      BY DEF DoneIsRecorded
    <3>1. CASE q = r BY <2>1, <2>2, <2>3, <3>1 DEF TypeOK
    <3>2. CASE q # r
      <4>1. request'[q] = request[q] BY <2>3, <3>2 DEF TypeOK
      <4>2. request[q].key \in Keys /\ request[q].body \in Bodies BY <4>1 DEF TypeOK
      <4>3. request[q].key # k
        BY <2>1, <4>1, <4>2, RecordHasBody DEF DoneIsRecorded
      <4> QED BY <2>3, <4>1, <4>2, <4>3 DEF DoneIsRecorded, TypeOK
    <3> QED BY <3>1, <3>2
  <2>10. OneRunner' BY <2>1, <2>3 DEF OneRunner, Running, TypeOK
  <2>11. NotYetRecorded'
    <3> SUFFICES ASSUME NEW q \in Requests, request'[q].state = "executing"
                 PROVE  records'[request'[q].key] = NoRecord
      BY DEF NotYetRecorded
    <3>1. q # r /\ request'[q] = request[q] BY <2>3 DEF TypeOK
    <3>2. request[q].key \in Keys /\ request[q].key # k
      BY <2>1, <3>1 DEF TypeOK, OneRunner, Running
    <3> QED BY <2>3, <3>1, <3>2 DEF NotYetRecorded, TypeOK
  <2>12. (ConflictRecorded /\ RetryNotRefused)'
    <3> SUFFICES ASSUME NEW q \in Requests, request'[q].state = "conflict"
                 PROVE  /\ records'[request'[q].key] # NoRecord
                        /\ records'[request'[q].key].body # request'[q].body
      BY DEF ConflictRecorded, RetryNotRefused
    <3>1. q # r /\ request'[q] = request[q] BY <2>3 DEF TypeOK
    <3>2. request[q].key \in Keys /\ request[q].key # k
      BY <2>1, <3>1 DEF TypeOK, ConflictRecorded
    <3> QED BY <2>3, <3>1, <3>2 DEF ConflictRecorded, RetryNotRefused, TypeOK
  <2> QED BY <2>5, <2>6, <2>7, <2>8, <2>9, <2>10, <2>11, <2>12
<1>13. ASSUME UNCHANGED vars PROVE IInv'
  BY <1>13 DEF vars, TypeOK, EffectsRecorded, ToldWasDone, DoneIsRecorded, OneRunner,
       NotYetRecorded, ConflictRecorded, RetryNotRefused, SameBody
<1> QED BY <1>2, <1>3, <1>4, <1>6, <1>7, <1>9, <1>10, <1>11, <1>12, <1>13 DEF Next

LEMMA Invariance == Spec => []IInv
BY InitIInv, StepIInv, PTL DEF Spec

-----------------------------------------------------------------------------
\* The shape of forms, requests and tables: every request that is under way has
\* the key its header brought.
THEOREM GatewayTypes == Spec => []TypeOK
BY Invariance, PTL DEF IInv

\* execute_command carries a key out at most once, for any number of forms,
\* repeated requests and lost answers.
THEOREM EachKeyOnce == Spec => []OncePerKey
<1>1. IInv => OncePerKey
  <2> SUFFICES ASSUME IInv, NEW d \in effects, NEW e \in effects, d.key = e.key
               PROVE  d = e
    BY DEF OncePerKey
  <2>1. /\ records[d.key] = [body |-> d.body, result |-> d.result]
        /\ records[d.key] = [body |-> e.body, result |-> e.result]
    BY DEF IInv, EffectsRecorded
  <2>2. d.body = e.body /\ d.result = e.result BY <2>1
  <2>3. /\ d \in [key : Keys, body : Bodies, result : Nat]
        /\ e \in [key : Keys, body : Bodies, result : Nat]
    BY DEF IInv, TypeOK
  <2> QED BY <2>2, <2>3
<1> QED BY <1>1, Invariance, PTL

\* Whatever a form is told, also after its answer was lost and it asked again,
\* is what was done with the body it sent.
THEOREM AnswersTrue == Spec => []ToldWasDone
BY Invariance, PTL DEF IInv

\* The advisory lock keeps 23505 for changed payloads: a repeated request is
\* replayed, never refused, however close it follows the first.
THEOREM RepeatsReplayed == Spec => []RetryNotRefused
BY Invariance, PTL DEF IInv

\* The gateway implements its contract: an outcome per key that is final, and
\* senders that are told it.
THEOREM GatewayKeepsContract == Spec => ImplementsContract
<1> USE NoneAssumption
<1>1. Init => Contract!Init
  BY DEF Init, Contract!Init, NoRecord, Contract!Nothing
<1>2. IInv /\ [Next]_vars => [Contract!Next]_Contract!vars
  <2> SUFFICES ASSUME IInv, [Next]_vars PROVE [Contract!Next]_Contract!vars OBVIOUS
  <2>1. ASSUME UNCHANGED <<records, told>> PROVE UNCHANGED Contract!vars
    BY <2>1 DEF Contract!vars
  <2>2. ASSUME NEW r \in Requests, NEW answer \in {"done", "failed"}, Commit(r, answer)
        PROVE  [Contract!Next]_Contract!vars
    <3> DEFINE n == Cardinality(effects) + 1
               k == request[r].key
    <3>1. /\ request[r].state = "executing" /\ k \in Keys /\ request[r].body \in Bodies
          /\ records[k] = NoRecord
      BY <2>2 DEF Commit, IInv, TypeOK, NotYetRecorded
    <3>2. n \in Nat BY FS_CardinalityType DEF IInv
    <3> HIDE DEF n
    <3>3. /\ records' = [records EXCEPT ![k] = [body |-> request[r].body, result |-> n]]
          /\ UNCHANGED told
      BY <2>2, <3>1 DEF Commit, Recorded, n
    <3>4. records'[k] = [body |-> request[r].body, result |-> n]
      BY <3>1, <3>3 DEF IInv, TypeOK
    <3>5. Contract!CarryOut(k)
      <4>1. records'[k] \in [body : Bodies, result : Nat] BY <3>1, <3>2, <3>4
      <4>2. records' = [records EXCEPT ![k] = records'[k]] BY <3>3, <3>4
      <4>3. records[k] = Contract!Nothing BY <3>1 DEF Contract!Nothing, NoRecord
      <4> QED BY <3>3, <4>1, <4>2, <4>3 DEF Contract!CarryOut
    <3> QED BY <3>1, <3>5 DEF Contract!Next
  <2>3. ASSUME NEW r \in Requests, NEW f \in Forms, Answer(r, f), request[r].state = "done"
        PROVE  [Contract!Next]_Contract!vars
    <3> DEFINE k == request[r].key
    <3>1. k \in Keys /\ request[r].body \in Bodies BY <2>3 DEF IInv, TypeOK
    <3>2. records[k] = [body |-> request[r].body, result |-> request[r].result]
      BY <2>3 DEF IInv, DoneIsRecorded
    <3>3. records[k] # NoRecord BY <3>1, <3>2, RecordHasBody
    <3>4. /\ told' = told \cup {[key |-> k, body |-> records[k].body,
                                result |-> records[k].result]}
          /\ UNCHANGED records
      BY <2>3, <3>2 DEF Answer
    <3>5. Contract!Tell(k) BY <3>3, <3>4 DEF Contract!Tell, Contract!Nothing, NoRecord
    <3> QED BY <3>1, <3>5 DEF Contract!Next
  <2>4. ASSUME NEW r \in Requests, NEW f \in Forms, Answer(r, f), request[r].state # "done"
        PROVE  UNCHANGED <<records, told>>
    BY <2>4 DEF Answer
  <2>5. ASSUME NEW f \in Forms, NEW r \in Requests,
               \/ \E k \in Keys, b \in Bodies : Save(f, r, k, b)
               \/ \E b \in Bodies : SaveUnderOldKey(f, r, b)
        PROVE  UNCHANGED <<records, told>>
    BY <2>5 DEF Save, SaveUnderOldKey, Send
  <2>6. ASSUME NEW f \in Forms, GiveUp(f) \/ Close(f) PROVE UNCHANGED <<records, told>>
    BY <2>6 DEF GiveUp, Close
  <2>7. ASSUME NEW r \in Requests, Lock(r) \/ LookUp(r) \/ Fail(r) \/ Unheard(r)
        PROVE  UNCHANGED <<records, told>>
    BY <2>7 DEF Lock, LookUp, Fail, Unheard
  <2>8. ASSUME UNCHANGED vars PROVE UNCHANGED <<records, told>> BY <2>8 DEF vars
  <2> QED BY <2>1, <2>2, <2>3, <2>4, <2>5, <2>6, <2>7, <2>8 DEF Next
<1> QED BY <1>1, <1>2, Invariance, PTL DEF Spec, ImplementsContract, Contract!Spec

=============================================================================
