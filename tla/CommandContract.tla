--------------------------- MODULE CommandContract ---------------------------
(***************************************************************************)
(* What the sender of a command may rely on: a key stands for one body and *)
(* is carried out at most once, and whoever is told a result for a key is  *)
(* told that one.                                                          *)
(***************************************************************************)
EXTENDS Naturals

CONSTANTS Keys, Bodies, None

VARIABLES outcome,  \* for each key: the body carried out and its result
          told      \* the results senders have been told: [key, body, result]

vars == <<outcome, told>>

Nothing == [body |-> None, result |-> 0]

Init == outcome = [k \in Keys |-> Nothing] /\ told = {}

CarryOut(k) ==
  /\ outcome[k] = Nothing
  /\ outcome'[k] \in [body : Bodies, result : Nat]
  /\ outcome' = [outcome EXCEPT ![k] = outcome'[k]]
  /\ UNCHANGED told

Tell(k) ==
  /\ outcome[k] # Nothing
  /\ told' = told \cup {[key |-> k, body |-> outcome[k].body, result |-> outcome[k].result]}
  /\ UNCHANGED outcome

Next == \E k \in Keys : CarryOut(k) \/ Tell(k)

Spec == Init /\ [][Next]_vars

=============================================================================
