------------------------------ MODULE JobContract ------------------------------
(***************************************************************************)
(* What the job queue promises to the rest of SmartDine, with no worker,   *)
(* lease or attempt in sight: a submitted job is pending until it either   *)
(* finishes, once, together with its recorded result, or fails; a manager  *)
(* may put a failed job back to pending.                                   *)
(***************************************************************************)
CONSTANT Jobs

VARIABLES
  outcome,   \* what a manager sees of each job
  recorded   \* the jobs whose result is stored

contractVars == <<outcome, recorded>>

ContractTypeOK ==
  /\ outcome \in [Jobs -> {"absent", "pending", "done", "failed"}]
  /\ recorded \subseteq Jobs

ContractInit ==
  /\ outcome = [j \in Jobs |-> "absent"]
  /\ recorded = {}

Accept(j) ==
  /\ outcome[j] = "absent"
  /\ outcome' = [outcome EXCEPT ![j] = "pending"]
  /\ UNCHANGED recorded

\* The result and the completion appear together.
Finish(j) ==
  /\ outcome[j] = "pending"
  /\ j \notin recorded
  /\ outcome' = [outcome EXCEPT ![j] = "done"]
  /\ recorded' = recorded \cup {j}

\* One sweep may give up several jobs, and the claim that ran it picks another.
GiveUp(S) ==
  /\ \A j \in S : outcome[j] = "pending"
  /\ outcome' = [j \in Jobs |-> IF j \in S THEN "failed" ELSE outcome[j]]
  /\ UNCHANGED recorded

Revive(j) ==
  /\ outcome[j] = "failed"
  /\ outcome' = [outcome EXCEPT ![j] = "pending"]
  /\ UNCHANGED recorded

ContractNext ==
  \/ \E j \in Jobs : Accept(j) \/ Finish(j) \/ Revive(j)
  \/ \E S \in SUBSET Jobs : GiveUp(S)

ContractSafety == ContractInit /\ [][ContractNext]_contractVars

=============================================================================
