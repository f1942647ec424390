------------------------------- MODULE JobQueue -------------------------------
(***************************************************************************)
(* The durable job queue: the table private.processing_jobs, the service   *)
(* operations job_claim, job_heartbeat, job_complete and job_fail, the     *)
(* manager's job_retry, and the worker processes that call them.           *)
(*                                                                         *)
(* Every service call is one database transaction that locks the job row,  *)
(* so it is one action, together with what the caller does with the        *)
(* answer.  A call may be lost before it runs, and its answer may be lost  *)
(* after it ran; the worker cannot tell the two apart.                     *)
(*                                                                         *)
(* A timestamp is represented by the time left until it, in ticks: the     *)
(* lease of a job has expired when its "lease" is 0, and the job is        *)
(* available when its "backoff" is 0.  Tick lets every clock run.          *)
(*                                                                         *)
(* A definition D_X is D with a plausible bug X; no action uses it.  Put   *)
(* in the place of D it must break a property: that is how the properties  *)
(* are tested (PROJECT.json, "mutants").                                   *)
(***************************************************************************)
EXTENDS Integers, FiniteSets

CONSTANTS
  Workers,      \* worker processes
  Jobs,         \* job ids; each stands for one deduplication key
  ReviewJobs,   \* the jobs of kind review_analysis; the others are forecasts
  MaxAttempts,  \* processing_jobs.max_attempts
  Lease,        \* job_lease_seconds, in ticks
  Interval,     \* the worker's heartbeat period, lease_seconds / 3, in ticks
  Punctual,     \* the workers whose heartbeats run at most MaxDelay late
  MaxDelay,     \* how late those heartbeats may run, in ticks
  Backoff,      \* delay before the next attempt, by number of attempts
  MaxRetries,   \* bound: manual retries per job
  MaxCrashes    \* bound: worker crashes

ASSUME JobsAssumption == ReviewJobs \subseteq Jobs
ASSUME NumbersAssumption ==
  /\ MaxAttempts \in Nat \ {0} /\ Lease \in Nat \ {0}
  /\ Interval \in Nat \ {0} /\ MaxDelay \in Nat
  /\ MaxRetries \in Nat /\ MaxCrashes \in Nat
\* A heartbeat period is a third of the lease: one that is not too late renews it.
ASSUME PunctualAssumption ==
  Punctual \subseteq Workers /\ (Punctual # {} => Interval + MaxDelay < Lease)
ASSUME BackoffAssumption == Backoff \in [0..MaxAttempts -> Nat]

VARIABLES
  job,      \* the rows of processing_jobs
  issued,   \* number of owner tokens generated for a job, the last one included
  retries,  \* number of manual retries of a job
  review,   \* reviews.analysis_status of the review a job analyses
  rows,     \* rows of review_analyses and forecast_runs, with the token used
  worker,   \* the worker processes
  crashes   \* number of worker crashes so far

vars == <<job, issued, retries, review, rows, worker, crashes>>

None == 0   \* owner_token is null; generated tokens are 1, 2, ...
NoJob == [status |-> "absent", attempts |-> 0, owner |-> None,
          lease |-> 0, backoff |-> 0]
Idle == [pc |-> "polling"]
Holding(pc, j, t, lost, beat) ==
  [pc |-> pc, job |-> j, token |-> t, lost |-> lost, beat |-> beat]

Statuses == {"absent", "queued", "running", "completed", "failed"}
Job == [status : Statuses, attempts : 0..MaxAttempts, owner : Nat,
        lease : 0..Lease, backoff : Nat]
Busy == [pc : {"working", "completing", "failing"}, job : Jobs, token : Nat,
         lost : BOOLEAN, beat : Nat]
Worker == [pc : {"polling", "down"}] \cup Busy

TypeOK ==
  /\ job \in [Jobs -> Job]
  /\ issued \in [Jobs -> Nat]
  /\ retries \in [Jobs -> 0..MaxRetries]
  /\ review \in [ReviewJobs -> {"absent", "pending", "completed", "failed"}]
  /\ rows \subseteq [job : Jobs, token : Nat]
  /\ worker \in [Workers -> Worker]
  /\ crashes \in 0..MaxCrashes

Init ==
  /\ job = [j \in Jobs |-> NoJob]
  /\ issued = [j \in Jobs |-> 0]
  /\ retries = [j \in Jobs |-> 0]
  /\ review = [j \in ReviewJobs |-> "absent"]
  /\ rows = {}
  /\ worker = [w \in Workers |-> Idle]
  /\ crashes = 0

-----------------------------------------------------------------------------
\* The database side.

Expired(j) == job[j].status = "running" /\ job[j].lease = 0
\* Expired final attempts: the first statement of job_claim fails them.
Exhausted_Never == {}
Exhausted == {j \in Jobs : Expired(j) /\ job[j].attempts >= MaxAttempts}
\* What the second statement of job_claim may pick.  Its ORDER BY is left out:
\* SKIP LOCKED may pass over any row another transaction holds.
Claimable_AnyAttempts ==
  {j \in Jobs : \/ job[j].status = "queued" /\ job[j].backoff = 0
                \/ Expired(j)}
Claimable ==
  {j \in Jobs : /\ job[j].attempts < MaxAttempts
                /\ \/ job[j].status = "queued" /\ job[j].backoff = 0
                   \/ Expired(j)}

\* The fence of job_complete and job_fail.
Owns_AnyToken(j, t) == job[j].status = "running" /\ job[j].lease > 0
Owns(j, t) == job[j].status = "running" /\ job[j].owner = t /\ job[j].lease > 0

\* Reviews of the jobs in S take status s.
Reviewed(S, s) == [j \in ReviewJobs |-> IF j \in S THEN s ELSE review[j]]

\* review_submit inserts the review with its job; forecast_enqueue inserts a
\* job.  A deduplication key that exists already is left as it is.
Submit(j) ==
  /\ job[j].status = "absent"
  /\ job' = [job EXCEPT ![j].status = "queued"]
  /\ review' = Reviewed({j}, "pending")
  /\ UNCHANGED <<issued, retries, rows, worker, crashes>>

\* job_retry, by a manager.
Retryable_AnyEnded(j) == job[j].status \in {"completed", "failed"}
Retryable(j) == job[j].status = "failed"
Retry(j) ==
  /\ Retryable(j)
  /\ retries[j] < MaxRetries
  /\ retries' = [retries EXCEPT ![j] = @ + 1]
  /\ job' = [job EXCEPT ![j] = [NoJob EXCEPT !.status = "queued"]]
  /\ review' = Reviewed({j}, "pending")
  /\ UNCHANGED <<issued, rows, worker, crashes>>

\* The jobs, and their reviews, once a claim has failed the exhausted jobs.
Swept ==
  [j \in Jobs |-> IF j \in Exhausted
                  THEN [job[j] EXCEPT !.status = "failed", !.owner = None,
                                      !.lease = 0]
                  ELSE job[j]]
SweptReviews_Kept == review
SweptReviews == Reviewed(Exhausted, "failed")

\* job_claim finds a job; a lost answer leaves the worker polling.
Charge_NotReclaims(j) == IF job[j].status = "queued" THEN 1 ELSE 0
Charge(j) == 1
ClaimJob(w, j, delivered) ==
  /\ worker[w].pc = "polling"
  /\ j \in Claimable
  /\ issued' = [issued EXCEPT ![j] = @ + 1]
  /\ job' = [Swept EXCEPT ![j].status = "running", ![j].attempts = @ + Charge(j),
                          ![j].owner = issued[j] + 1, ![j].lease = Lease]
  /\ review' = SweptReviews
  /\ worker' = IF delivered
               THEN [worker EXCEPT
                       ![w] = Holding("working", j, issued[j] + 1, FALSE, 0)]
               ELSE worker
  /\ UNCHANGED <<retries, rows, crashes>>

\* job_claim finds no job, but fails the exhausted ones.
ClaimNothing(w) ==
  /\ worker[w].pc = "polling"
  /\ Claimable = {}
  /\ Exhausted # {}
  /\ job' = Swept
  /\ review' = SweptReviews
  /\ UNCHANGED <<issued, retries, rows, worker, crashes>>

Claim(w) == \/ \E j \in Jobs, delivered \in BOOLEAN : ClaimJob(w, j, delivered)
            \/ ClaimNothing(w)

\* The effect of a job_complete that passes the fence and the validation.
Recorded_Never(j, t) == UNCHANGED rows
Recorded(j, t) == rows' = rows \cup {[job |-> j, token |-> t]}
Complete(j, t) ==
  /\ Owns(j, t)
  /\ Recorded(j, t)
  /\ review' = Reviewed({j}, "completed")
  /\ job' = [job EXCEPT ![j].status = "completed", ![j].owner = None,
                        ![j].lease = 0]

\* The effect of a job_fail that passes the fence.
Fail(j, t) ==
  /\ Owns(j, t)
  /\ LET final == job[j].attempts >= MaxAttempts
     IN  /\ job' = [job EXCEPT ![j].status = IF final THEN "failed" ELSE "queued",
                               ![j].owner = None, ![j].lease = 0,
                               ![j].backoff = Backoff[job[j].attempts]]
         /\ review' = IF final THEN Reviewed({j}, "failed") ELSE review

-----------------------------------------------------------------------------
\* The worker side: process_job and its heartbeat task.

HasJob(w) == worker[w].pc \in {"working", "completing", "failing"}
\* The heartbeat task ends when the ownership is lost.
Beating(w) == HasJob(w) /\ ~worker[w].lost

\* A worker whose ownership is lost writes nothing and polls again.
NextCall(w, pc) ==
  worker' = [worker EXCEPT ![w] = IF @.lost THEN Idle ELSE [@ EXCEPT !.pc = pc]]

\* The handler returns, or raises.
HandlerReturns(w) ==
  /\ worker[w].pc = "working"
  /\ NextCall(w, "completing")
  /\ UNCHANGED <<job, issued, retries, review, rows, crashes>>

HandlerRaises(w) ==
  /\ worker[w].pc = "working"
  /\ NextCall(w, "failing")
  /\ UNCHANGED <<job, issued, retries, review, rows, crashes>>

\* job_complete commits.  If the answer is lost the worker sees an exception
\* and goes on to report the job as failed.
CompleteCommits(w) ==
  /\ worker[w].pc = "completing"
  /\ Complete(worker[w].job, worker[w].token)
  /\ \/ worker' = [worker EXCEPT ![w] = Idle]
     \/ NextCall(w, "failing")
  /\ UNCHANGED <<issued, retries, crashes>>

\* job_complete raises: not owned any more, an invalid result, or no connection.
CompleteRaises(w) ==
  /\ worker[w].pc = "completing"
  /\ NextCall(w, "failing")
  /\ UNCHANGED <<job, issued, retries, review, rows, crashes>>

\* job_fail: any error of this call is suppressed.
FailCommits(w) ==
  /\ worker[w].pc = "failing"
  /\ Fail(worker[w].job, worker[w].token)
  /\ worker' = [worker EXCEPT ![w] = Idle]
  /\ UNCHANGED <<issued, retries, rows, crashes>>

FailRaises(w) ==
  /\ worker[w].pc = "failing"
  /\ worker' = [worker EXCEPT ![w] = Idle]
  /\ UNCHANGED <<job, issued, retries, review, rows, crashes>>

\* job_heartbeat renews a lease that is still held.  "answered" is FALSE when
\* the call, run or not, ends in an exception: the ownership is then given up.
Renewed_NotExtended(j) == UNCHANGED job
Renewed(j) == job' = [job EXCEPT ![j].lease = Lease]
Heartbeat(w, answered) ==
  /\ Beating(w)
  /\ worker[w].beat >= Interval
  /\ LET j == worker[w].job
         t == worker[w].token
     IN \/ /\ Owns(j, t)
           /\ Renewed(j)
           /\ worker' = [worker EXCEPT ![w].lost = ~answered, ![w].beat = 0]
        \/ /\ ~Owns(j, t) \/ ~answered
           /\ worker' = [worker EXCEPT ![w].lost = TRUE, ![w].beat = 0]
           /\ UNCHANGED job
  /\ UNCHANGED <<issued, retries, review, rows, crashes>>

\* A worker process dies at any point; compose.yaml restarts it.
Crash(w) ==
  /\ worker[w].pc # "down"
  /\ crashes < MaxCrashes
  /\ crashes' = crashes + 1
  /\ worker' = [worker EXCEPT ![w] = [pc |-> "down"]]
  /\ UNCHANGED <<job, issued, retries, review, rows>>

Restart(w) ==
  /\ worker[w].pc = "down"
  /\ worker' = [worker EXCEPT ![w] = Idle]
  /\ UNCHANGED <<job, issued, retries, review, rows, crashes>>

-----------------------------------------------------------------------------
Less(n) == IF n = 0 THEN 0 ELSE n - 1
\* The heartbeat task of w has waited as long as this model distinguishes.
Late(w) == Beating(w) /\ worker[w].beat >= Interval + MaxDelay
Aged(w) == IF Beating(w) /\ ~Late(w)
           THEN [worker[w] EXCEPT !.beat = @ + 1] ELSE worker[w]

\* One tick of time, unless a heartbeat is as late as it may be.
Tick ==
  /\ \A w \in Punctual : ~Late(w)
  /\ job' = [j \in Jobs |-> [job[j] EXCEPT !.lease = Less(@),
                                           !.backoff = Less(@)]]
  /\ worker' = [w \in Workers |-> Aged(w)]
  /\ UNCHANGED <<issued, retries, review, rows, crashes>>

Next ==
  \/ Tick
  \/ \E j \in Jobs : Submit(j) \/ Retry(j)
  \/ \E w \in Workers :
       \/ Claim(w)
       \/ HandlerReturns(w) \/ HandlerRaises(w)
       \/ CompleteCommits(w) \/ CompleteRaises(w)
       \/ FailCommits(w) \/ FailRaises(w)
       \/ \E answered \in BOOLEAN : Heartbeat(w, answered)
       \/ Crash(w) \/ Restart(w)

Spec == Init /\ [][Next]_vars

\* Time passes; a running worker polls and its calls and handlers end (each has
\* a timeout); a stopped worker process is restarted.
Fairness ==
  /\ WF_vars(Tick)
  /\ \A w \in Workers :
       /\ WF_vars(Claim(w))
       /\ WF_vars(HandlerReturns(w) \/ HandlerRaises(w))
       /\ WF_vars(CompleteCommits(w) \/ CompleteRaises(w))
       /\ WF_vars(FailCommits(w) \/ FailRaises(w))
       /\ WF_vars(Restart(w))

FairSpec == Spec /\ Fairness

-----------------------------------------------------------------------------
\* Properties.

\* A stored result is the one computed under the latest claim of its job, a
\* completed job has exactly that one result, and no other job has any: an
\* expired worker never overwrites, and completion and result commit together
\* (job_complete, docs/architecture.md:27).
ResultFromLastClaim ==
  \A j \in Jobs :
    {r \in rows : r.job = j} =
      IF job[j].status = "completed" THEN {[job |-> j, token |-> issued[j]]}
                                     ELSE {}

\* What a manager reads in reviews.analysis_status agrees with the job that
\* analyses the review, through claims, sweeps, failures and manual retries.
ReviewAgreesWithJob ==
  \A j \in ReviewJobs :
    review[j] = IF job[j].status \in {"queued", "running"} THEN "pending"
                                                          ELSE job[j].status

\* Retries are bounded: lost workers, lost answers and expired leases included,
\* a job is handed out at most max_attempts times per manual retry.
AttemptBudget ==
  \A j \in Jobs : issued[j] <= MaxAttempts * (retries[j] + 1)

\* Nothing reopens a completed job: not a stale worker, not a worker that lost
\* the answer of its job_complete and reports a failure, not a manual retry.
CompletedIsFinal ==
  [][\A j \in Jobs : job[j].status = "completed" =>
       job'[j].status = "completed" /\ issued'[j] = issued[j]]_vars

\* A worker whose heartbeats run in time and that was told of no loss does hold
\* its job: the lease cannot run out and no other worker, however late and with
\* whatever token, does the same work.
HealthyOwnerKeepsJob ==
  \A w \in Punctual :
    worker[w].pc \in {"working", "completing"} /\ ~worker[w].lost =>
      Owns(worker[w].job, worker[w].token)

\* Every job that is accepted ends, even when workers die with it: no job stays
\* queued or running for ever.
EveryJobSettles ==
  \A j \in Jobs : job[j].status \in {"queued", "running"} ~>
                  job[j].status \in {"completed", "failed"}

\* What the rest of the system sees of the jobs.
outcomeOf ==
  [j \in Jobs |-> CASE job[j].status \in {"queued", "running"} -> "pending"
                    [] job[j].status = "completed" -> "done"
                    [] OTHER -> job[j].status]
Contract == INSTANCE JobContract WITH
              outcome <- outcomeOf, recorded <- {r.job : r \in rows}

\* Workers, leases and retries implement the contract of module JobContract:
\* a result appears once and together with the completion of its job.
ImplementsContract == Contract!ContractSafety

=============================================================================
