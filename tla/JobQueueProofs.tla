---------------------------- MODULE JobQueueProofs ----------------------------
(***************************************************************************)
(* Proofs about JobQueue, for any number of workers, jobs and attempts.    *)
(***************************************************************************)
EXTENDS JobQueue, TLAPS

(***************************************************************************)
(* Types.                                                                  *)
(***************************************************************************)

LEMMA Numbers ==
  /\ MaxAttempts \in Nat /\ MaxAttempts > 0 /\ Lease \in Nat /\ Lease > 0
  /\ Interval \in Nat /\ MaxDelay \in Nat /\ MaxRetries \in Nat /\ MaxCrashes \in Nat
  /\ 0 \in Nat /\ 0 \in 0..MaxAttempts /\ 0 \in 0..Lease /\ Lease \in 0..Lease
  /\ 0 \in 0..MaxRetries /\ 0 \in 0..MaxCrashes
BY NumbersAssumption

ReviewStatuses == {"absent", "pending", "completed", "failed"}

LEMMA ReviewedType ==
  ASSUME TypeOK, NEW S, NEW s \in ReviewStatuses
  PROVE  Reviewed(S, s) \in [ReviewJobs -> ReviewStatuses]
BY DEF TypeOK, Reviewed, ReviewStatuses

LEMMA LessType == \A n \in Nat : Less(n) \in Nat /\ Less(n) <= n
BY DEF Less

LEMMA SweptType ==
  ASSUME TypeOK
  PROVE  Swept \in [Jobs -> Job]
<1>1. ASSUME NEW j \in Jobs
      PROVE  [job[j] EXCEPT !.status = "failed", !.owner = None, !.lease = 0] \in Job
  BY Numbers DEF TypeOK, Job, Statuses, None
<1>2. ASSUME NEW j \in Jobs PROVE job[j] \in Job
  BY DEF TypeOK
<1> QED
  BY <1>1, <1>2 DEF Swept

\* A worker with a job is one of the busy records.
LEMMA BusyWorker ==
  ASSUME TypeOK, NEW w \in Workers,
         worker[w].pc \in {"working", "completing", "failing"}
  PROVE  worker[w] \in Busy
<1>1. worker[w] \in [pc : {"polling", "down"}] \cup Busy
  BY DEF TypeOK, Worker
<1>2. worker[w] \notin [pc : {"polling", "down"}]
  OBVIOUS
<1> QED
  BY <1>1, <1>2

LEMMA BusyFields ==
  ASSUME NEW b \in Busy
  PROVE  /\ b.pc \in {"working", "completing", "failing"} /\ b.job \in Jobs
         /\ b.token \in Nat /\ b.lost \in BOOLEAN /\ b.beat \in Nat
BY DEF Busy

LEMMA InitType == Init => TypeOK
<1> SUFFICES ASSUME Init PROVE TypeOK
  OBVIOUS
<1>1. NoJob \in Job
  BY Numbers DEF NoJob, Job, Statuses, None
<1>2. Idle \in Worker
  BY DEF Idle, Worker
<1> QED
  BY <1>1, <1>2, Numbers DEF Init, TypeOK

LEMMA SubmitType ==
  ASSUME TypeOK, NEW j \in Jobs, Submit(j) PROVE TypeOK'
<1>1. review' \in [ReviewJobs -> ReviewStatuses]
  BY ReviewedType DEF Submit, ReviewStatuses
<1>2. job' \in [Jobs -> Job]
  BY DEF Submit, TypeOK, Job, Statuses
<1> QED
  BY <1>1, <1>2 DEF Submit, TypeOK, ReviewStatuses

LEMMA RetryType ==
  ASSUME TypeOK, NEW j \in Jobs, Retry(j) PROVE TypeOK'
<1>1. review' \in [ReviewJobs -> ReviewStatuses]
  BY ReviewedType DEF Retry, ReviewStatuses
<1>2. [NoJob EXCEPT !.status = "queued"] \in Job
  BY Numbers DEF NoJob, Job, Statuses, None
<1>3. job' \in [Jobs -> Job]
  BY <1>2 DEF Retry, TypeOK
<1>4. retries' \in [Jobs -> 0..MaxRetries]
  BY Numbers DEF Retry, TypeOK
<1> QED
  BY <1>1, <1>3, <1>4 DEF Retry, TypeOK, ReviewStatuses

\* Worker records: a new one, and one that polls again or goes to its next call.
LEMMA HoldingType ==
  ASSUME NEW j \in Jobs, NEW t \in Nat
  PROVE  Holding("working", j, t, FALSE, 0) \in Worker
BY DEF Holding, Worker, Busy

LEMMA NextCallType ==
  ASSUME TypeOK, NEW w \in Workers, NEW pc \in {"working", "completing", "failing"},
         worker[w].pc \in {"working", "completing", "failing"}, NextCall(w, pc)
  PROVE  worker' \in [Workers -> Worker]
<1>1. [worker[w] EXCEPT !.pc = pc] \in Busy
  BY BusyWorker DEF Busy
<1>2. Idle \in Worker
  BY DEF Idle, Worker
<1> QED
  BY <1>1, <1>2 DEF NextCall, TypeOK, Worker

LEMMA IdleType ==
  ASSUME TypeOK, NEW w \in Workers
  PROVE  [worker EXCEPT ![w] = Idle] \in [Workers -> Worker]
<1>1. Idle \in Worker
  BY DEF Idle, Worker
<1> QED
  BY <1>1 DEF TypeOK

LEMMA ClaimJobType ==
  ASSUME TypeOK, NEW w \in Workers, NEW j \in Jobs, NEW delivered \in BOOLEAN,
         ClaimJob(w, j, delivered)
  PROVE  TypeOK'
<1>1. review' \in [ReviewJobs -> ReviewStatuses]
  BY ReviewedType DEF ClaimJob, SweptReviews, ReviewStatuses
<1>2. issued[j] + 1 \in Nat /\ issued' \in [Jobs -> Nat]
  BY DEF ClaimJob, TypeOK
<1>3. Swept[j] = job[j] /\ job[j].attempts < MaxAttempts
  <2>1. job[j].attempts < MaxAttempts
    BY DEF ClaimJob, Claimable
  <2>2. job[j].attempts \in Nat
    BY DEF TypeOK, Job
  <2>3. j \notin Exhausted
    BY <2>1, <2>2, Numbers DEF Exhausted
  <2> QED
    BY <2>1, <2>3 DEF Swept
<1>4. job[j].attempts + Charge(j) \in 0..MaxAttempts
  BY <1>3, Numbers DEF TypeOK, Job, Charge
<1>5. DEFINE r == [Swept[j] EXCEPT !.status = "running", !.attempts = @ + Charge(j),
                                   !.owner = issued[j] + 1, !.lease = Lease]
<1>6. r \in Job
  BY <1>2, <1>3, <1>4, SweptType, Numbers DEF Job, Statuses
<1>7. job' = [Swept EXCEPT ![j] = r]
  BY SweptType DEF ClaimJob
<1>8. job' \in [Jobs -> Job]
  BY <1>6, <1>7, SweptType
<1>9. worker' \in [Workers -> Worker]
  BY <1>2, HoldingType DEF ClaimJob, TypeOK
<1> QED
  BY <1>1, <1>2, <1>8, <1>9 DEF ClaimJob, TypeOK, ReviewStatuses

LEMMA ClaimNothingType ==
  ASSUME TypeOK, NEW w \in Workers, ClaimNothing(w)
  PROVE  TypeOK'
<1>1. review' \in [ReviewJobs -> ReviewStatuses]
  BY ReviewedType DEF ClaimNothing, SweptReviews, ReviewStatuses
<1> QED
  BY <1>1, SweptType DEF ClaimNothing, TypeOK, ReviewStatuses

LEMMA CompleteCommitsType ==
  ASSUME TypeOK, NEW w \in Workers, CompleteCommits(w)
  PROVE  TypeOK'
<1> DEFINE j == worker[w].job
           t == worker[w].token
<1>1. j \in Jobs /\ t \in Nat
  BY BusyWorker, BusyFields DEF CompleteCommits
<1>2. review' \in [ReviewJobs -> ReviewStatuses]
  BY ReviewedType DEF CompleteCommits, Complete, ReviewStatuses
<1>3. [job[j] EXCEPT !.status = "completed", !.owner = None, !.lease = 0] \in Job
  BY <1>1, Numbers DEF TypeOK, Job, Statuses, None
<1>4. job' \in [Jobs -> Job]
  BY <1>1, <1>3 DEF CompleteCommits, Complete, TypeOK
<1>5. rows' \subseteq [job : Jobs, token : Nat]
  BY <1>1 DEF CompleteCommits, Complete, Recorded, TypeOK
<1>6. worker' \in [Workers -> Worker]
  BY IdleType, NextCallType DEF CompleteCommits
<1> QED
  BY <1>2, <1>4, <1>5, <1>6 DEF CompleteCommits, TypeOK, ReviewStatuses

LEMMA FailCommitsType ==
  ASSUME TypeOK, NEW w \in Workers, FailCommits(w)
  PROVE  TypeOK'
<1> DEFINE j == worker[w].job
           t == worker[w].token
<1>1. j \in Jobs /\ Fail(j, t)
  BY BusyWorker, BusyFields DEF FailCommits
<1>2. review' \in [ReviewJobs -> ReviewStatuses]
  BY <1>1, ReviewedType DEF Fail, TypeOK, ReviewStatuses
<1>3. ASSUME NEW s \in Statuses, NEW b \in Nat
      PROVE  [job[j] EXCEPT !.status = s, !.owner = None, !.lease = 0, !.backoff = b] \in Job
  BY <1>1, Numbers DEF TypeOK, Job, None
<1>4. job' \in [Jobs -> Job]
  <2> DEFINE s == IF job[j].attempts >= MaxAttempts THEN "failed" ELSE "queued"
  <2>1. s \in Statuses
    BY DEF Statuses
  <2>2. Backoff[job[j].attempts] \in Nat
    BY <1>1, BackoffAssumption DEF TypeOK, Job
  <2> QED
    BY <1>1, <1>3, <2>1, <2>2 DEF Fail, TypeOK
<1>5. worker' \in [Workers -> Worker]
  BY IdleType DEF FailCommits
<1> QED
  BY <1>2, <1>4, <1>5 DEF FailCommits, TypeOK, ReviewStatuses

LEMMA HeartbeatType ==
  ASSUME TypeOK, NEW w \in Workers, NEW answered \in BOOLEAN, Heartbeat(w, answered)
  PROVE  TypeOK'
<1> DEFINE j == worker[w].job
<1>1. worker[w] \in Busy /\ j \in Jobs
  BY BusyWorker, BusyFields DEF Heartbeat, Beating, HasJob
<1>2. [job[j] EXCEPT !.lease = Lease] \in Job
  BY <1>1, Numbers DEF TypeOK, Job
<1>3. job' \in [Jobs -> Job]
  BY <1>1, <1>2 DEF Heartbeat, Renewed, TypeOK
<1>4. ASSUME NEW b \in BOOLEAN
      PROVE  [worker[w] EXCEPT !.lost = b, !.beat = 0] \in Worker
  BY <1>1 DEF Busy, Worker
<1>5. worker' \in [Workers -> Worker]
  BY <1>4 DEF Heartbeat, TypeOK
<1> QED
  BY <1>3, <1>5 DEF Heartbeat, TypeOK

LEMMA TickType ==
  ASSUME TypeOK, Tick
  PROVE  TypeOK'
<1>1. ASSUME NEW j \in Jobs
      PROVE  [job[j] EXCEPT !.lease = Less(@), !.backoff = Less(@)] \in Job
  <2>1. job[j] \in Job /\ job[j].lease \in 0..Lease /\ job[j].backoff \in Nat
    BY DEF TypeOK, Job
  <2>2. Less(job[j].lease) \in 0..Lease /\ Less(job[j].backoff) \in Nat
    BY <2>1, LessType, Numbers
  <2> QED
    BY <2>1, <2>2 DEF Job
<1>2. ASSUME NEW w \in Workers
      PROVE  Aged(w) \in Worker
  <2>1. CASE Beating(w) /\ ~Late(w)
    <3>1. worker[w] \in Busy /\ worker[w].beat \in Nat
      BY <2>1, BusyWorker, BusyFields DEF Beating, HasJob
    <3>2. [worker[w] EXCEPT !.beat = @ + 1] \in Busy
      BY <3>1 DEF Busy
    <3> QED
      BY <2>1, <3>2 DEF Aged, Worker
  <2>2. CASE ~(Beating(w) /\ ~Late(w))
    BY <2>2 DEF Aged, TypeOK
  <2> QED
    BY <2>1, <2>2
<1>3. job' \in [Jobs -> Job]
  BY <1>1 DEF Tick
<1>4. worker' \in [Workers -> Worker]
  BY <1>2 DEF Tick
<1> QED
  BY <1>3, <1>4 DEF Tick, TypeOK

LEMMA NextType == TypeOK /\ [Next]_vars => TypeOK'
<1> SUFFICES ASSUME TypeOK, [Next]_vars PROVE TypeOK'
  OBVIOUS
<1>1. CASE Tick
  BY <1>1, TickType
<1>2. ASSUME NEW j \in Jobs, Submit(j) \/ Retry(j) PROVE TypeOK'
  BY <1>2, SubmitType, RetryType
<1>3. ASSUME NEW w \in Workers, Claim(w) PROVE TypeOK'
  BY <1>3, ClaimJobType, ClaimNothingType DEF Claim
<1>4. ASSUME NEW w \in Workers,
             HandlerReturns(w) \/ HandlerRaises(w) \/ CompleteRaises(w)
      PROVE  TypeOK'
  <2>1. worker' \in [Workers -> Worker]
    BY <1>4, NextCallType DEF HandlerReturns, HandlerRaises, CompleteRaises
  <2> QED
    BY <1>4, <2>1 DEF HandlerReturns, HandlerRaises, CompleteRaises, TypeOK
<1>5. ASSUME NEW w \in Workers, CompleteCommits(w) \/ FailCommits(w) PROVE TypeOK'
  BY <1>5, CompleteCommitsType, FailCommitsType
<1>6. ASSUME NEW w \in Workers, NEW answered \in BOOLEAN, Heartbeat(w, answered)
      PROVE  TypeOK'
  BY <1>6, HeartbeatType
<1>7. ASSUME NEW w \in Workers, FailRaises(w) \/ Restart(w) PROVE TypeOK'
  <2>1. worker' \in [Workers -> Worker]
    BY <1>7, IdleType DEF FailRaises, Restart
  <2> QED
    BY <1>7, <2>1 DEF FailRaises, Restart, TypeOK
<1>8. ASSUME NEW w \in Workers, Crash(w) PROVE TypeOK'
  <2>1. [pc |-> "down"] \in Worker
    BY DEF Worker
  <2> QED
    BY <1>8, <2>1, Numbers DEF Crash, TypeOK
<1>9. CASE UNCHANGED vars
  BY <1>9 DEF vars, TypeOK
<1> QED
  BY <1>1, <1>2, <1>3, <1>4, <1>5, <1>6, <1>7, <1>8, <1>9 DEF Next

\* Every variable keeps its type, whatever the workers, the network and the
\* managers do.
THEOREM TypeCorrect == Spec => []TypeOK
BY InitType, NextType, PTL DEF Spec

(***************************************************************************)
(* What a step may do to one job.  Every later proof reasons about these   *)
(* seven cases and not about the actions.                                  *)
(***************************************************************************)

RowsOf(j) == {r \in rows : r.job = j}

\* The job goes from status a to status b, and its review becomes s.
Moves(j, a, b, s) ==
  /\ job[j].status = a
  /\ job'[j].status = b
  /\ j \in ReviewJobs => review'[j] = s
\* The claims, the retries and the results of the job stay as they are.
SameCounts(j) ==
  issued'[j] = issued[j] /\ retries'[j] = retries[j] /\ RowsOf(j)' = RowsOf(j)

Stays(j) ==
  /\ job'[j].status = job[j].status /\ job'[j].owner = job[j].owner
  /\ job'[j].attempts = job[j].attempts
  /\ j \in ReviewJobs => review'[j] = review[j]
  /\ SameCounts(j)
Accepted(j) ==
  /\ Moves(j, "absent", "queued", "pending")
  /\ job'[j].attempts = job[j].attempts /\ SameCounts(j)
Retried(j) ==
  /\ Moves(j, "failed", "queued", "pending")
  /\ job'[j].attempts = 0 /\ retries'[j] = retries[j] + 1
  /\ issued'[j] = issued[j] /\ RowsOf(j)' = RowsOf(j)
Claimed(j) ==
  /\ job[j].status \in {"queued", "running"} /\ job'[j].status = "running"
  /\ j \in ReviewJobs => review'[j] = review[j]
  /\ job'[j].attempts = job[j].attempts + 1
  /\ issued'[j] = issued[j] + 1 /\ job'[j].owner = issued'[j]
  /\ retries'[j] = retries[j] /\ RowsOf(j)' = RowsOf(j)
GivenUp(j) ==
  /\ Moves(j, "running", "failed", "failed")
  /\ job'[j].attempts = job[j].attempts /\ SameCounts(j)
Requeued(j) ==
  /\ job[j].status = "running" /\ job'[j].status = "queued"
  /\ j \in ReviewJobs => review'[j] = review[j]
  /\ job'[j].attempts = job[j].attempts /\ SameCounts(j)
Done(j) ==
  /\ Moves(j, "running", "completed", "completed")
  /\ job'[j].attempts = job[j].attempts
  /\ issued'[j] = issued[j] /\ retries'[j] = retries[j]
  /\ RowsOf(j)' = RowsOf(j) \cup {[job |-> j, token |-> job[j].owner]}

JobStep(j) == \/ Stays(j) \/ Accepted(j) \/ Retried(j) \/ Claimed(j)
              \/ GivenUp(j) \/ Requeued(j) \/ Done(j)

LEMMA SweptEffect ==
  ASSUME TypeOK, NEW j \in Jobs,
         job'[j] = Swept[j], review' = SweptReviews,
         UNCHANGED <<issued[j], retries, rows>>
  PROVE  Stays(j) \/ GivenUp(j)
<1>1. CASE j \in Exhausted
  <2>1. job[j].status = "running"
    BY <1>1 DEF Exhausted, Expired
  <2>2. /\ job'[j].status = "failed"
        /\ job'[j].attempts = job[j].attempts
    BY <1>1 DEF Swept, TypeOK, Job
  <2>3. j \in ReviewJobs => review'[j] = "failed"
    BY <1>1 DEF SweptReviews, Reviewed
  <2> QED
    BY <2>1, <2>2, <2>3 DEF GivenUp, Moves, SameCounts, RowsOf
<1>2. CASE j \notin Exhausted
  <2>1. job'[j] = job[j]
    BY <1>2 DEF Swept
  <2>2. j \in ReviewJobs => review'[j] = review[j]
    BY <1>2 DEF SweptReviews, Reviewed
  <2> QED
    BY <2>1, <2>2 DEF Stays, SameCounts, RowsOf
<1> QED
  BY <1>1, <1>2

LEMMA ClaimStep ==
  ASSUME TypeOK, NEW w \in Workers, Claim(w), NEW j \in Jobs
  PROVE  Stays(j) \/ Claimed(j) \/ GivenUp(j)
<1>1. ASSUME NEW k \in Jobs, NEW delivered \in BOOLEAN, ClaimJob(w, k, delivered)
      PROVE  Stays(j) \/ Claimed(j) \/ GivenUp(j)
  <2>1. CASE j = k
    <3>1. /\ job[j].status \in {"queued", "running"}
          /\ job[j].attempts < MaxAttempts
      BY <1>1, <2>1 DEF ClaimJob, Claimable, Expired
    <3>2. job[j].attempts \in Nat /\ issued[j] \in Nat
      BY DEF TypeOK, Job
    <3>3. j \notin Exhausted
      BY <3>1, <3>2, Numbers DEF Exhausted
    <3>4. Swept[j] = job[j] /\ (j \in ReviewJobs => review'[j] = review[j])
      BY <1>1, <3>3 DEF Swept, ClaimJob, SweptReviews, Reviewed
    <3>5. job'[j] = [Swept[j] EXCEPT !.status = "running", !.attempts = @ + Charge(j),
                                     !.owner = issued[j] + 1, !.lease = Lease]
      BY <1>1, <2>1, SweptType DEF ClaimJob
    <3>6. /\ job'[j].status = "running" /\ job'[j].attempts = job[j].attempts + 1
          /\ job'[j].owner = issued[j] + 1
      BY <3>4, <3>5 DEF Charge, TypeOK, Job
    <3>7. issued'[j] = issued[j] + 1
      BY <1>1, <2>1 DEF ClaimJob, TypeOK
    <3> QED
      BY <1>1, <3>1, <3>4, <3>6, <3>7 DEF Claimed, ClaimJob, RowsOf
  <2>2. CASE j # k
    <3>1. job'[j] = Swept[j] /\ issued'[j] = issued[j]
      BY <1>1, <2>2, SweptType DEF ClaimJob, TypeOK
    <3> QED
      BY <1>1, <3>1, SweptEffect DEF ClaimJob
  <2> QED
    BY <2>1, <2>2
<1>2. ASSUME ClaimNothing(w) PROVE Stays(j) \/ GivenUp(j)
  BY <1>2, SweptEffect DEF ClaimNothing
<1> QED
  BY <1>1, <1>2 DEF Claim

LEMMA CompleteStep ==
  ASSUME TypeOK, NEW w \in Workers, CompleteCommits(w), NEW j \in Jobs
  PROVE  IF j = worker[w].job THEN Done(j) ELSE Stays(j)
<1> DEFINE k == worker[w].job
           t == worker[w].token
<1>1. k \in Jobs /\ Complete(k, t) /\ UNCHANGED <<issued, retries>>
  BY BusyWorker, BusyFields DEF CompleteCommits
<1>2. rows' = rows \cup {[job |-> k, token |-> t]}
  BY <1>1 DEF Complete, Recorded
<1>3. CASE j = k
  <2>1. job[j].status = "running" /\ job[j].owner = t
    BY <1>1, <1>3 DEF Complete, Owns
  <2>2. job'[j].status = "completed" /\ job'[j].attempts = job[j].attempts
    BY <1>1, <1>3 DEF Complete, TypeOK, Job
  <2>3. j \in ReviewJobs => review'[j] = "completed"
    BY <1>1, <1>3 DEF Complete, Reviewed
  <2>4. RowsOf(j)' = RowsOf(j) \cup {[job |-> j, token |-> job[j].owner]}
    BY <1>2, <1>3, <2>1 DEF RowsOf
  <2> QED
    BY <1>1, <1>3, <2>1, <2>2, <2>3, <2>4 DEF Done, Moves
<1>4. CASE j # k
  <2>1. job'[j] = job[j]
    BY <1>1, <1>4 DEF Complete, TypeOK
  <2>2. j \in ReviewJobs => review'[j] = review[j]
    BY <1>1, <1>4 DEF Complete, Reviewed
  <2>3. RowsOf(j)' = RowsOf(j)
    BY <1>2, <1>4 DEF RowsOf
  <2> QED
    BY <1>1, <1>4, <2>1, <2>2, <2>3 DEF Stays, SameCounts
<1> QED
  BY <1>3, <1>4

LEMMA FailStep ==
  ASSUME TypeOK, NEW w \in Workers, FailCommits(w), NEW j \in Jobs
  PROVE  Stays(j) \/ Requeued(j) \/ GivenUp(j)
<1> DEFINE k == worker[w].job
           t == worker[w].token
<1>1. k \in Jobs /\ Fail(k, t) /\ UNCHANGED <<issued, retries, rows>>
  BY BusyWorker, BusyFields DEF FailCommits
<1>2. CASE j = k
  <2>1. job[j].status = "running"
    BY <1>1, <1>2 DEF Fail, Owns
  <2>2. job'[j].attempts = job[j].attempts
    BY <1>1, <1>2 DEF Fail, TypeOK, Job
  <2>3. CASE job[j].attempts >= MaxAttempts
    <3>1. job'[j].status = "failed" /\ (j \in ReviewJobs => review'[j] = "failed")
      BY <1>1, <1>2, <2>3 DEF Fail, Reviewed, TypeOK, Job
    <3> QED
      BY <1>1, <2>1, <2>2, <3>1 DEF GivenUp, Moves, SameCounts, RowsOf
  <2>4. CASE ~(job[j].attempts >= MaxAttempts)
    <3>1. job'[j].status = "queued" /\ review' = review
      BY <1>1, <1>2, <2>4 DEF Fail, TypeOK, Job
    <3> QED
      BY <1>1, <2>1, <2>2, <3>1 DEF Requeued, SameCounts, RowsOf
  <2> QED
    BY <2>3, <2>4
<1>3. CASE j # k
  <2>1. job'[j] = job[j]
    BY <1>1, <1>3 DEF Fail, TypeOK
  <2>2. j \in ReviewJobs => review'[j] = review[j]
    BY <1>1, <1>3 DEF Fail, Reviewed
  <2> QED
    BY <1>1, <2>1, <2>2 DEF Stays, SameCounts, RowsOf
<1> QED
  BY <1>2, <1>3

LEMMA SubmitStep ==
  ASSUME TypeOK, NEW k \in Jobs, Submit(k), NEW j \in Jobs
  PROVE  IF j = k THEN Accepted(j) ELSE Stays(j)
<1>1. CASE j = k
  BY <1>1 DEF Submit, Reviewed, Accepted, Moves, SameCounts, RowsOf, TypeOK, Job
<1>2. CASE j # k
  BY <1>2 DEF Submit, Reviewed, Stays, SameCounts, RowsOf, TypeOK
<1> QED
  BY <1>1, <1>2

LEMMA RetryStep ==
  ASSUME TypeOK, NEW k \in Jobs, Retry(k), NEW j \in Jobs
  PROVE  IF j = k THEN Retried(j) ELSE Stays(j)
<1>1. CASE j = k
  <2>1. job'[j] = [NoJob EXCEPT !.status = "queued"] /\ job[j].status = "failed"
    BY <1>1 DEF Retry, Retryable, TypeOK
  <2>2. job'[j].status = "queued" /\ job'[j].attempts = 0
    BY <2>1 DEF NoJob
  <2>3. retries'[j] = retries[j] + 1
    BY <1>1 DEF Retry, TypeOK
  <2> QED
    BY <1>1, <2>1, <2>2, <2>3 DEF Retry, Reviewed, Retried, Moves, RowsOf
<1>2. CASE j # k
  BY <1>2 DEF Retry, Reviewed, Stays, SameCounts, RowsOf, TypeOK
<1> QED
  BY <1>1, <1>2

\* The steps that change no job as the rest of the system sees it.
QuietNext ==
  \/ Tick
  \/ \E w \in Workers :
       \/ HandlerReturns(w) \/ HandlerRaises(w) \/ CompleteRaises(w)
       \/ FailRaises(w) \/ Crash(w) \/ Restart(w)
       \/ \E answered \in BOOLEAN : Heartbeat(w, answered)
  \/ UNCHANGED vars

LEMMA QuietStep ==
  ASSUME TypeOK, QuietNext, NEW j \in Jobs
  PROVE  Stays(j)
<1>1. CASE Tick
  <2>1. job'[j] = [job[j] EXCEPT !.lease = Less(@), !.backoff = Less(@)]
    BY <1>1 DEF Tick
  <2> QED
    BY <1>1, <2>1 DEF Tick, Stays, SameCounts, RowsOf, TypeOK, Job
<1>2. ASSUME NEW w \in Workers, NEW answered \in BOOLEAN, Heartbeat(w, answered)
      PROVE  Stays(j)
  <2> DEFINE k == worker[w].job
  <2>1. k \in Jobs
    BY <1>2, BusyWorker, BusyFields DEF Heartbeat, Beating, HasJob
  <2>2. job'[j] = job[j] \/ job'[j] = [job[j] EXCEPT !.lease = Lease]
    BY <1>2, <2>1 DEF Heartbeat, Renewed, TypeOK
  <2> QED
    BY <1>2, <2>2 DEF Heartbeat, Stays, SameCounts, RowsOf, TypeOK, Job
<1>3. ASSUME NEW w \in Workers,
             \/ HandlerReturns(w) \/ HandlerRaises(w) \/ CompleteRaises(w)
             \/ FailRaises(w) \/ Crash(w) \/ Restart(w)
      PROVE  Stays(j)
  BY <1>3 DEF HandlerReturns, HandlerRaises, CompleteRaises, FailRaises, Crash, Restart,
              Stays, SameCounts, RowsOf
<1>4. CASE UNCHANGED vars
  BY <1>4 DEF vars, Stays, SameCounts, RowsOf
<1> QED
  BY <1>1, <1>2, <1>3, <1>4 DEF QuietNext

\* The disjuncts of Next, for the proofs below.
LEMMA NextCases ==
  ASSUME [Next]_vars
  PROVE  \/ QuietNext
         \/ \E k \in Jobs : Submit(k) \/ Retry(k)
         \/ \E w \in Workers : Claim(w) \/ CompleteCommits(w) \/ FailCommits(w)
BY DEF Next, QuietNext

LEMMA StepOfEveryJob ==
  ASSUME TypeOK, [Next]_vars, NEW j \in Jobs
  PROVE  JobStep(j)
<1>1. CASE QuietNext
  BY <1>1, QuietStep DEF JobStep
<1>2. ASSUME NEW k \in Jobs, Submit(k) \/ Retry(k) PROVE JobStep(j)
  BY <1>2, SubmitStep, RetryStep DEF JobStep
<1>3. ASSUME NEW w \in Workers, Claim(w) \/ CompleteCommits(w) \/ FailCommits(w)
      PROVE  JobStep(j)
  BY <1>3, ClaimStep, CompleteStep, FailStep DEF JobStep
<1> QED
  BY <1>1, <1>2, <1>3, NextCases

(***************************************************************************)
(* Safety.                                                                 *)
(***************************************************************************)

\* The strengthening that makes ResultFromLastClaim inductive: the owner of a
\* running job is the latest token generated for it.
OwnerIsLatest == \A j \in Jobs : job[j].status = "running" => job[j].owner = issued[j]

LEMMA OwnerIsLatestStep == TypeOK /\ OwnerIsLatest /\ [Next]_vars => OwnerIsLatest'
<1> SUFFICES ASSUME TypeOK, OwnerIsLatest, [Next]_vars, NEW j \in Jobs, job'[j].status = "running"
             PROVE  job'[j].owner = issued'[j]
  BY DEF OwnerIsLatest
<1>1. JobStep(j)
  BY StepOfEveryJob
<1> QED
  BY <1>1 DEF JobStep, Stays, Accepted, Retried, Claimed, GivenUp, Requeued, Done, Moves,
              SameCounts, OwnerIsLatest

\* A stored result is the one of the latest claim; completion and result are
\* one step (job_complete).
THEOREM FencedResults == Spec => []ResultFromLastClaim
<1>1. Init => OwnerIsLatest /\ ResultFromLastClaim
  BY DEF Init, OwnerIsLatest, ResultFromLastClaim, NoJob
<1>2. TypeOK /\ OwnerIsLatest /\ ResultFromLastClaim /\ [Next]_vars => ResultFromLastClaim'
  <2> SUFFICES ASSUME TypeOK, OwnerIsLatest, ResultFromLastClaim, [Next]_vars, NEW j \in Jobs
               PROVE  RowsOf(j)' = IF job'[j].status = "completed"
                                   THEN {[job |-> j, token |-> issued'[j]]} ELSE {}
    BY DEF ResultFromLastClaim, RowsOf
  <2>1. RowsOf(j) = IF job[j].status = "completed"
                    THEN {[job |-> j, token |-> issued[j]]} ELSE {}
    BY DEF ResultFromLastClaim, RowsOf
  <2>2. JobStep(j)
    BY StepOfEveryJob
  <2>3. CASE Done(j)
    BY <2>1, <2>3 DEF Done, Moves, OwnerIsLatest
  <2>4. CASE ~Done(j)
    BY <2>1, <2>2, <2>4 DEF JobStep, Stays, Accepted, Retried, Claimed, GivenUp, Requeued,
                            Moves, SameCounts
  <2> QED
    BY <2>3, <2>4
<1> QED
  BY <1>1, <1>2, OwnerIsLatestStep, TypeCorrect, PTL DEF Spec

\* A review says pending, completed or failed exactly when its analysis job does.
THEOREM ReviewsAgree == Spec => []ReviewAgreesWithJob
<1>1. Init => ReviewAgreesWithJob
  BY JobsAssumption DEF Init, ReviewAgreesWithJob, NoJob
<1>2. TypeOK /\ ReviewAgreesWithJob /\ [Next]_vars => ReviewAgreesWithJob'
  <2> SUFFICES ASSUME TypeOK, ReviewAgreesWithJob, [Next]_vars, NEW j \in ReviewJobs
               PROVE  review'[j] = IF job'[j].status \in {"queued", "running"} THEN "pending"
                                                                            ELSE job'[j].status
    BY DEF ReviewAgreesWithJob
  <2>1. JobStep(j)
    BY JobsAssumption, StepOfEveryJob
  <2> QED
    BY <2>1 DEF JobStep, Stays, Accepted, Retried, Claimed, GivenUp, Requeued, Done, Moves,
                ReviewAgreesWithJob
<1> QED
  BY <1>1, <1>2, TypeCorrect, PTL DEF Spec

\* The strengthening of AttemptBudget: attempts counts the claims since the last
\* manual retry.
ClaimsCounted ==
  \A j \in Jobs : issued[j] <= MaxAttempts * retries[j] + job[j].attempts

\* A job is claimed at most MaxAttempts times per manual retry.
THEOREM BoundedRetries == Spec => []AttemptBudget
<1>1. Init => ClaimsCounted
  BY Numbers DEF Init, ClaimsCounted, NoJob
<1>2. TypeOK /\ ClaimsCounted /\ [Next]_vars => ClaimsCounted'
  <2> SUFFICES ASSUME TypeOK, ClaimsCounted, [Next]_vars, NEW j \in Jobs
               PROVE  issued'[j] <= MaxAttempts * retries'[j] + job'[j].attempts
    BY DEF ClaimsCounted
  <2>1. JobStep(j)
    BY StepOfEveryJob
  <2>2. /\ job[j].attempts \in Nat /\ job[j].attempts <= MaxAttempts
        /\ issued[j] \in Nat /\ retries[j] \in Nat
        /\ issued[j] <= MaxAttempts * retries[j] + job[j].attempts
    BY Numbers DEF TypeOK, Job, ClaimsCounted
  <2>3. MaxAttempts * (retries[j] + 1) = MaxAttempts * retries[j] + MaxAttempts
    BY <2>2, Numbers
  <2>4. CASE Retried(j)
    BY <2>2, <2>3, <2>4, Numbers DEF Retried
  <2>5. CASE Claimed(j)
    BY <2>2, <2>5, Numbers DEF Claimed
  <2>6. CASE Stays(j) \/ Accepted(j) \/ GivenUp(j) \/ Requeued(j) \/ Done(j)
    BY <2>2, <2>6 DEF Stays, Accepted, GivenUp, Requeued, Done, SameCounts
  <2> QED
    BY <2>1, <2>4, <2>5, <2>6 DEF JobStep
<1>3. TypeOK /\ ClaimsCounted => AttemptBudget
  <2> SUFFICES ASSUME TypeOK, ClaimsCounted, NEW j \in Jobs
               PROVE  issued[j] <= MaxAttempts * (retries[j] + 1)
    BY DEF AttemptBudget
  <2>1. /\ job[j].attempts \in Nat /\ job[j].attempts <= MaxAttempts
        /\ issued[j] \in Nat /\ retries[j] \in Nat
        /\ issued[j] <= MaxAttempts * retries[j] + job[j].attempts
    BY Numbers DEF TypeOK, Job, ClaimsCounted
  <2>2. MaxAttempts * (retries[j] + 1) = MaxAttempts * retries[j] + MaxAttempts
    BY <2>1, Numbers
  <2> QED
    BY <2>1, <2>2, Numbers
<1> QED
  BY <1>1, <1>2, <1>3, TypeCorrect, PTL DEF Spec

\* No step reopens a completed job or hands it out again.
THEOREM CompletionIsFinal == Spec => CompletedIsFinal
<1> DEFINE Final == \A j \in Jobs : job[j].status = "completed" =>
                      job'[j].status = "completed" /\ issued'[j] = issued[j]
<1>1. TypeOK /\ [Next]_vars => Final
  <2> SUFFICES ASSUME TypeOK, [Next]_vars, NEW j \in Jobs, job[j].status = "completed"
               PROVE  job'[j].status = "completed" /\ issued'[j] = issued[j]
    OBVIOUS
  <2>1. JobStep(j)
    BY StepOfEveryJob
  <2> QED
    BY <2>1 DEF JobStep, Stays, Accepted, Retried, Claimed, GivenUp, Requeued, Done, Moves,
                SameCounts
<1> QED
  BY <1>1, TypeCorrect, PTL DEF Spec, CompletedIsFinal

(***************************************************************************)
(* Refinement.                                                             *)
(***************************************************************************)

recordedJobs == {r.job : r \in rows}

LEMMA RecordedAfter ==
  ASSUME TypeOK, TypeOK'
  PROVE  /\ recordedJobs = {j \in Jobs : RowsOf(j) # {}}
         /\ recordedJobs' = {j \in Jobs : RowsOf(j)' # {}}
BY DEF TypeOK, recordedJobs, RowsOf

\* A step in which every job stays, is claimed, queued again or given up.
LEMMA GiveUpStep ==
  ASSUME TypeOK, TypeOK',
         \A j \in Jobs : Stays(j) \/ Claimed(j) \/ Requeued(j) \/ GivenUp(j)
  PROVE  Contract!ContractNext
<1> DEFINE S == {j \in Jobs : job[j].status = "running" /\ job'[j].status = "failed"}
<1>1. \A j \in S : outcomeOf[j] = "pending"
  BY DEF outcomeOf
<1>2. ASSUME NEW j \in Jobs
      PROVE  outcomeOf'[j] = IF j \in S THEN "failed" ELSE outcomeOf[j]
  BY DEF outcomeOf, Stays, Claimed, Requeued, GivenUp, Moves
<1>3. recordedJobs' = recordedJobs
  <2>1. \A j \in Jobs : RowsOf(j)' = RowsOf(j)
    BY DEF Stays, Claimed, Requeued, GivenUp, SameCounts
  <2> QED
    BY <2>1, RecordedAfter
<1>4. outcomeOf' = [j \in Jobs |-> IF j \in S THEN "failed" ELSE outcomeOf[j]]
  BY <1>2 DEF outcomeOf
<1>5. Contract!GiveUp(S)
  BY <1>1, <1>3, <1>4 DEF Contract!GiveUp, recordedJobs
<1>6. S \in SUBSET Jobs
  OBVIOUS
<1> QED
  BY <1>5, <1>6 DEF Contract!ContractNext

\* A step in which job k alone moves, from outcome a to outcome b.
LEMMA OneOutcome ==
  ASSUME TypeOK, TypeOK', NEW k \in Jobs,
         \A j \in Jobs \ {k} : Stays(j)
  PROVE  /\ outcomeOf' = [outcomeOf EXCEPT ![k] = outcomeOf'[k]]
         /\ RowsOf(k)' = RowsOf(k) => recordedJobs' = recordedJobs
         /\ RowsOf(k)' # {} => recordedJobs' = recordedJobs \cup {k}
<1>1. \A j \in Jobs \ {k} : outcomeOf'[j] = outcomeOf[j] /\ RowsOf(j)' = RowsOf(j)
  BY DEF outcomeOf, Stays, SameCounts
<1>2. outcomeOf' = [outcomeOf EXCEPT ![k] = outcomeOf'[k]]
  BY <1>1 DEF outcomeOf
<1> QED
  BY <1>1, <1>2, RecordedAfter

\* A completion finishes its job, for the first time.
LEMMA FinishStep ==
  ASSUME TypeOK, TypeOK', ResultFromLastClaim, NEW k \in Jobs,
         Done(k), \A j \in Jobs \ {k} : Stays(j)
  PROVE  Contract!ContractNext
<1>1. /\ outcomeOf[k] = "pending" /\ outcomeOf'[k] = "done"
      /\ RowsOf(k)' # {} /\ job[k].status = "running"
  BY DEF Done, Moves, outcomeOf
<1>2. RowsOf(k) = {}
  BY <1>1 DEF ResultFromLastClaim, RowsOf
<1>3. k \notin recordedJobs
  BY <1>2, RecordedAfter
<1>4. Contract!Finish(k)
  BY <1>1, <1>3, OneOutcome DEF Contract!Finish, recordedJobs
<1> QED
  BY <1>4 DEF Contract!ContractNext

\* The queue, with its workers, leases and retries, does to the jobs only what
\* the contract allows.
THEOREM QueueKeepsContract == Spec => ImplementsContract
<1>1. Init => Contract!ContractInit
  BY DEF Init, Contract!ContractInit, outcomeOf, NoJob
<1>2. TypeOK /\ TypeOK' /\ ResultFromLastClaim /\ [Next]_vars
        => [Contract!ContractNext]_(Contract!contractVars)
  <2> SUFFICES ASSUME TypeOK, TypeOK', ResultFromLastClaim, [Next]_vars
               PROVE  Contract!ContractNext
    OBVIOUS
  <2>1. CASE QuietNext
    BY <2>1, QuietStep, GiveUpStep
  <2>2. ASSUME NEW w \in Workers, Claim(w) \/ FailCommits(w)
        PROVE  Contract!ContractNext
    BY <2>2, ClaimStep, FailStep, GiveUpStep
  <2>3. ASSUME NEW k \in Jobs, Submit(k)
        PROVE  Contract!ContractNext
    <3>1. Accepted(k) /\ \A j \in Jobs \ {k} : Stays(j)
      BY <2>3, SubmitStep
    <3>2. outcomeOf[k] = "absent" /\ outcomeOf'[k] = "pending" /\ RowsOf(k)' = RowsOf(k)
      BY <3>1 DEF Accepted, Moves, SameCounts, outcomeOf
    <3>3. Contract!Accept(k)
      BY <3>1, <3>2, OneOutcome DEF Contract!Accept, recordedJobs
    <3> QED
      BY <3>3 DEF Contract!ContractNext
  <2>4. ASSUME NEW k \in Jobs, Retry(k)
        PROVE  Contract!ContractNext
    <3>1. Retried(k) /\ \A j \in Jobs \ {k} : Stays(j)
      BY <2>4, RetryStep
    <3>2. outcomeOf[k] = "failed" /\ outcomeOf'[k] = "pending" /\ RowsOf(k)' = RowsOf(k)
      BY <3>1 DEF Retried, Moves, outcomeOf
    <3>3. Contract!Revive(k)
      BY <3>1, <3>2, OneOutcome DEF Contract!Revive, recordedJobs
    <3> QED
      BY <3>3 DEF Contract!ContractNext
  <2>5. ASSUME NEW w \in Workers, CompleteCommits(w)
        PROVE  Contract!ContractNext
    <3>1. worker[w].job \in Jobs
      BY <2>5, BusyWorker, BusyFields DEF CompleteCommits
    <3>2. PICK k \in Jobs : Done(k) /\ \A j \in Jobs \ {k} : Stays(j)
      BY <2>5, <3>1, CompleteStep
    <3> QED
      BY <3>2, FinishStep
  <2> QED
    BY <2>1, <2>2, <2>3, <2>4, <2>5, NextCases
<1> QED
  BY <1>1, <1>2, TypeCorrect, FencedResults, PTL
     DEF Spec, ImplementsContract, Contract!ContractSafety

(***************************************************************************)
(* Leases.                                                                 *)
(***************************************************************************)

\* No two workers have the same token of a job.
TokensApart ==
  /\ \A w \in Workers : HasJob(w) => worker[w].token <= issued[worker[w].job]
  /\ \A v, w \in Workers :
       v # w /\ HasJob(v) /\ HasJob(w) /\ worker[v].job = worker[w].job =>
         worker[v].token # worker[w].token

\* A punctual worker that was told of no loss has its lease, for as long as it
\* would last if no other heartbeat came.
Healthy(w) == worker[w].pc \in {"working", "completing"} /\ ~worker[w].lost
Holds(w) ==
  /\ job[worker[w].job].status = "running"
  /\ job[worker[w].job].owner = worker[w].token
  /\ worker[w].beat <= Interval + MaxDelay
  /\ Lease <= job[worker[w].job].lease + worker[w].beat
LeaseKept == \A w \in Punctual : Healthy(w) => Holds(w)

Keeps(w) == HasJob(w) /\ worker'[w].job = worker[w].job /\ worker'[w].token = worker[w].token
Takes(w) ==
  \E k \in Jobs :
    /\ worker' = [worker EXCEPT ![w] = Holding("working", k, issued[k] + 1, FALSE, 0)]
    /\ issued' = [issued EXCEPT ![k] = @ + 1]

LEMMA WorkerFields ==
  ASSUME TypeOK, NEW w \in Workers, HasJob(w)
  PROVE  /\ worker[w] \in Busy /\ worker[w].job \in Jobs /\ worker[w].token \in Nat
         /\ worker[w].lost \in BOOLEAN /\ worker[w].beat \in Nat
BY BusyWorker, BusyFields DEF HasJob

LEMMA NextCallKeeps ==
  ASSUME TypeOK, NEW w \in Workers, HasJob(w), NEW pc \in {"completing", "failing"},
         NextCall(w, pc)
  PROVE  /\ \A v \in Workers \ {w} : worker'[v] = worker[v]
         /\ worker'[w] = Idle \/ worker'[w] = [worker[w] EXCEPT !.pc = pc]
BY DEF NextCall, TypeOK

\* A step moves the rows of at most one worker, except a tick; who has a job
\* afterwards had it before or takes it.
LEMMA WorkerStep ==
  ASSUME TypeOK, [Next]_vars, NEW w \in Workers, HasJob(w)'
  PROVE  Keeps(w) \/ Takes(w)
<1>0. worker \in [Workers -> Worker] /\ Idle.pc = "polling" BY DEF TypeOK, Idle
<1>1. CASE Tick
  <2>1. worker'[w] = Aged(w) BY <1>1 DEF Tick
  <2>2. CASE Beating(w)
    <3>1. HasJob(w) BY <2>2 DEF Beating
    <3> QED BY <2>1, <3>1, WorkerFields DEF Aged, Keeps, Busy
  <2>3. CASE ~Beating(w) BY <2>1, <2>3 DEF Aged, Keeps, HasJob
  <2> QED BY <2>2, <2>3
<1>2. ASSUME worker'[w] = worker[w] PROVE Keeps(w) BY <1>2 DEF Keeps, HasJob
<1>3. ASSUME NEW v \in Workers, HasJob(v), NEW pc \in {"completing", "failing"},
             NextCall(v, pc)
      PROVE  Keeps(w)
  <2>1. CASE v = w
    <3>1. worker'[w] = [worker[w] EXCEPT !.pc = pc]
      BY <1>0, <1>3, <2>1, NextCallKeeps DEF HasJob
    <3> QED BY <1>3, <2>1, <3>1, WorkerFields DEF Keeps, Busy
  <2>2. CASE v # w BY <1>2, <1>3, <2>2, NextCallKeeps
  <2> QED BY <2>1, <2>2
<1>4. ASSUME NEW v \in Workers, NEW x, x.pc \notin {"working", "completing", "failing"},
             worker' = [worker EXCEPT ![v] = x]
      PROVE  Keeps(w)
  <2>1. v # w BY <1>0, <1>4 DEF HasJob
  <2> QED BY <1>0, <1>2, <1>4, <2>1
<1>5. ASSUME NEW v \in Workers, Claim(v) PROVE Keeps(w) \/ Takes(w)
  <2>1. ASSUME NEW k \in Jobs, ClaimJob(v, k, TRUE) PROVE Keeps(w) \/ Takes(w)
    <3>1. CASE v = w BY <2>1, <3>1 DEF ClaimJob, Takes
    <3>2. CASE v # w BY <1>0, <1>2, <2>1, <3>2 DEF ClaimJob
    <3> QED BY <3>1, <3>2
  <2>2. ASSUME NEW k \in Jobs, ClaimJob(v, k, FALSE) PROVE Keeps(w)
    BY <1>2, <2>2 DEF ClaimJob
  <2>3. ASSUME ClaimNothing(v) PROVE Keeps(w) BY <1>2, <2>3 DEF ClaimNothing
  <2> QED BY <1>5, <2>1, <2>2, <2>3 DEF Claim
<1>6. ASSUME NEW v \in Workers, HandlerReturns(v) \/ HandlerRaises(v) \/ CompleteRaises(v)
      PROVE  Keeps(w)
  BY <1>3, <1>6 DEF HandlerReturns, HandlerRaises, CompleteRaises, HasJob
<1>7. ASSUME NEW v \in Workers, CompleteCommits(v) PROVE Keeps(w)
  BY <1>0, <1>3, <1>4, <1>7 DEF CompleteCommits, HasJob
<1>8. ASSUME NEW v \in Workers, FailCommits(v) \/ FailRaises(v) \/ Restart(v) PROVE Keeps(w)
  BY <1>0, <1>4, <1>8 DEF FailCommits, FailRaises, Restart
<1>9. ASSUME NEW v \in Workers, Crash(v) PROVE Keeps(w)
  BY <1>4, <1>9 DEF Crash
<1>10. ASSUME NEW v \in Workers, NEW answered \in BOOLEAN, Heartbeat(v, answered)
       PROVE  Keeps(w)
  <2>1. HasJob(v) BY <1>10 DEF Heartbeat, Beating
  <2>2. worker[v] \in Busy BY <2>1, WorkerFields
  <2>3. \E lost \in BOOLEAN :
          worker' = [worker EXCEPT ![v] = [worker[v] EXCEPT !.lost = lost, !.beat = 0]]
    BY <1>0, <1>10 DEF Heartbeat
  <2>4. CASE v = w BY <1>0, <2>1, <2>2, <2>3, <2>4 DEF Keeps, Busy
  <2>5. CASE v # w BY <1>0, <1>2, <2>3, <2>5
  <2> QED BY <2>4, <2>5
<1>11. ASSUME NEW k \in Jobs, Submit(k) \/ Retry(k) PROVE Keeps(w)
  BY <1>2, <1>11 DEF Submit, Retry
<1>12. CASE UNCHANGED vars BY <1>2, <1>12 DEF vars
<1> QED BY <1>1, <1>5, <1>6, <1>7, <1>8, <1>9, <1>10, <1>11, <1>12 DEF Next

LEMMA TokensApartStep == TypeOK /\ TokensApart /\ [Next]_vars => TokensApart'
<1> SUFFICES ASSUME TypeOK, TokensApart, [Next]_vars PROVE TokensApart'
  OBVIOUS
<1>1. \A j \in Jobs : issued[j] \in Nat /\ issued'[j] \in Nat /\ issued[j] <= issued'[j]
  <2> SUFFICES ASSUME NEW j \in Jobs
               PROVE  issued[j] \in Nat /\ issued'[j] \in Nat /\ issued[j] <= issued'[j]
    OBVIOUS
  <2>1. issued[j] \in Nat BY DEF TypeOK
  <2>2. issued'[j] = issued[j] \/ issued'[j] = issued[j] + 1
    BY StepOfEveryJob DEF JobStep, Stays, Accepted, Retried, Claimed, GivenUp, Requeued, Done,
                          SameCounts
  <2> QED BY <2>1, <2>2
<1>2. ASSUME NEW w \in Workers, Keeps(w)
      PROVE  /\ worker'[w].job \in Jobs /\ worker'[w].token \in Nat
             /\ worker'[w].token <= issued[worker'[w].job]
             /\ worker'[w].token <= issued'[worker'[w].job]
  <2>1. HasJob(w) BY <1>2 DEF Keeps
  <2>2. worker[w].job \in Jobs /\ worker[w].token \in Nat
        /\ worker[w].token <= issued[worker[w].job]
    BY <2>1, WorkerFields DEF TokensApart
  <2> QED BY <1>1, <1>2, <2>2 DEF Keeps
<1>3. ASSUME NEW w \in Workers, Takes(w)
      PROVE  /\ worker'[w].job \in Jobs
             /\ worker'[w].token = issued[worker'[w].job] + 1
             /\ worker'[w].token = issued'[worker'[w].job]
             /\ \A v \in Workers \ {w} : worker'[v] = worker[v]
  BY <1>3 DEF Takes, Holding, TypeOK
<1>4. ASSUME NEW w \in Workers, HasJob(w)'
      PROVE  worker'[w].token <= issued'[worker'[w].job]
  BY <1>1, <1>2, <1>3, <1>4, WorkerStep
<1>5. ASSUME NEW v \in Workers, NEW w \in Workers, v # w, HasJob(v)', HasJob(w)',
             worker'[v].job = worker'[w].job
      PROVE  worker'[v].token # worker'[w].token
  <2>1. CASE Keeps(v) /\ Keeps(w) BY <1>5, <2>1 DEF Keeps, TokensApart
  <2>2. ASSUME NEW x \in Workers, NEW y \in Workers, x # y, Takes(x), HasJob(y)',
               worker'[x].job = worker'[y].job
        PROVE  worker'[x].token # worker'[y].token
    <3>1. Keeps(y)
      <4>1. worker'[y] = worker[y] BY <1>3, <2>2
      <4> QED BY <2>2, <4>1 DEF Keeps, HasJob
    <3> QED BY <1>1, <1>2, <1>3, <2>2, <3>1
  <2> QED BY <1>5, <2>1, <2>2, WorkerStep
<1> QED BY <1>4, <1>5 DEF TokensApart, HasJob


\* What the lease of w rests on is left alone.
LEMMA LeaseUnmoved ==
  ASSUME NEW w \in Workers, Holds(w), worker'[w].job = worker[w].job,
         worker'[w].token = worker[w].token, worker'[w].beat = worker[w].beat,
         job'[worker[w].job].status = job[worker[w].job].status,
         job'[worker[w].job].owner = job[worker[w].job].owner,
         job'[worker[w].job].lease = job[worker[w].job].lease
  PROVE  Holds(w)'
BY DEF Holds

LEMMA LeaseLasts ==
  ASSUME TypeOK, NEW w \in Punctual, HasJob(w), Holds(w)
  PROVE  /\ w \in Workers /\ worker[w].job \in Jobs
         /\ job[worker[w].job].lease \in Nat /\ job[worker[w].job].lease > 0
         /\ Owns(worker[w].job, worker[w].token)
<1>1. w \in Workers /\ Interval + MaxDelay < Lease BY PunctualAssumption
<1>2. worker[w].job \in Jobs /\ worker[w].beat \in Nat BY <1>1, WorkerFields
<1>3. job[worker[w].job].lease \in Nat BY <1>2 DEF TypeOK, Job
<1> QED BY <1>1, <1>2, <1>3, Numbers DEF Holds, Owns

LEMMA LeaseKeptStep == TypeOK /\ TokensApart /\ LeaseKept /\ [Next]_vars => LeaseKept'
<1> SUFFICES ASSUME TypeOK, TokensApart, LeaseKept, [Next]_vars,
                    NEW w \in Punctual, Healthy(w)'
             PROVE  Holds(w)'
  BY DEF LeaseKept
<1> DEFINE j == worker[w].job
<1>1. w \in Workers /\ Interval + MaxDelay < Lease BY PunctualAssumption
<1>2. /\ worker \in [Workers -> Worker] /\ job \in [Jobs -> Job]
      /\ issued \in [Jobs -> Nat] /\ Idle.pc = "polling"
  BY DEF TypeOK, Idle
<1>3. ASSUME Healthy(w)
      PROVE  /\ HasJob(w) /\ Holds(w) /\ j \in Jobs /\ job[j] \in Job
             /\ job[j].lease \in Nat /\ job[j].lease > 0 /\ Owns(j, worker[w].token)
             /\ worker[w] \in Busy /\ worker[w].beat \in Nat
  <2>1. HasJob(w) /\ Holds(w) BY <1>3 DEF Healthy, HasJob, LeaseKept
  <2> QED BY <1>1, <1>2, <2>1, LeaseLasts, WorkerFields
<1>4. ASSUME worker'[w] = worker[w], Healthy(w) => job'[j] = job[j] PROVE Holds(w)'
  BY <1>1, <1>3, <1>4, LeaseUnmoved DEF Healthy
\* Another worker does not own the job of w.
<1>5. ASSUME Healthy(w), NEW v \in Workers \ {w}, HasJob(v), worker[v].job = j
      PROVE  ~Owns(worker[v].job, worker[v].token)
  BY <1>1, <1>3, <1>5 DEF TokensApart, Owns
<1>6. CASE Tick
  <2>1. worker'[w] = Aged(w) BY <1>1, <1>6 DEF Tick
  <2>2. Healthy(w)
    BY <1>1, <1>2, <2>1, WorkerFields DEF Aged, Healthy, Beating, Busy
  <2>3. /\ Beating(w) /\ ~Late(w) /\ worker[w].beat < Interval + MaxDelay
    <3>1. Beating(w) BY <1>3, <2>2 DEF Beating, Healthy
    <3>2. ~Late(w) BY <1>6 DEF Tick
    <3> QED BY <1>3, <2>2, <3>1, <3>2, Numbers DEF Late
  <2>4. /\ worker'[w].job = j /\ worker'[w].token = worker[w].token
        /\ worker'[w].beat = worker[w].beat + 1
    BY <1>3, <2>1, <2>2, <2>3 DEF Aged, Busy
  <2>5. /\ job'[j].status = job[j].status /\ job'[j].owner = job[j].owner
        /\ job'[j].lease = job[j].lease - 1
    <3>1. job'[j] = [job[j] EXCEPT !.lease = Less(@), !.backoff = Less(@)]
      BY <1>3, <1>6, <2>2 DEF Tick
    <3> QED BY <1>3, <2>2, <3>1 DEF Job, Less
  <2> HIDE DEF j
  <2> QED BY <1>3, <2>2, <2>3, <2>4, <2>5, Numbers DEF Holds, j
<1>7. ASSUME NEW k \in Jobs, Submit(k) \/ Retry(k) PROVE Holds(w)'
  <2>1. /\ worker'[w] = worker[w]
        /\ Healthy(w) => j # k
    BY <1>3, <1>7 DEF Submit, Retry, Retryable, Owns
  <2>2. Healthy(w) => j \in Jobs BY <1>3
  <2>3. \A i \in Jobs : i # k => job'[i] = job[i] BY <1>2, <1>7 DEF Submit, Retry
  <2> QED BY <1>4, <2>1, <2>2, <2>3
<1>8. ASSUME NEW v \in Workers, Claim(v) PROVE Holds(w)'
  <2>1. Healthy(w) => Swept[j] = job[j] /\ j \notin Claimable
    <3> SUFFICES ASSUME Healthy(w) PROVE Swept[j] = job[j] /\ j \notin Claimable
      OBVIOUS
    <3>1. j \in Jobs /\ job[j].status = "running" /\ job[j].lease > 0 /\ job[j].lease \in Nat
      BY <1>3 DEF Owns
    <3> HIDE DEF j
    <3>2. ~Expired(j) BY <3>1 DEF Expired
    <3> QED BY <3>1, <3>2 DEF Swept, Exhausted, Claimable
  <2>2. ASSUME NEW k \in Jobs, NEW delivered \in BOOLEAN, ClaimJob(v, k, delivered),
               ~(v = w /\ delivered)
        PROVE  Holds(w)'
    <3>1. worker'[w] = worker[w] BY <1>1, <1>2, <2>2 DEF ClaimJob
    <3>2. Healthy(w) => job'[j] = job[j]
      BY <1>3, <2>1, <2>2, SweptType DEF ClaimJob
    <3> QED BY <1>4, <3>1, <3>2
  <2>3. ASSUME NEW k \in Jobs, ClaimJob(w, k, TRUE) PROVE Holds(w)'
    <3>1. worker'[w] = Holding("working", k, issued[k] + 1, FALSE, 0)
      BY <1>1, <1>2, <2>3 DEF ClaimJob
    <3>2. job'[k] = [Swept[k] EXCEPT !.status = "running", !.attempts = @ + Charge(k),
                                     !.owner = issued[k] + 1, !.lease = Lease]
      BY <2>3, SweptType DEF ClaimJob
    <3>3. /\ job'[k].status = "running" /\ job'[k].owner = issued[k] + 1
          /\ job'[k].lease = Lease
      BY <3>2, SweptType DEF Job
    <3> QED BY <3>1, <3>3, Numbers DEF Holds, Holding
  <2>4. ASSUME ClaimNothing(v) PROVE Holds(w)'
    BY <1>4, <2>1, <2>4 DEF ClaimNothing
  <2> QED BY <1>8, <2>2, <2>3, <2>4 DEF Claim
<1>9. ASSUME NEW v \in Workers, HandlerReturns(v) \/ HandlerRaises(v) \/ CompleteRaises(v)
      PROVE  Holds(w)'
  <2>1. PICK pc \in {"completing", "failing"} : NextCall(v, pc)
    BY <1>9 DEF HandlerReturns, HandlerRaises, CompleteRaises
  <2>2. job' = job /\ HasJob(v) /\ worker[v].pc \in {"working", "completing"}
    BY <1>9 DEF HandlerReturns, HandlerRaises, CompleteRaises, HasJob
  <2>3. CASE v = w
    <3>1. worker'[w] = [worker[w] EXCEPT !.pc = pc] /\ worker[w] \in Busy
      BY <1>1, <1>2, <2>1, <2>2, <2>3, NextCallKeeps, WorkerFields DEF Healthy
    <3>2. Healthy(w) BY <2>2, <2>3, <3>1 DEF Healthy, Busy
    <3> QED BY <1>1, <1>3, <2>2, <3>1, <3>2, LeaseUnmoved DEF Busy
  <2>4. CASE v # w BY <1>1, <1>4, <2>1, <2>2, <2>4, NextCallKeeps
  <2> QED BY <2>3, <2>4
<1>10. ASSUME NEW v \in Workers, CompleteCommits(v) \/ FailCommits(v) PROVE Holds(w)'
  <2>1. HasJob(v) /\ Owns(worker[v].job, worker[v].token) /\ worker[v].job \in Jobs
    <3>1. HasJob(v) BY <1>10 DEF CompleteCommits, FailCommits, HasJob
    <3> QED BY <1>10, <3>1, WorkerFields DEF CompleteCommits, FailCommits, Complete, Fail
  <2>2. v # w
    <3>1. worker'[v] = Idle \/ worker'[v].pc = "failing"
      BY <1>2, <1>10, <2>1, NextCallKeeps, WorkerFields
      DEF CompleteCommits, FailCommits, Busy
    <3> QED BY <1>2, <3>1 DEF Healthy
  <2>3. worker'[w] = worker[w]
    BY <1>1, <1>2, <1>10, <2>1, <2>2, NextCallKeeps DEF CompleteCommits, FailCommits
  <2>4. Healthy(w) => job'[j] = job[j]
    BY <1>2, <1>3, <1>5, <1>10, <2>1, <2>2
    DEF CompleteCommits, FailCommits, Complete, Fail
  <2> QED BY <1>4, <2>3, <2>4
<1>11. ASSUME NEW v \in Workers, FailRaises(v) \/ Restart(v) \/ Crash(v) PROVE Holds(w)'
  <2>1. CASE v = w BY <1>1, <1>2, <1>11, <2>1 DEF FailRaises, Restart, Crash, Healthy
  <2>2. CASE v # w BY <1>1, <1>2, <1>4, <1>11, <2>2 DEF FailRaises, Restart, Crash
  <2> QED BY <2>1, <2>2
<1>12. ASSUME NEW v \in Workers, NEW answered \in BOOLEAN, Heartbeat(v, answered)
       PROVE  Holds(w)'
  <2>1. HasJob(v) /\ worker[v] \in Busy /\ worker[v].job \in Jobs /\ ~worker[v].lost
    <3>1. HasJob(v) /\ ~worker[v].lost BY <1>12 DEF Heartbeat, Beating
    <3> QED BY <3>1, WorkerFields
  <2>2. CASE v = w
    <3>1. /\ Owns(j, worker[w].token) /\ Renewed(j)
          /\ worker' = [worker EXCEPT ![w].lost = ~answered, ![w].beat = 0]
      <4>1. \/ /\ Owns(j, worker[w].token) /\ Renewed(j)
               /\ worker' = [worker EXCEPT ![w].lost = ~answered, ![w].beat = 0]
            \/ worker' = [worker EXCEPT ![w].lost = TRUE, ![w].beat = 0]
        BY <1>12, <2>2 DEF Heartbeat
      <4>2. worker' = [worker EXCEPT ![w].lost = TRUE, ![w].beat = 0] => ~Healthy(w)'
        BY <1>1, <1>2, <2>1, <2>2 DEF Healthy, Busy
      <4> QED BY <4>1, <4>2
    <3>2. /\ worker'[w].job = j /\ worker'[w].token = worker[w].token
          /\ worker'[w].beat = 0
      BY <1>1, <1>2, <2>1, <2>2, <3>1 DEF Busy
    <3>3. /\ job'[j].status = job[j].status /\ job'[j].owner = job[j].owner
          /\ job'[j].lease = Lease
      BY <1>2, <2>1, <2>2, <3>1 DEF Renewed, Job
    <3> HIDE DEF j
    <3> QED BY <3>1, <3>2, <3>3, Numbers DEF Holds, Owns
  <2>3. CASE v # w
    <3>1. worker'[w] = worker[w] BY <1>1, <1>2, <1>12, <2>3 DEF Heartbeat
    <3>2. \/ job' = job
          \/ Owns(worker[v].job, worker[v].token) /\ Renewed(worker[v].job)
      BY <1>12 DEF Heartbeat
    <3>3. Healthy(w) => job'[j] = job[j]
      BY <1>2, <1>3, <1>5, <2>1, <2>3, <3>2 DEF Renewed
    <3> QED BY <1>4, <3>1, <3>3
  <2> QED BY <2>2, <2>3
<1>13. CASE UNCHANGED vars BY <1>4, <1>13 DEF vars
<1> QED
  BY <1>6, <1>7, <1>8, <1>9, <1>10, <1>11, <1>12, <1>13 DEF Next

\* A worker whose heartbeats are in time and that was told of no loss has its
\* job: nobody else can claim, complete or fail it (job_heartbeat, job_claim).
THEOREM HealthyOwners == Spec => []HealthyOwnerKeepsJob
<1>1. Init => TokensApart /\ LeaseKept
  <2> SUFFICES ASSUME Init PROVE TokensApart /\ LeaseKept OBVIOUS
  <2>1. \A w \in Workers : worker[w].pc = "polling" BY DEF Init, Idle
  <2> QED BY <2>1, PunctualAssumption DEF TokensApart, LeaseKept, HasJob, Healthy
<1>2. TypeOK /\ TokensApart /\ LeaseKept /\ [Next]_vars => TokensApart' /\ LeaseKept'
  BY TokensApartStep, LeaseKeptStep
<1>3. TypeOK /\ LeaseKept => HealthyOwnerKeepsJob
  <2> SUFFICES ASSUME TypeOK, LeaseKept, NEW w \in Punctual, Healthy(w)
               PROVE  Owns(worker[w].job, worker[w].token)
    BY DEF HealthyOwnerKeepsJob, Healthy
  <2>1. HasJob(w) BY DEF Healthy, HasJob
  <2> QED BY <2>1, LeaseLasts DEF LeaseKept
<1> QED BY TypeCorrect, <1>1, <1>2, <1>3, PTL DEF Spec


=============================================================================
