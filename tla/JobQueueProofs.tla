--------------------------- MODULE JobQueueProofs ---------------------------
(***************************************************************************)
(* Proofs about JobQueue for any number of keys, workers, attempts,        *)
(* crashes and overruns, and any leases and timeouts that satisfy          *)
(* TimingAssumption.                                                       *)
(***************************************************************************)
EXTENDS JobQueue, TLAPS

-----------------------------------------------------------------------------
(* Type correctness.                                                       *)

LEMMA InitType == Init => TypeOK
  BY KeysAssumption DEF Init, TypeOK, Busy, Steps

LEMMA ReleaseType ==
  ASSUME TypeOK, NEW w \in Workers, Release(w)
  PROVE  /\ pc' \in [Workers -> Steps \cup {"idle"}]
         /\ key' \in [Workers -> Keys \cup {None}]
         /\ \A v \in Workers : pc'[v] # "idle" => key'[v] \in Keys
         /\ claim' \in [Workers -> Nat]
         /\ age' \in [Workers -> Nat]
         /\ held' \in [Workers -> Nat]
  BY DEF TypeOK, Release, Busy

LEMMA NextType == TypeOK /\ [Next]_vars => TypeOK'
<1> SUFFICES ASSUME TypeOK, [Next]_vars PROVE TypeOK'
  OBVIOUS
<1> USE KeysAssumption, TimingAssumption
    DEF TypeOK, Busy, jobs, worker, hist, budget
<1>1. ASSUME NEW k \in Keys, NEW force \in BOOLEAN, enqueue_job_inner(k, force)
      PROVE  TypeOK'
  BY <1>1 DEF enqueue_job_inner, Reset
<1>2. ASSUME NEW k \in Keys, supersede_ready_job(k) PROVE TypeOK'
  BY <1>2 DEF supersede_ready_job, Close
<1>3. ASSUME NEW S \in SUBSET Keys, RetryFailed(S) PROVE TypeOK'
  BY <1>3 DEF RetryFailed, Reset
<1>4. ASSUME NEW w \in Workers, NEW k \in Keys, claim_next_job(w, k)
      PROVE  TypeOK'
  BY <1>4 DEF claim_next_job, FirstStep, Steps
<1>5. ASSUME NEW w \in Workers, extend_job_lease(w) PROVE TypeOK'
  BY <1>5, ReleaseType DEF extend_job_lease, Steps
<1>6. ASSUME NEW w \in Workers, NEW result \in {"ok", "err"},
             execute_job(w, result)
      PROVE  TypeOK'
  BY <1>6 DEF execute_job, Steps
<1>7. ASSUME NEW w \in Workers, finish_job(w) PROVE TypeOK'
  BY <1>7, ReleaseType DEF finish_job, Close
<1>8. ASSUME NEW w \in Workers, NEW delay \in 0 .. BackoffCap,
             record_job_failure(w, delay)
      PROVE  TypeOK'
  BY <1>8, ReleaseType DEF record_job_failure, Close
<1>9. ASSUME NEW w \in Workers, Crash(w) PROVE TypeOK'
  BY <1>9, ReleaseType DEF Crash
<1>10. CASE Tick
  BY <1>10 DEF Tick, Down, Timed
<1>11. CASE UNCHANGED vars
  BY <1>11 DEF vars
<1> QED
  BY <1>1, <1>2, <1>3, <1>4, <1>5, <1>6, <1>7, <1>8, <1>9, <1>10, <1>11
     DEF Next, Client, Proceed, retry_failed_jobs, retry_failed_job,
         retry_failed_jobs_by_kind

\* The jobs table and the locals of the worker loops keep their types.
THEOREM TypeCorrect == Spec => []TypeOK
  BY InitType, NextType, PTL DEF Spec

-----------------------------------------------------------------------------
(* Row invariants.                                                         *)

LEMMA NextRunningIffLeased ==
  TypeOK /\ RunningIffLeased /\ [Next]_vars => RunningIffLeased'
<1> SUFFICES ASSUME TypeOK, RunningIffLeased, [Next]_vars
             PROVE  RunningIffLeased'
  OBVIOUS
<1> USE KeysAssumption, TimingAssumption
    DEF TypeOK, RunningIffLeased, Busy, jobs
<1>1. ASSUME NEW k \in Keys, NEW force \in BOOLEAN, enqueue_job_inner(k, force)
      PROVE  RunningIffLeased'
  BY <1>1 DEF enqueue_job_inner, Reset
<1>2. ASSUME NEW k \in Keys, supersede_ready_job(k) PROVE RunningIffLeased'
  BY <1>2 DEF supersede_ready_job, Close
<1>3. ASSUME NEW S \in SUBSET Keys, RetryFailed(S) PROVE RunningIffLeased'
  BY <1>3 DEF RetryFailed, Reset
<1>4. ASSUME NEW w \in Workers, NEW k \in Keys, claim_next_job(w, k)
      PROVE  RunningIffLeased'
  BY <1>4 DEF claim_next_job
<1>5. ASSUME NEW w \in Workers, extend_job_lease(w) PROVE RunningIffLeased'
  BY <1>5 DEF extend_job_lease, Fence
<1>6. ASSUME NEW w \in Workers, NEW result \in {"ok", "err"},
             execute_job(w, result)
      PROVE  RunningIffLeased'
  BY <1>6 DEF execute_job
<1>7. ASSUME NEW w \in Workers, finish_job(w) PROVE RunningIffLeased'
  BY <1>7 DEF finish_job, Close
<1>8. ASSUME NEW w \in Workers, NEW delay \in 0 .. BackoffCap,
             record_job_failure(w, delay)
      PROVE  RunningIffLeased'
  BY <1>8 DEF record_job_failure, Close
<1>9. ASSUME NEW w \in Workers, Crash(w) PROVE RunningIffLeased'
  BY <1>9 DEF Crash
<1>10. CASE Tick
  BY <1>10 DEF Tick, Down
<1>11. CASE UNCHANGED vars
  BY <1>11 DEF vars
<1> QED
  BY <1>1, <1>2, <1>3, <1>4, <1>5, <1>6, <1>7, <1>8, <1>9, <1>10, <1>11
     DEF Next, Client, Proceed, retry_failed_jobs, retry_failed_job,
         retry_failed_jobs_by_kind

\* A running row has a lease and no other row does, so claim_next_job can
\* always find the row of a worker that never came back.
THEOREM RunningRowsAreLeased == Spec => []RunningIffLeased
<1>1. Init => RunningIffLeased
  <2> SUFFICES ASSUME Init PROVE RunningIffLeased
    OBVIOUS
  <2>1. /\ status \in [Keys -> {"absent", "queued", "failed"}]
        /\ lease = [k \in Keys |-> None]
        /\ retry = [k \in Keys |-> None]
    BY DEF Init
  <2> QED
    BY <2>1 DEF RunningIffLeased
<1> QED
  BY <1>1, NextRunningIffLeased, TypeCorrect, PTL DEF Spec

LEMMA NextAttempts ==
  TypeOK /\ AttemptsPaidByLapses /\ [Next]_vars => AttemptsPaidByLapses'
<1> SUFFICES ASSUME TypeOK, AttemptsPaidByLapses, [Next]_vars
             PROVE  AttemptsPaidByLapses'
  OBVIOUS
<1> USE TimingAssumption DEF TypeOK, AttemptsPaidByLapses, Busy, jobs, hist
<1>1. ASSUME NEW k \in Keys, NEW force \in BOOLEAN, enqueue_job_inner(k, force)
      PROVE  AttemptsPaidByLapses'
  BY <1>1 DEF enqueue_job_inner, Reset
<1>2. ASSUME NEW k \in Keys, supersede_ready_job(k)
      PROVE  AttemptsPaidByLapses'
  BY <1>2 DEF supersede_ready_job, Close
<1>3. ASSUME NEW S \in SUBSET Keys, RetryFailed(S)
      PROVE  AttemptsPaidByLapses'
  BY <1>3 DEF RetryFailed, Reset
<1>4. ASSUME NEW w \in Workers, NEW k \in Keys, claim_next_job(w, k)
      PROVE  AttemptsPaidByLapses'
  BY <1>4 DEF claim_next_job, Claimable
<1>5. ASSUME NEW w \in Workers, extend_job_lease(w)
      PROVE  AttemptsPaidByLapses'
  BY <1>5 DEF extend_job_lease
<1>6. ASSUME NEW w \in Workers, NEW result \in {"ok", "err"},
             execute_job(w, result)
      PROVE  AttemptsPaidByLapses'
  BY <1>6 DEF execute_job
<1>7. ASSUME NEW w \in Workers, finish_job(w) PROVE AttemptsPaidByLapses'
  BY <1>7 DEF finish_job, Close
<1>8. ASSUME NEW w \in Workers, NEW delay \in 0 .. BackoffCap,
             record_job_failure(w, delay)
      PROVE  AttemptsPaidByLapses'
  BY <1>8 DEF record_job_failure, Close
<1>9. ASSUME NEW w \in Workers, Crash(w) PROVE AttemptsPaidByLapses'
  BY <1>9 DEF Crash
<1>10. CASE Tick
  BY <1>10 DEF Tick
<1>11. CASE UNCHANGED vars
  BY <1>11 DEF vars
<1> QED
  BY <1>1, <1>2, <1>3, <1>4, <1>5, <1>6, <1>7, <1>8, <1>9, <1>10, <1>11
     DEF Next, Client, Proceed, retry_failed_jobs, retry_failed_job,
         retry_failed_jobs_by_kind

\* Attempts above max_attempts are paid for one by one by lapsed leases, and
\* a queued row always has an attempt left.
THEOREM AttemptsAreAccounted == Spec => []AttemptsPaidByLapses
<1>1. Init => AttemptsPaidByLapses
  <2> SUFFICES ASSUME Init PROVE AttemptsPaidByLapses
    OBVIOUS
  <2>1. attempt = [k \in Keys |-> 0] /\ lapses = [k \in Keys |-> 0]
    BY DEF Init
  <2>2. MaxAttempts \in Nat /\ 0 < MaxAttempts /\ 0 <= MaxAttempts + 0
    BY TimingAssumption
  <2> QED
    BY <2>1, <2>2 DEF AttemptsPaidByLapses
<1> QED
  BY <1>1, NextAttempts, TypeCorrect, PTL DEF Spec

-----------------------------------------------------------------------------
(* The fence: attempt numbers identify claims.                             *)

LEMMA NextClaims ==
  TypeOK /\ ClaimsAreDistinct /\ [Next]_vars => ClaimsAreDistinct'
<1> SUFFICES ASSUME TypeOK, ClaimsAreDistinct, [Next]_vars
             PROVE  ClaimsAreDistinct'
  OBVIOUS
<1> USE DEF TypeOK, ClaimsAreDistinct, Busy, jobs, worker, hist
\* A row that some worker is at counts its resets.
<1>0. ASSUME NEW S \in SUBSET Keys, Reset(S), UNCHANGED worker PROVE ClaimsAreDistinct'
  <2>1. ASSUME NEW w \in Workers, Busy(w)
        PROVE  /\ key[w] \in S => epoch'[key[w]] = epoch[key[w]] + 1
               /\ key[w] \notin S => epoch'[key[w]] = epoch[key[w]]
                                     /\ attempt'[key[w]] = attempt[key[w]]
    <3>1. Attended(key[w]) /\ key[w] \in Keys
      BY <2>1 DEF Attended
    <3> QED
      BY <1>0, <3>1 DEF Reset
  <2> QED
    BY <1>0, <2>1
<1>1. ASSUME NEW k \in Keys, NEW force \in BOOLEAN, enqueue_job_inner(k, force)
      PROVE  ClaimsAreDistinct'
  BY <1>0, <1>1 DEF enqueue_job_inner
<1>2. ASSUME NEW k \in Keys, supersede_ready_job(k) PROVE ClaimsAreDistinct'
  BY <1>2 DEF supersede_ready_job, Close
<1>3. ASSUME NEW S \in SUBSET Keys, RetryFailed(S) PROVE ClaimsAreDistinct'
  BY <1>0, <1>3 DEF RetryFailed
<1>4. ASSUME NEW w \in Workers, NEW k \in Keys, claim_next_job(w, k)
      PROVE  ClaimsAreDistinct'
  BY <1>4 DEF claim_next_job
<1>5. ASSUME NEW w \in Workers, extend_job_lease(w) PROVE ClaimsAreDistinct'
  BY <1>5 DEF extend_job_lease, Release
<1>6. ASSUME NEW w \in Workers, NEW result \in {"ok", "err"},
             execute_job(w, result)
      PROVE  ClaimsAreDistinct'
  BY <1>6 DEF execute_job
<1>7. ASSUME NEW w \in Workers, finish_job(w) PROVE ClaimsAreDistinct'
  BY <1>7 DEF finish_job, Close, Release
<1>8. ASSUME NEW w \in Workers, NEW delay \in 0 .. BackoffCap,
             record_job_failure(w, delay)
      PROVE  ClaimsAreDistinct'
  BY <1>8 DEF record_job_failure, Close, Release
<1>9. ASSUME NEW w \in Workers, Crash(w) PROVE ClaimsAreDistinct'
  BY <1>9 DEF Crash, Release
<1>10. CASE Tick
  BY <1>10 DEF Tick
<1>11. CASE UNCHANGED vars
  BY <1>11 DEF vars
<1> QED
  BY <1>1, <1>2, <1>3, <1>4, <1>5, <1>6, <1>7, <1>8, <1>9, <1>10, <1>11
     DEF Next, Client, Proceed, retry_failed_jobs, retry_failed_job,
         retry_failed_jobs_by_kind

\* Between two resets of a row, no two workers hold the same attempt of it.
THEOREM ClaimFence == Spec => []ClaimsAreDistinct
<1>1. Init => ClaimsAreDistinct
  BY DEF Init, ClaimsAreDistinct, Busy
<1> QED
  BY <1>1, NextClaims, TypeCorrect, PTL DEF Spec

-----------------------------------------------------------------------------
(* Bambu projects: one worker at a time.                                   *)

\* If two workers at the same project were both inside the fence they would
\* hold the same attempt, which ClaimsAreDistinct rules out.
LEMMA ExclusiveFromFence ==
  TypeOK /\ ClaimsAreDistinct /\ ProjectLeaseOutlivesWorker => ProjectExclusive
  BY DEF TypeOK, ClaimsAreDistinct, ProjectLeaseOutlivesWorker,
         ProjectExclusive, Fence, Busy

\* A project row with a worker at it cannot be claimed.
LEMMA HeldIsNotClaimable ==
  ASSUME TypeOK, ProjectLeaseOutlivesWorker,
         NEW w \in Workers, Busy(w), key[w] \in ProjectKeys
  PROVE  ~Claimable(key[w])
  BY KeysAssumption, TimingAssumption
     DEF TypeOK, ProjectLeaseOutlivesWorker, Claimable, Fence, Busy,
         Remaining, StepLimit

LEMMA NextProject ==
  TypeOK /\ RunningIffLeased /\ ClaimsAreDistinct /\ ProjectLeaseOutlivesWorker
    /\ [Next]_vars => ProjectLeaseOutlivesWorker'
<1> SUFFICES ASSUME TypeOK, RunningIffLeased, ClaimsAreDistinct,
                    ProjectLeaseOutlivesWorker, [Next]_vars,
                    NEW w \in Workers, Busy(w)', key'[w] \in ProjectKeys
             PROVE  /\ Fence(w)'
                    /\ held'[w] = epoch'[key'[w]]
                    /\ age'[w] <= StepLimit(w)'
                    /\ lease'[key'[w]] > Remaining(w)'
  BY DEF ProjectLeaseOutlivesWorker, Busy
<1> USE KeysAssumption, TimingAssumption
    DEF TypeOK, Busy, Fence, StepLimit, Remaining, jobs, worker, hist
<1> DEFINE Good == /\ Fence(w)'
                   /\ held'[w] = epoch'[key'[w]]
                   /\ age'[w] <= StepLimit(w)'
                   /\ lease'[key'[w]] > Remaining(w)'
<1>0. ProjectExclusive
  BY ExclusiveFromFence
<1>1. ASSUME NEW k \in Keys, NEW force \in BOOLEAN, enqueue_job_inner(k, force)
      PROVE  Good
  BY <1>1 DEF enqueue_job_inner, Reset, ProjectLeaseOutlivesWorker
<1>2. ASSUME NEW k \in Keys, supersede_ready_job(k) PROVE Good
  BY <1>2 DEF supersede_ready_job, Close, ProjectLeaseOutlivesWorker
<1>3. ASSUME NEW S \in SUBSET Keys, RetryFailed(S) PROVE Good
  BY <1>3 DEF RetryFailed, Reset, ProjectLeaseOutlivesWorker
<1>4. ASSUME NEW v \in Workers, NEW k \in Keys, claim_next_job(v, k)
      PROVE  Good
  <2>1. CASE v = w
    BY <1>4, <2>1 DEF claim_next_job, FirstStep, ProjectKeys
  <2>2. CASE v # w
    <3>1. /\ pc'[w] = pc[w] /\ key'[w] = key[w] /\ claim'[w] = claim[w]
          /\ held'[w] = held[w] /\ age'[w] = age[w]
      BY <1>4, <2>2 DEF claim_next_job
    <3>2. k # key[w]
      BY <1>4, <3>1, HeldIsNotClaimable DEF claim_next_job
    <3>3. /\ status'[key[w]] = status[key[w]]
          /\ attempt'[key[w]] = attempt[key[w]]
          /\ lease'[key[w]] = lease[key[w]]
          /\ epoch' = epoch
      BY <1>4, <3>1, <3>2 DEF claim_next_job
    <3> QED
      BY <3>1, <3>3 DEF ProjectLeaseOutlivesWorker
  <2> QED
    BY <2>1, <2>2
<1>5. ASSUME NEW v \in Workers, extend_job_lease(v) PROVE Good
  <2>1. CASE v = w
    BY <1>5, <2>1 DEF extend_job_lease, Release, ProjectLeaseOutlivesWorker
  <2>2. CASE v # w
    BY <1>0, <1>5, <2>2 DEF extend_job_lease, Release, ProjectExclusive,
                            ProjectLeaseOutlivesWorker
  <2> QED
    BY <2>1, <2>2
<1>6. ASSUME NEW v \in Workers, NEW result \in {"ok", "err"},
             execute_job(v, result)
      PROVE  Good
  <2>1. Busy(w) /\ key'[w] = key[w] /\ key[w] \in Keys
    BY <1>6 DEF execute_job
  <2>2. lease[key[w]] \in Nat
    BY <2>1 DEF ProjectLeaseOutlivesWorker, RunningIffLeased
  <2>3. CASE v = w
    BY <1>6, <2>1, <2>2, <2>3 DEF execute_job, ProjectLeaseOutlivesWorker
  <2>4. CASE v # w
    BY <1>6, <2>1, <2>4 DEF execute_job, ProjectLeaseOutlivesWorker
  <2> QED
    BY <2>3, <2>4
<1>7. ASSUME NEW v \in Workers, finish_job(v) PROVE Good
  <2>1. v # w
    BY <1>7 DEF finish_job, Release
  <2> QED
    BY <1>0, <1>7, <2>1 DEF finish_job, Close, Release, ProjectExclusive,
                            ProjectLeaseOutlivesWorker
<1>8. ASSUME NEW v \in Workers, NEW delay \in 0 .. BackoffCap,
             record_job_failure(v, delay)
      PROVE  Good
  <2>1. v # w
    BY <1>8 DEF record_job_failure, Release
  <2> QED
    BY <1>0, <1>8, <2>1 DEF record_job_failure, Close, Release,
                            ProjectExclusive, ProjectLeaseOutlivesWorker
<1>9. ASSUME NEW v \in Workers, Crash(v) PROVE Good
  BY <1>9 DEF Crash, Release, ProjectLeaseOutlivesWorker
<1>10. CASE Tick
  <2>1. /\ pc[w] # "idle" /\ key[w] \in Keys /\ key[w] \in ProjectKeys
        /\ pc' = pc /\ key' = key /\ claim' = claim /\ held' = held
        /\ status' = status /\ attempt' = attempt /\ epoch' = epoch
    BY <1>10 DEF Tick
  <2>2. age'[w] = age[w] + 1 /\ age[w] < StepLimit(w)
    BY <1>10, <2>1 DEF Tick, Timed
  <2>3. lease[key[w]] \in Nat /\ lease[key[w]] > Remaining(w)
    BY <2>1 DEF ProjectLeaseOutlivesWorker, RunningIffLeased
  <2>4. lease'[key[w]] = lease[key[w]] - 1
    BY <1>10, <2>1, <2>2, <2>3 DEF Tick, Down
  <2> QED
    BY <2>1, <2>2, <2>3, <2>4 DEF ProjectLeaseOutlivesWorker
<1>11. CASE UNCHANGED vars
  BY <1>11 DEF vars, ProjectLeaseOutlivesWorker
<1> QED
  BY <1>1, <1>2, <1>3, <1>4, <1>5, <1>6, <1>7, <1>8, <1>9, <1>10, <1>11
     DEF Next, Client, Proceed, retry_failed_jobs, retry_failed_job,
         retry_failed_jobs_by_kind

\* The lease of a project row has more time left than the worker at it can
\* still take, for every choice of lease, timeout and database wait with
\* ProjectTimeout + DbStall < ProjectLease and DbStall < JobLease.
THEOREM LeaseOutlives == Spec => []ProjectLeaseOutlivesWorker
<1>1. Init => ProjectLeaseOutlivesWorker
  BY DEF Init, ProjectLeaseOutlivesWorker, Busy
<1> QED
  BY <1>1, NextProject, TypeCorrect, RunningRowsAreLeased, ClaimFence, PTL
     DEF Spec

\* At most one worker is at a Bambu project at any time.
THEOREM OneWorkerPerProject == Spec => []ProjectExclusive
  BY ExclusiveFromFence, TypeCorrect, ClaimFence, LeaseOutlives, PTL

\* A project worker never writes to a row that was reset since its claim.
THEOREM ProjectWritesAreOwn == Spec => ProjectWritesOwnEpoch
<1>1. ASSUME TypeOK, ProjectLeaseOutlivesWorker
      PROVE  \A w \in Workers :
               WritesRow(w) /\ key[w] \in ProjectKeys => held[w] = epoch[key[w]]
  BY <1>1 DEF WritesRow, DbSteps, Steps, Busy, ProjectLeaseOutlivesWorker
<1> QED
  BY <1>1, TypeCorrect, LeaseOutlives, PTL DEF ProjectWritesOwnEpoch

-----------------------------------------------------------------------------
(* Settled rows.  Every statement of a worker is fenced on a running row   *)
(* and a claim selects a queued or a running one, so only an enqueue, a    *)
(* retry or an invalidation can move a row that is settled.                *)

Settled == {"ready", "failed", "superseded"}

\* What a step may do to row k once it is settled.
Reopens(k) ==
  status[k] \in Settled /\ status'[k] # status[k]
    => /\ UNCHANGED worker
       /\ \/ status'[k] = "queued" /\ attempt'[k] = 0 /\ retry'[k] = None
          \/ status[k] = "ready" /\ status'[k] = "superseded"

LEMMA StepReopens == TypeOK /\ [Next]_vars => \A k \in Keys : Reopens(k)
<1> SUFFICES ASSUME TypeOK, [Next]_vars, NEW k \in Keys PROVE Reopens(k)
  OBVIOUS
<1> USE DEF TypeOK, Reopens, Settled, Busy, jobs
<1>1. ASSUME NEW j \in Keys, NEW force \in BOOLEAN, enqueue_job_inner(j, force)
      PROVE  Reopens(k)
  BY <1>1 DEF enqueue_job_inner, Reset
<1>2. ASSUME NEW j \in Keys, supersede_ready_job(j) PROVE Reopens(k)
  BY <1>2 DEF supersede_ready_job, Close
<1>3. ASSUME NEW S \in SUBSET Keys, RetryFailed(S) PROVE Reopens(k)
  BY <1>3 DEF RetryFailed, Reset
<1>4. ASSUME NEW w \in Workers, NEW j \in Keys, claim_next_job(w, j)
      PROVE  Reopens(k)
  BY <1>4 DEF claim_next_job, Claimable
<1>5. ASSUME NEW w \in Workers, finish_job(w) PROVE Reopens(k)
  BY <1>5 DEF finish_job, Close, Fence
<1>6. ASSUME NEW w \in Workers, NEW delay \in 0 .. BackoffCap,
             record_job_failure(w, delay)
      PROVE  Reopens(k)
  BY <1>6 DEF record_job_failure, Close, Fence
<1>7. CASE UNCHANGED status
  BY <1>7
<1> QED
  BY <1>1, <1>2, <1>3, <1>4, <1>5, <1>6, <1>7
     DEF Next, Client, Proceed, retry_failed_jobs, retry_failed_job,
         retry_failed_jobs_by_kind, extend_job_lease, execute_job, Crash, Tick, vars

\* No late worker reopens or overwrites a row that was settled, whatever
\* leases lapsed and whoever claimed it before: only an enqueue or a retry,
\* which starts it over, or an invalidation of a ready row does.
THEOREM SettledRowsAreKept == Spec => SettledRowsStay
<1>1. TypeOK /\ [Next]_vars
        => [\A k \in Keys :
              status[k] \in {"ready", "failed", "superseded"}
                  /\ status'[k] # status[k]
                => /\ UNCHANGED worker
                   /\ \/ status'[k] = "queued" /\ attempt'[k] = 0 /\ retry'[k] = None
                      \/ status[k] = "ready" /\ status'[k] = "superseded"]_vars
  BY StepReopens DEF Reopens, Settled
<1> QED
  BY <1>1, TypeCorrect, PTL DEF Spec, SettledRowsStay

-----------------------------------------------------------------------------
(* Jobs of every kind, as long as no lease runs out under a live worker:   *)
(* a worker at work holds its row, and holds it alone.                     *)

WorkerHoldsRow ==
  overruns = 0 =>
    \A w \in Workers : Busy(w) =>
      /\ Fence(w)
      /\ held[w] = epoch[key[w]]
      /\ lease[key[w]] > 0

OneWorkerPerJob ==
  overruns = 0 =>
    \A v, w \in Workers : Busy(v) /\ Busy(w) /\ key[v] = key[w] => v = w

LEMMA HoldersAreAlone ==
  TypeOK /\ ClaimsAreDistinct /\ WorkerHoldsRow => OneWorkerPerJob
  BY DEF TypeOK, ClaimsAreDistinct, WorkerHoldsRow, OneWorkerPerJob, Fence

LEMMA NextWorkerHoldsRow ==
  TypeOK /\ RunningIffLeased /\ ClaimsAreDistinct /\ WorkerHoldsRow /\ [Next]_vars
    => WorkerHoldsRow'
<1> SUFFICES ASSUME TypeOK, RunningIffLeased, WorkerHoldsRow, OneWorkerPerJob,
                    [Next]_vars, overruns' = 0
             PROVE  WorkerHoldsRow'
  BY HoldersAreAlone DEF WorkerHoldsRow
<1> USE KeysAssumption, TimingAssumption
    DEF TypeOK, RunningIffLeased, WorkerHoldsRow, Fence, Busy, jobs, worker, hist,
        budget
<1>1. ASSUME NEW k \in Keys, NEW force \in BOOLEAN, enqueue_job_inner(k, force)
      PROVE  WorkerHoldsRow'
  BY <1>1 DEF enqueue_job_inner, Reset
<1>2. ASSUME NEW k \in Keys, supersede_ready_job(k) PROVE WorkerHoldsRow'
  BY <1>2 DEF supersede_ready_job, Close
<1>3. ASSUME NEW S \in SUBSET Keys, RetryFailed(S) PROVE WorkerHoldsRow'
  BY <1>3 DEF RetryFailed, Reset
<1>4. ASSUME NEW w \in Workers, NEW k \in Keys, claim_next_job(w, k)
      PROVE  WorkerHoldsRow'
  BY <1>4 DEF claim_next_job, Claimable
<1>5. ASSUME NEW w \in Workers, extend_job_lease(w) PROVE WorkerHoldsRow'
  BY <1>5 DEF extend_job_lease, Release
<1>6. ASSUME NEW w \in Workers, NEW result \in {"ok", "err"},
             execute_job(w, result)
      PROVE  WorkerHoldsRow'
  BY <1>6 DEF execute_job
<1>7. ASSUME NEW w \in Workers, finish_job(w) PROVE WorkerHoldsRow'
  BY <1>7 DEF finish_job, Close, Release, OneWorkerPerJob
<1>8. ASSUME NEW w \in Workers, NEW delay \in 0 .. BackoffCap,
             record_job_failure(w, delay)
      PROVE  WorkerHoldsRow'
  BY <1>8 DEF record_job_failure, Close, Release, OneWorkerPerJob
<1>9. ASSUME NEW w \in Workers, Crash(w) PROVE WorkerHoldsRow'
  BY <1>9 DEF Crash, Release
<1>10. CASE Tick
  <2>1. overruns = 0 /\ RunningOut = {}
    BY <1>10 DEF Tick
  <2>2. \A w \in Workers : Busy(w) => lease[key[w]] # 1
    BY <2>1 DEF RunningOut
  <2> QED
    BY <1>10, <2>1, <2>2 DEF Tick, Down
<1>11. CASE UNCHANGED vars
  BY <1>11 DEF vars
<1> HIDE DEF WorkerHoldsRow, TypeOK, RunningIffLeased
<1> QED
  BY <1>1, <1>2, <1>3, <1>4, <1>5, <1>6, <1>7, <1>8, <1>9, <1>10, <1>11
     DEF Next, Client, Proceed, retry_failed_jobs, retry_failed_job,
         retry_failed_jobs_by_kind

LEMMA HoldersInvariant == Spec => []WorkerHoldsRow
<1>1. Init => WorkerHoldsRow
  BY DEF Init, WorkerHoldsRow, Busy
<1> QED
  BY <1>1, NextWorkerHoldsRow, TypeCorrect, RunningRowsAreLeased, ClaimFence, PTL
     DEF Spec

\* Crashes, failed attempts, resets and takeovers of lost workers never bring
\* two workers to the same job: that takes a lease that runs out under a
\* worker that is alive.
THEOREM JobsAreRunByOne == Spec => []OneWorkerPerJob
  BY HoldersInvariant, HoldersAreAlone, TypeCorrect, ClaimFence, PTL

=============================================================================
