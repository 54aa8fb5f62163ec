------------------------------ MODULE JobQueue ------------------------------
(***************************************************************************)
(* The `jobs` table of src/db.rs and the worker loops of src/main.rs that  *)
(* claim, execute and settle its rows.                                     *)
(*                                                                         *)
(* A row is keyed by its deterministic work key.  A worker claims one row  *)
(* by a single UPDATE that also takes a lease, executes the job outside    *)
(* any transaction, and settles the row with an UPDATE fenced on the       *)
(* attempt number it was given.  A lease that runs out is taken over by    *)
(* the next worker that claims; the earlier worker is not told.            *)
(*                                                                         *)
(* Time stamps are kept relative to the current time: `lease` is the time  *)
(* left until lease_until, `retry` the time left until next_retry_at       *)
(* (negative once it has passed) and `created` minus the age of the row.   *)
(* Stamps older than Horizon are not told apart, so a claim may pick       *)
(* either of two such rows.  One Tick is one unit of wall-clock time.      *)
(***************************************************************************)
EXTENDS Integers

CONSTANTS
  Keys,            \* work keys
  Kind,            \* Kind[k] is the job_kind stored with work key k
  V2Keys,          \* the work keys that start with V2_EXPORT_WORK_KEY_PREFIX
  Workers,         \* single_worker_loop tasks, of one or several processes
  MaxAttempts,     \* column max_attempts
  JobLease,        \* lease of claim_next_job        (15 minutes)
  ProjectLease,    \* lease of a bambu_project job   (35 minutes)
  ProjectTimeout,  \* longest execution of one: the 30 minute timeout with
                   \* the database calls right before and after it
  DbStall,         \* longest wait of one database call (pool and busy timeout)
  BackoffBase,     \* RETRY_BACKOFF_BASE_SECONDS
  BackoffCap,      \* RETRY_BACKOFF_CAP_SECONDS
  None,            \* SQL NULL
  Horizon,         \* bound: ages beyond it are not told apart
  MaxEpochs,       \* bound: times one row is put back to attempt 0 while some
                   \* worker that claimed it before is still at it
  MaxCrashes,      \* bound: worker tasks lost
  MaxOverruns      \* bound: leases that run out under a live worker

ASSUME KeysAssumption ==
  /\ Kind \in [Keys -> {"parameter_refresh", "preview_export",
                        "download_export", "bambu_project"}]
  /\ V2Keys \subseteq Keys
  /\ None \notin Int

ASSUME TimingAssumption ==
  /\ MaxAttempts \in Nat \ {0}
  /\ JobLease \in Nat \ {0} /\ ProjectLease \in Nat /\ ProjectTimeout \in Nat
  /\ DbStall \in Nat /\ DbStall < JobLease
  /\ ProjectTimeout + DbStall < ProjectLease
  /\ BackoffBase \in Nat /\ BackoffCap \in Nat
  /\ Horizon \in Nat /\ MaxEpochs \in Nat
  /\ MaxCrashes \in Nat /\ MaxOverruns \in Nat

VARIABLES
  \* The columns of the table; status "absent" stands for a missing row.
  status, payload, attempt, lease, retry, created,
  \* Per worker: the step it is at, the work key and attempt number it was
  \* given by its claim, and how long it has been in a step that ends in time.
  pc, key, claim, age,
  \* Observation only, read by no action: the resets of a row to attempt 0,
  \* numbered anew once no worker is left that could tell them apart, the
  \* reset under which a worker claimed, and the leases that lapsed since the
  \* last reset.
  epoch, held, lapses,
  \* Worker tasks lost, and leases that ran out under a live worker, so far.
  crashes, overruns

jobs == <<status, payload, attempt, lease, retry, created>>
worker == <<pc, key, claim, age, held>>
hist == <<epoch, lapses>>
budget == <<crashes, overruns>>
vars == <<jobs, worker, hist, budget>>

-----------------------------------------------------------------------------
ProjectKeys == {k \in Keys : Kind[k] = "bambu_project"}

\* An export job of the cache layout before the cut to request hashes.
should_retire_legacy_export_job(k) ==
  Kind[k] \in {"preview_export", "download_export"} /\ k \notin V2Keys

\* The steps of process_next_job between its awaits.
Steps == {"extend", "retire", "execute", "ok", "err"}

\* The steps in which the worker is inside a database call.
DbSteps == Steps \ {"execute"}

Busy(w) == pc[w] # "idle"

\* Rows that are in the table before this release starts: nothing, except
\* that legacy export keys may have been left queued or failed, with or
\* without a payload.
Init ==
  /\ status \in [Keys -> {"absent", "queued", "failed"}]
  /\ payload \in [Keys -> {"empty", "job"}]
  /\ \A k \in Keys :
       IF should_retire_legacy_export_job(k)
         THEN status[k] # "absent"
         ELSE status[k] = "absent" /\ payload[k] = "empty"
  /\ attempt = [k \in Keys |-> 0]
  /\ lease = [k \in Keys |-> None]
  /\ retry = [k \in Keys |-> None]
  /\ created = [k \in Keys |-> 0]
  /\ pc = [w \in Workers |-> "idle"]
  /\ key = [w \in Workers |-> None]
  /\ claim = [w \in Workers |-> 0]
  /\ age = [w \in Workers |-> 0]
  /\ held = [w \in Workers |-> 0]
  /\ epoch = [k \in Keys |-> 0]
  /\ lapses = [k \in Keys |-> 0]
  /\ crashes = 0
  /\ overruns = 0

-----------------------------------------------------------------------------
(* Enqueueing and the operator's commands.                                 *)

\* Some worker that has claimed row k is still at it.
Attended(k) == \E w \in Workers : Busy(w) /\ key[w] = k

\* Every row of S goes back to the queue as if it had never been tried.
Reset(S) ==
  /\ \A k \in S : Attended(k) => epoch[k] < MaxEpochs
  /\ status' = [k \in Keys |-> IF k \in S THEN "queued" ELSE status[k]]
  /\ attempt' = [k \in Keys |-> IF k \in S THEN 0 ELSE attempt[k]]
  /\ lease' = [k \in Keys |-> IF k \in S THEN None ELSE lease[k]]
  /\ retry' = [k \in Keys |-> IF k \in S THEN None ELSE retry[k]]
  /\ epoch' = [k \in Keys |-> IF k \notin S THEN epoch[k]
                              ELSE IF Attended(k) THEN epoch[k] + 1 ELSE 0]
  /\ lapses' = [k \in Keys |-> IF k \in S THEN 0 ELSE lapses[k]]

\* The `force` argument by the callers for each kind: exports never force,
\* projects always, parameter refreshes when scheduled; nothing enqueues a
\* legacy export key any more.
Forces(k) ==
  CASE Kind[k] = "parameter_refresh" -> BOOLEAN
    [] Kind[k] = "bambu_project" -> {TRUE}
    [] OTHER -> IF k \in V2Keys THEN {FALSE} ELSE {}

\* Mutant: the conflict clause without its WHERE.
EnqueueWhateverTheStatus(k, force) ==
  /\ force \in Forces(k)
  /\ Reset({k})
  /\ payload' = [payload EXCEPT ![k] = "job"]
  /\ UNCHANGED <<created, worker, budget>>

\* INSERT ... ON CONFLICT(work_key) DO UPDATE ... WHERE.  A row that is
\* queued or running, or ready without force, is left as it is.  created_at
\* is not among the columns the conflict clause assigns.
enqueue_job_inner(k, force) ==
  /\ force \in Forces(k)
  /\ status[k] \in {"absent", "failed", "superseded"}
                     \cup (IF force THEN {"ready"} ELSE {})
  /\ Reset({k})
  /\ payload' = [payload EXCEPT ![k] = "job"]
  /\ created' = [created EXCEPT ![k] = IF status[k] = "absent" THEN 0 ELSE @]
  /\ UNCHANGED <<worker, budget>>

\* No claim selects row k any more.
Close(k, s) ==
  /\ status' = [status EXCEPT ![k] = s]
  /\ lease' = [lease EXCEPT ![k] = None]
  /\ retry' = [retry EXCEPT ![k] = None]
  /\ UNCHANGED <<payload, attempt, created>>

\* artifacts invalidate / prune, second statement.
supersede_ready_job(k) ==
  /\ status[k] = "ready"
  /\ Close(k, "superseded")
  /\ UNCHANGED <<worker, hist, budget>>

\* failures retry: every failed row of S that still has its payload.
RetryFailed(S) ==
  LET chosen == {k \in S : status[k] = "failed" /\ payload[k] # "empty"} IN
  /\ chosen # {}
  /\ Reset(chosen)
  /\ UNCHANGED <<payload, created, worker, budget>>

retry_failed_jobs == RetryFailed(Keys)
retry_failed_job(k) == RetryFailed({k})
retry_failed_jobs_by_kind(kind) == RetryFailed({k \in Keys : Kind[k] = kind})

-----------------------------------------------------------------------------
(* One worker: process_next_job.                                           *)

\* Mutant: only queued rows are selected.
ClaimableQueued(k) == status[k] = "queued" /\ (retry[k] # None => retry[k] <= 0)

Claimable(k) ==
  \/ status[k] = "queued" /\ (retry[k] # None => retry[k] <= 0)
  \/ status[k] = "running" /\ lease[k] # None /\ lease[k] <= 0

\* ORDER BY: queued rows first, then COALESCE(next_retry_at, created_at),
\* then created_at.  next_retry_at survives a claim, so it also ranks rows
\* that are being taken over.
Precedes(j, k) ==
  LET Class(i) == IF status[i] = "queued" THEN 0 ELSE 1
      Due(i) == IF retry[i] = None THEN created[i] ELSE retry[i]
  IN \/ Class(j) < Class(k)
     \/ Class(j) = Class(k) /\ Due(j) < Due(k)
     \/ Class(j) = Class(k) /\ Due(j) = Due(k) /\ created[j] < created[k]

\* The step that follows the claim of k.
FirstStep(k) ==
  IF Kind[k] = "bambu_project" THEN "extend"
  ELSE IF should_retire_legacy_export_job(k) THEN "retire"
  ELSE "execute"

\* Mutant: the claim does not count the attempt when it takes over a lease.
ClaimSameAttempt(w, k) ==
  LET a == IF status[k] = "running" THEN attempt[k] ELSE attempt[k] + 1 IN
  /\ ~Busy(w)
  /\ Claimable(k)
  /\ status' = [status EXCEPT ![k] = "running"]
  /\ attempt' = [attempt EXCEPT ![k] = a]
  /\ lease' = [lease EXCEPT ![k] = JobLease]
  /\ pc' = [pc EXCEPT ![w] = FirstStep(k)]
  /\ key' = [key EXCEPT ![w] = k]
  /\ claim' = [claim EXCEPT ![w] = a]
  /\ held' = [held EXCEPT ![w] = epoch[k]]
  /\ UNCHANGED <<payload, retry, created, age, hist, budget>>

claim_next_job(w, k) ==
  /\ ~Busy(w)
  /\ Claimable(k)
  /\ \A j \in Keys : Claimable(j) => ~Precedes(j, k)
  /\ status' = [status EXCEPT ![k] = "running"]
  /\ attempt' = [attempt EXCEPT ![k] = @ + 1]
  /\ lease' = [lease EXCEPT ![k] = JobLease]
  /\ pc' = [pc EXCEPT ![w] = FirstStep(k)]
  /\ key' = [key EXCEPT ![w] = k]
  /\ claim' = [claim EXCEPT ![w] = attempt[k] + 1]
  /\ age' = [age EXCEPT ![w] = 0]
  /\ held' = [held EXCEPT ![w] = epoch[k]]
  /\ lapses' = [lapses EXCEPT
                  ![k] = IF status[k] = "running" THEN @ + 1 ELSE @]
  /\ UNCHANGED <<payload, retry, created, epoch, budget>>

\* Mutant: the statements compare the attempt but not the status.
FenceOnAttemptOnly(w) == attempt[key[w]] = claim[w]

\* WHERE work_key = ? AND attempt = ? AND status = 'running', common to
\* every statement a worker sends after its claim.
Fence(w) == status[key[w]] = "running" /\ attempt[key[w]] = claim[w]

\* The worker loop turns to the next job; its locals are dropped.
Release(w) ==
  /\ pc' = [pc EXCEPT ![w] = "idle"]
  /\ key' = [key EXCEPT ![w] = None]
  /\ claim' = [claim EXCEPT ![w] = 0]
  /\ age' = [age EXCEPT ![w] = 0]
  /\ held' = [held EXCEPT ![w] = 0]

\* Mutant: the project runs under the lease of the claim.
ExtendNothing(w) ==
  /\ pc[w] = "extend"
  /\ pc' = [pc EXCEPT ![w] = "execute"]
  /\ age' = [age EXCEPT ![w] = 0]
  /\ UNCHANGED <<key, claim, held, jobs, hist, budget>>

extend_job_lease(w) ==
  /\ pc[w] = "extend"
  /\ \/ /\ Fence(w)
        /\ lease' = [lease EXCEPT ![key[w]] = ProjectLease]
        /\ pc' = [pc EXCEPT ![w] = "execute"]
        /\ age' = [age EXCEPT ![w] = 0]
        /\ UNCHANGED <<key, claim, held>>
     \/ /\ ~Fence(w)
        /\ Release(w)
        /\ UNCHANGED lease
  /\ UNCHANGED <<status, payload, attempt, retry, created, hist, budget>>

\* The execution itself is another module's business; here it ends in one of
\* its two results, a project's at the latest when its timeout fires.
execute_job(w, result) ==
  /\ pc[w] = "execute"
  /\ pc' = [pc EXCEPT ![w] = result]
  /\ age' = [age EXCEPT ![w] = 0]
  /\ UNCHANGED <<key, claim, held, jobs, hist, budget>>

\* "ready" after a successful execution, "superseded" for a legacy job.
finish_job(w) ==
  /\ pc[w] \in {"ok", "retire"}
  /\ IF Fence(w)
       THEN Close(key[w], IF pc[w] = "ok" THEN "ready" ELSE "superseded")
       ELSE UNCHANGED jobs
  /\ Release(w)
  /\ UNCHANGED <<hist, budget>>

\* Full jitter below base * 2^(attempt - 1), capped.
retry_backoff_seconds(a) ==
  LET exponent == IF a - 1 < 10 THEN a - 1 ELSE 10 IN
  {d \in 0 .. BackoffCap : d <= BackoffBase * 2 ^ exponent}

\* Mutant: an off-by-one in the test for the last attempt.
FailureOneTooMany(w, delay) ==
  /\ pc[w] = "err"
  /\ delay \in retry_backoff_seconds(claim[w])
  /\ \/ ~Fence(w) /\ UNCHANGED jobs
     \/ /\ Fence(w) /\ attempt[key[w]] > MaxAttempts
        /\ Close(key[w], "failed")
     \/ /\ Fence(w) /\ attempt[key[w]] <= MaxAttempts
        /\ status' = [status EXCEPT ![key[w]] = "queued"]
        /\ lease' = [lease EXCEPT ![key[w]] = None]
        /\ retry' = [retry EXCEPT ![key[w]] = delay]
        /\ UNCHANGED <<payload, attempt, created>>
  /\ Release(w)
  /\ UNCHANGED <<hist, budget>>

record_job_failure(w, delay) ==
  /\ pc[w] = "err"
  /\ delay \in IF claim[w] < MaxAttempts THEN retry_backoff_seconds(claim[w])
                                         ELSE {0}
  /\ \/ ~Fence(w) /\ UNCHANGED jobs
     \/ /\ Fence(w) /\ attempt[key[w]] >= MaxAttempts
        /\ Close(key[w], "failed")
     \/ /\ Fence(w) /\ attempt[key[w]] < MaxAttempts
        /\ status' = [status EXCEPT ![key[w]] = "queued"]
        /\ lease' = [lease EXCEPT ![key[w]] = None]
        /\ retry' = [retry EXCEPT ![key[w]] = delay]
        /\ UNCHANGED <<payload, attempt, created>>
  /\ Release(w)
  /\ UNCHANGED <<hist, budget>>

\* The worker's process stops, or a database call of its returns an error:
\* either way the loop forgets the job and leaves the row as it is.
Crash(w) ==
  /\ Busy(w)
  /\ crashes < MaxCrashes
  /\ crashes' = crashes + 1
  /\ Release(w)
  /\ UNCHANGED <<jobs, hist, overruns>>

-----------------------------------------------------------------------------
(* Time.                                                                   *)

Down(t, floor) == IF t = None THEN t ELSE IF t <= floor THEN t ELSE t - 1

\* The workers whose lease the next unit of time exhausts.
RunningOut == {w \in Workers : Busy(w) /\ Fence(w) /\ lease[key[w]] = 1}

\* Mutant: no timeout around a project's execution.
TimedDbOnly(w) == Busy(w) /\ pc[w] \in DbSteps

\* The steps that end in time: a project's execution at its timeout, a
\* database call at its own.  Nothing limits the execution of other jobs.
Timed(w) == Busy(w) /\ (pc[w] \in DbSteps \/ key[w] \in ProjectKeys)

StepLimit(w) == IF pc[w] = "execute" THEN ProjectTimeout ELSE DbStall

Tick ==
  /\ \A w \in Workers : Timed(w) => age[w] < StepLimit(w)
  /\ overruns' = IF RunningOut = {} THEN overruns ELSE overruns + 1
  /\ overruns' <= MaxOverruns
  /\ lease' = [k \in Keys |-> Down(lease[k], 0)]
  /\ retry' = [k \in Keys |-> Down(retry[k], -Horizon)]
  /\ created' = [k \in Keys |-> Down(created[k], -Horizon)]
  /\ age' = [w \in Workers |-> IF Timed(w) THEN age[w] + 1 ELSE age[w]]
  /\ UNCHANGED <<status, payload, attempt, pc, key, claim, held, hist, crashes>>

-----------------------------------------------------------------------------
Client ==
  \/ \E k \in Keys, force \in BOOLEAN : enqueue_job_inner(k, force)
  \/ \E k \in Keys : supersede_ready_job(k)
  \/ retry_failed_jobs
  \/ \E k \in Keys : retry_failed_job(k)
  \/ \E k \in Keys : retry_failed_jobs_by_kind(Kind[k])

\* What a worker does after its claim.
Proceed(w) ==
  \/ extend_job_lease(w)
  \/ \E result \in {"ok", "err"} : execute_job(w, result)
  \/ finish_job(w)
  \/ \E delay \in 0 .. BackoffCap : record_job_failure(w, delay)

Next ==
  \/ Client
  \/ \E w \in Workers, k \in Keys : claim_next_job(w, k)
  \/ \E w \in Workers : Proceed(w)
  \/ \E w \in Workers : Crash(w)
  \/ Tick

Spec == Init /\ [][Next]_vars

\* A worker loop polls for ever (every 5 seconds while the queue is empty),
\* each of its awaits returns, and time passes.  Clients, operators and
\* crashes owe nothing here; what they must not do for ever is part of the
\* property, in EnvironmentRests.
Fairness ==
  /\ \A w \in Workers : WF_vars(Proceed(w))
  /\ \A w \in Workers : WF_vars(\E k \in Keys : claim_next_job(w, k))
  /\ WF_vars(Tick)

FairSpec == Spec /\ Fairness

-----------------------------------------------------------------------------
(* Properties.                                                             *)

\* The columns and the workers' locals keep their types, and a worker at work
\* holds a key.
TypeOK ==
  /\ status \in [Keys -> {"absent", "queued", "running", "ready", "failed",
                          "superseded"}]
  /\ payload \in [Keys -> {"empty", "job"}]
  /\ attempt \in [Keys -> Nat]
  /\ lease \in [Keys -> Nat \cup {None}]
  /\ retry \in [Keys -> Int \cup {None}]
  /\ created \in [Keys -> Int]
  /\ pc \in [Workers -> Steps \cup {"idle"}]
  /\ key \in [Workers -> Keys \cup {None}]
  /\ \A w \in Workers : Busy(w) => key[w] \in Keys
  /\ claim \in [Workers -> Nat]
  /\ age \in [Workers -> Nat]
  /\ held \in [Workers -> Nat]
  /\ epoch \in [Keys -> Nat]
  /\ lapses \in [Keys -> Nat]
  /\ crashes \in Nat
  /\ overruns \in Nat

\* A running row always carries a lease, so that some later claim can take
\* it over however its worker ends, and no other row does; a settled row is
\* not scheduled for a retry.  (claim_next_job selects a running row only by
\* lease_until, so a running row without one would never be run again.)
RunningIffLeased ==
  \A k \in Keys :
    /\ status[k] = "running" <=> lease[k] # None
    /\ status[k] \in {"ready", "failed", "superseded"} => retry[k] = None

\* The attempt number identifies the claim: between two resets of a row, no
\* two workers hold it under the same attempt, however many leases lapsed
\* and whoever was too slow, and no worker holds an attempt the row has not
\* reached.  This is what makes the WHERE attempt = ? of every settling
\* statement a fence.
ClaimsAreDistinct ==
  \A v, w \in Workers :
    Busy(v) /\ Busy(w) /\ key[v] = key[w] =>
      /\ held[v] <= epoch[key[v]]
      /\ held[v] = epoch[key[v]] => claim[v] <= attempt[key[v]]
      /\ v # w /\ held[v] = held[w] => claim[v] # claim[w]

\* A job is executed beyond max_attempts only to make up for lapsed leases:
\* every attempt above the limit is paid for by a lease that ran out since
\* the row was last reset, and a row that waits in the queue always has an
\* attempt left.
AttemptsPaidByLapses ==
  \A k \in Keys :
    /\ attempt[k] <= MaxAttempts + lapses[k]
    /\ status[k] = "queued" => attempt[k] < MaxAttempts

\* The time a worker may still take in its step and in the database call
\* that follows an execution.
Remaining(w) ==
  StepLimit(w) - age[w] + (IF pc[w] = "execute" THEN DbStall ELSE 0)

\* The lease of a project row outlives the worker that holds it: the row is
\* still running under the worker's own attempt, and the lease has more time
\* left than the worker can take in the database call or the execution it is
\* in, including the call that settles the row.
ProjectLeaseOutlivesWorker ==
  \A w \in Workers :
    Busy(w) /\ key[w] \in ProjectKeys =>
      /\ Fence(w)
      /\ held[w] = epoch[key[w]]
      /\ age[w] <= StepLimit(w)
      /\ lease[key[w]] > Remaining(w)

\* No two workers are ever at the same Bambu project at the same time: the
\* 30 minute timeout inside the 35 minute lease, taken before the 15 minute
\* lease of the claim runs out, leaves no moment at which the row can be
\* claimed from under a worker that is still at it, whatever crashes and
\* requests happen in between.
ProjectExclusive ==
  \A v, w \in Workers :
    Busy(v) /\ Busy(w) /\ key[v] = key[w] /\ key[v] \in ProjectKeys => v = w

\* Worker w completes a statement that changes the row it holds.
WritesRow(w) ==
  /\ pc[w] \in DbSteps
  /\ pc'[w] # pc[w]
  /\ \/ status'[key[w]] # status[key[w]]
     \/ lease'[key[w]] # lease[key[w]]

\* A project worker's statements only ever change the row as it was claimed:
\* never a row that was reset and claimed again in the meantime.
ProjectWritesOwnEpoch ==
  [][\A w \in Workers :
       WritesRow(w) /\ key[w] \in ProjectKeys => held[w] = epoch[key[w]]]_vars

\* A row that became ready, failed or superseded stays so until a client or
\* an operator asks for it again: no late worker reopens or overwrites it.
SettledRowsStay ==
  [][\A k \in Keys :
       status[k] \in {"ready", "failed", "superseded"} /\ status'[k] # status[k]
         => /\ UNCHANGED worker
            /\ \/ status'[k] = "queued" /\ attempt'[k] = 0 /\ retry'[k] = None
               \/ status[k] = "ready" /\ status'[k] = "superseded"]_vars

\* The same for every kind of job, as the test
\* running_jobs_are_reclaimed_after_lease_expiry has it: the finish of a
\* lease that was reclaimed changes nothing.
StaleWritesRejected ==
  [][\A w \in Workers : WritesRow(w) => held[w] = epoch[key[w]]]_vars

\* No job gets more than max_attempts attempts.
AttemptsWithinMaximum == \A k \in Keys : attempt[k] <= MaxAttempts

\* From some moment on clients and operators put no settled row back in the
\* queue, no worker task is lost and no lease runs out under a live worker.
EnvironmentRests ==
  <>[][/\ \A k \in Keys : status'[k] = "queued" => status[k] \in {"queued", "running"}
       /\ crashes' = crashes
       /\ overruns' = overruns]_vars

\* Every job that is waiting or running is settled in the end, after failed
\* attempts, crashes, lapsed leases and any number of earlier requests, once
\* the environment rests.  While it does not, the code promises nothing: a
\* claim prefers any queued row to one whose lease has lapsed, and a row that
\* is asked for again keeps its old created_at and is claimed before younger
\* ones, so that endless requests for one row starve another; and a row whose
\* leases keep lapsing is run again without end.
JobsSettle ==
  EnvironmentRests =>
    \A k \in Keys :
      status[k] \in {"queued", "running"} ~>
        status[k] \in {"ready", "failed", "superseded"}

=============================================================================
