--------------------------- MODULE ExportRequests ---------------------------
(***************************************************************************)
(* JobQueue and ExportPipeline composed for one export request: the web    *)
(* routes and the scheduled rebuild enqueue its job, workers claim it and  *)
(* execute the pipeline under its lease, `generate` commands execute the   *)
(* pipeline beside them, and `artifacts invalidate` and `artifacts prune`  *)
(* supersede first the artifact set and then the job that produced it.     *)
(*                                                                         *)
(* The two tables share no transaction.  A request is served from its      *)
(* artifact sets, and asked for through its job: enqueueing does nothing   *)
(* while the job is `ready`.                                               *)
(***************************************************************************)
EXTENDS Integers

CONSTANTS
  request,         \* the work key of the request's job
  Workers, Commands, Operators,
  MaxAttempts, JobLease, DbStall, BackoffBase, BackoffCap,
  Horizon, MaxEpochs, MaxCrashes, MaxOverruns,
  Tids, Payloads, Fits, NFiles,
  None

ASSUME RequestAssumption ==
  /\ MaxAttempts \in Nat \ {0}
  /\ JobLease \in Nat \ {0} /\ DbStall \in Nat /\ DbStall < JobLease
  /\ BackoffBase \in Nat /\ BackoffCap \in Nat
  /\ Horizon \in Nat /\ MaxEpochs \in Nat
  /\ MaxCrashes \in Nat /\ MaxOverruns \in Nat
  /\ NFiles \in Nat \ {0}
  /\ Fits \subseteq Payloads
  /\ Workers \cap Commands = {}
  /\ None \notin Int /\ None \notin Tids /\ None \notin Payloads

VARIABLES
  status, payload, attempt, lease, retry, created, pc, key, claim, age,
  epoch, held, lapses, crashes, overruns,
  remote, row, newer, link, rawRow, rawObj, post, art, producer, files,
  step, tid, raw, file, command, seen, overlaps, strays,
  races            \* observation only: 1 once actors met on the request

Executors == Workers \cup Commands

Queue == INSTANCE JobQueue WITH
  Keys <- {request}, V2Keys <- {request},
  Kind <- [k \in {request} |-> "preview_export"],
  ProjectLease <- DbStall + 1, ProjectTimeout <- 0

Pipeline == INSTANCE ExportPipeline WITH pc <- step

queue == <<status, payload, attempt, lease, retry, created, pc, key, claim, age,
           epoch, held, lapses, crashes, overruns>>
pipeline == <<remote, row, newer, link, rawRow, rawObj, post, art, producer, files,
              step, tid, raw, file, command, seen, overlaps, strays>>
vars == <<queue, pipeline, races>>

Init == Queue!Init /\ Pipeline!Init /\ races = 0

-----------------------------------------------------------------------------
Working == status[request] = "running" \/ \E e \in Executors : step[e] # "idle"

\* Executors overlap, or an operator's statement meets an executor.
Met == IF overlaps' = 1 THEN 1 ELSE races

\* generate_preview, generate_download and enqueue_scheduled_rebuild.  They
\* look for a ready artifact first; what they saw may be out of date here.
generate ==
  /\ Queue!enqueue_job_inner(request, FALSE)
  /\ UNCHANGED <<pipeline, races>>

retry_failed_job ==
  /\ Queue!retry_failed_job(request)
  /\ UNCHANGED <<pipeline, races>>

claim_next_job(w) ==
  /\ Queue!claim_next_job(w, request)
  /\ Pipeline!begin(w)
  /\ races' = Met

execute(w) ==
  /\ pc[w] = "execute"
  /\ Pipeline!Work(w) \/ Pipeline!Fail(w)
  /\ UNCHANGED <<queue, races>>

executed(w) ==
  /\ Queue!execute_job(w, step[w])
  /\ Pipeline!Return(w)
  /\ UNCHANGED races

settle(w) ==
  /\ \/ Queue!finish_job(w)
     \/ \E delay \in 0 .. BackoffCap : Queue!record_job_failure(w, delay)
  /\ UNCHANGED <<pipeline, races>>

crash(w) ==
  /\ Queue!Crash(w)
  /\ \/ step[w] # "idle" /\ Pipeline!Leave(w)
     \/ step[w] = "idle" /\ UNCHANGED pipeline
  /\ UNCHANGED races

\* previews generate, exports generate.
generate_command(c) ==
  /\ \/ Pipeline!begin(c) \/ Pipeline!Work(c) \/ Pipeline!Fail(c)
     \/ Pipeline!Return(c) \/ Pipeline!Crash(c)
  /\ races' = Met
  /\ UNCHANGED queue

-----------------------------------------------------------------------------
(* artifacts invalidate and artifacts prune.                               *)

read_artifact(o, p) ==
  /\ Pipeline!read_artifact(o, p)
  /\ UNCHANGED <<queue, races>>

supersede_artifact(o, p) ==
  /\ Pipeline!supersede_artifact_set(o, p)
  /\ races' = IF Working THEN 1 ELSE races
  /\ UNCHANGED queue

\* Mutant: the second statement is forgotten.
ForgetJob(o, p) ==
  /\ command[o][p] = "written"
  /\ Pipeline!end_command(o, p)
  /\ UNCHANGED <<queue, races>>

\* The second statement goes by the producing_job_key the command has read,
\* and finds no row unless the job is ready.
supersede_producing_job(o, p) ==
  /\ command[o][p] = "written"
  /\ Pipeline!end_command(o, p)
  /\ IF seen[o][p] = "job" /\ status[request] = "ready"
       THEN Queue!supersede_ready_job(request)
       ELSE UNCHANGED queue
  /\ races' = IF seen[o][p] = "none" THEN 1 ELSE races

\* The command stops before it has done both.
abort_command(o, p) ==
  /\ Pipeline!end_command(o, p)
  /\ races' = 1
  /\ UNCHANGED queue

Tick == Queue!Tick /\ UNCHANGED <<pipeline, races>>

-----------------------------------------------------------------------------
(* What a client is told of the request, and what it can do about it.      *)

Served == \E p \in Payloads : art[p] = "ready"

\* The status of the latest artifact set or of the job; which of several sets
\* was updated last is not told apart.
artifact_status ==
  LET sets == {art[p] : p \in Payloads} \ {"absent"} IN
  IF Served THEN {"ready"}
  ELSE IF status[request] \in {"queued", "running"} THEN {status[request]}
  ELSE IF sets # {} THEN sets
  ELSE IF status[request] = "absent" THEN {"missing"} ELSE {status[request]}

\* A request to generate the artifact would put the job in the queue.
CanBeQueued == status[request] \in {"absent", "failed", "superseded"}

-----------------------------------------------------------------------------
Proceed(w) == execute(w) \/ executed(w) \/ settle(w)

Next ==
  \/ generate
  \/ retry_failed_job
  \/ \E w \in Workers : claim_next_job(w) \/ Proceed(w) \/ crash(w)
  \/ \E c \in Commands : generate_command(c)
  \/ \E o \in Operators, p \in Payloads :
       \/ read_artifact(o, p) \/ supersede_artifact(o, p)
       \/ supersede_producing_job(o, p) \/ abort_command(o, p)
  \/ Tick

Spec == Init /\ [][Next]_vars

\* Worker loops poll for ever, their awaits return and time passes, as in
\* JobQueue.  Clients, operators and commands owe nothing.
Fairness ==
  /\ \A w \in Workers : WF_vars(claim_next_job(w)) /\ WF_vars(Proceed(w))
  /\ WF_vars(Tick)

FairSpec == Spec /\ Fairness

-----------------------------------------------------------------------------
(* Properties.                                                             *)

\* No operator is between the statements of a command.
NoCommand == \A o \in Operators, p \in Payloads : command[o][p] = "none"

\* No two actors met on the request so far: executors, operators, or a worker
\* and the one that took over its lease.
Undisturbed == races = 0 /\ overruns = 0

\* A job that is ready has published its artifact, and it is still there:
\* through crashes, failed attempts, lapsed leases of lost workers, generate
\* commands and invalidations, as long as no lease runs out under a worker
\* that is alive, executors do not overlap and an operator's two statements
\* neither meet an execution, nor are cut short, nor concern an artifact that
\* records no job.  Several operators may be at the same set at once.  (Otherwise the request is neither served nor can it be
\* queued.)
ReadyJobIsServed ==
  (/\ Undisturbed
   /\ status[request] = "ready"
   /\ NoCommand)
  => Served

\* A request that is queued is served or its job fails in the end; the same
\* proviso.
QueuedIsAnswered ==
  status[request] = "queued"
    ~> (Served \/ status[request] \in {"failed", "superseded"} \/ ~Undisturbed)

\* What the client is told of a superseded artifact set, "Artifact was
\* superseded and needs to be queued again.", can be done: the job is one that
\* a request to generate queues.
SupersededCanBeQueued ==
  artifact_status = {"superseded"} /\ NoCommand => CanBeQueued

=============================================================================
