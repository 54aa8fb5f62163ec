---------------------------- MODULE RequestProofs ----------------------------
(***************************************************************************)
(* Proofs about ExportRequests, the composition of the job queue and the   *)
(* export pipeline, for any workers, generate commands, translations and   *)
(* payloads.  Every behaviour of the composition is one of each component, *)
(* so what is proved of a component alone holds in the composition.        *)
(***************************************************************************)
EXTENDS ExportRequests, TLAPS

QueueP == INSTANCE JobQueueProofs WITH
  Keys <- {request}, V2Keys <- {request},
  Kind <- [k \in {request} |-> "preview_export"],
  ProjectLease <- DbStall + 1, ProjectTimeout <- 0

PipelineP == INSTANCE ExportPipelineProofs WITH pc <- step

-----------------------------------------------------------------------------
(* The composition implements its components.                              *)

\* Pipeline and PipelineP are one module under one substitution.
LEMMA SameWork ==
  ASSUME NEW e \in Executors PROVE Pipeline!Work(e) => PipelineP!Work(e)
<1>1. Pipeline!latest_ready_artifact_for_request(e)
        => PipelineP!latest_ready_artifact_for_request(e)
  BY DEF
      Pipeline!latest_ready_artifact_for_request,
      PipelineP!latest_ready_artifact_for_request, Pipeline!Goto, PipelineP!Goto,
      Pipeline!tables, PipelineP!tables, Pipeline!store, PipelineP!store,
      Pipeline!operator, PipelineP!operator
<1>2. Pipeline!execute_staged_export_request(e)
        => PipelineP!execute_staged_export_request(e)
  BY DEF
      Pipeline!execute_staged_export_request,
      PipelineP!execute_staged_export_request,
      Pipeline!latest_completed_translation_for_request,
      PipelineP!latest_completed_translation_for_request,
      Pipeline!latest_translation_for_request,
      PipelineP!latest_translation_for_request, Pipeline!start_export_request,
      PipelineP!start_export_request, Pipeline!insert_translation_start,
      PipelineP!insert_translation_start, Pipeline!poll_translation,
      PipelineP!poll_translation, Pipeline!update_translation_final,
      PipelineP!update_translation_final, Pipeline!existing_raw_payload_for_source,
      PipelineP!existing_raw_payload_for_source, Pipeline!download_external_data,
      PipelineP!download_external_data, Pipeline!insert_raw_payload_if_absent,
      PipelineP!insert_raw_payload_if_absent, Pipeline!link_raw_payload_source,
      PipelineP!link_raw_payload_source, Pipeline!Latest, PipelineP!Latest,
      Pipeline!Touch, PipelineP!Touch, Pipeline!Rows, PipelineP!Rows,
      Pipeline!Completed, PipelineP!Completed, Pipeline!Done, PipelineP!Done,
      Pipeline!Goto, PipelineP!Goto, Pipeline!tables, PipelineP!tables,
      Pipeline!store, PipelineP!store, Pipeline!operator, PipelineP!operator
<1>3. Pipeline!postprocess_artifact(e) => PipelineP!postprocess_artifact(e)
  BY DEF
      Pipeline!postprocess_artifact, PipelineP!postprocess_artifact,
      Pipeline!insert_postprocess_run_if_absent,
      PipelineP!insert_postprocess_run_if_absent,
      Pipeline!transition_postprocess_run_status,
      PipelineP!transition_postprocess_run_status, Pipeline!Goto, PipelineP!Goto,
      Pipeline!tables, PipelineP!tables, Pipeline!store, PipelineP!store,
      Pipeline!operator, PipelineP!operator
<1>4. Pipeline!publish(e) => PipelineP!publish(e)
  BY DEF
      Pipeline!publish, PipelineP!publish, Pipeline!stage_artifact,
      PipelineP!stage_artifact, Pipeline!put_bytes, PipelineP!put_bytes,
      Pipeline!upload_error, PipelineP!upload_error,
      Pipeline!mark_artifact_upload_failed, PipelineP!mark_artifact_upload_failed,
      Pipeline!mark_artifact_set_ready, PipelineP!mark_artifact_set_ready,
      Pipeline!supersede_ready_artifacts_for_output,
      PipelineP!supersede_ready_artifacts_for_output, Pipeline!Goto,
      PipelineP!Goto, Pipeline!tables, PipelineP!tables, Pipeline!store,
      PipelineP!store, Pipeline!operator, PipelineP!operator
<1> QED
  BY <1>1, <1>2, <1>3, <1>4 DEF Pipeline!Work, PipelineP!Work

LEMMA SameSteps ==
  ASSUME NEW e \in Executors
  PROVE  /\ Pipeline!begin(e) => PipelineP!begin(e)
         /\ Pipeline!Fail(e) => PipelineP!Fail(e)
         /\ Pipeline!Return(e) => PipelineP!Return(e)
         /\ Pipeline!Crash(e) => PipelineP!Crash(e)
         /\ step[e] # "idle" /\ Pipeline!Leave(e) => PipelineP!Return(e) \/ PipelineP!Crash(e)
  BY DEF
      Pipeline!begin, PipelineP!begin, Pipeline!Fail, PipelineP!Fail,
      Pipeline!Return, PipelineP!Return, Pipeline!Crash, PipelineP!Crash,
      Pipeline!Leave, PipelineP!Leave, Pipeline!Busy, PipelineP!Busy,
      Pipeline!Goto, PipelineP!Goto, Pipeline!tables, PipelineP!tables,
      Pipeline!store, PipelineP!store, Pipeline!operator, PipelineP!operator

LEMMA SameCommands ==
  ASSUME NEW o \in Operators, NEW p \in Payloads
  PROVE  /\ Pipeline!read_artifact(o, p) => PipelineP!read_artifact(o, p)
         /\ Pipeline!supersede_artifact_set(o, p) => PipelineP!supersede_artifact_set(o, p)
         /\ Pipeline!end_command(o, p) => PipelineP!end_command(o, p)
  BY DEF
      Pipeline!read_artifact, PipelineP!read_artifact,
      Pipeline!supersede_artifact_set, PipelineP!supersede_artifact_set,
      Pipeline!Publishing, PipelineP!Publishing,
      Pipeline!end_command, PipelineP!end_command, Pipeline!locals,
      PipelineP!locals, Pipeline!Goto, PipelineP!Goto, Pipeline!tables,
      PipelineP!tables, Pipeline!store, PipelineP!store, Pipeline!operator,
      PipelineP!operator

LEMMA PipelineSteps == [Next]_vars => [PipelineP!Next]_PipelineP!vars
<1> SUFFICES ASSUME [Next]_vars PROVE PipelineP!Next \/ UNCHANGED pipeline
  BY DEF pipeline, PipelineP!vars, PipelineP!tables, PipelineP!store,
         PipelineP!locals, PipelineP!operator
<1>1. ASSUME NEW e \in Executors,
             \/ PipelineP!begin(e) \/ PipelineP!Work(e) \/ PipelineP!Fail(e)
             \/ PipelineP!Return(e) \/ PipelineP!Crash(e)
      PROVE  PipelineP!Next
  BY <1>1 DEF PipelineP!Next
<1>2. ASSUME NEW o \in Operators, NEW p \in Payloads,
             \/ PipelineP!read_artifact(o, p) \/ PipelineP!supersede_artifact_set(o, p)
             \/ PipelineP!end_command(o, p)
      PROVE  PipelineP!Next
  BY <1>2 DEF PipelineP!Next, PipelineP!Operator
<1>3. ASSUME NEW w \in Workers, claim_next_job(w) \/ Proceed(w) \/ crash(w)
      PROVE  PipelineP!Next \/ UNCHANGED pipeline
  <2>1. w \in Executors
    BY DEF Executors
  <2> QED
    BY <1>1, <1>3, <2>1, SameWork, SameSteps
    DEF claim_next_job, Proceed, execute, executed, settle, crash
<1>4. ASSUME NEW c \in Commands, generate_command(c) PROVE PipelineP!Next
  <2>1. c \in Executors
    BY DEF Executors
  <2> QED
    BY <1>1, <1>4, <2>1, SameWork, SameSteps DEF generate_command
<1>5. ASSUME NEW o \in Operators, NEW p \in Payloads,
             \/ read_artifact(o, p) \/ supersede_artifact(o, p)
             \/ supersede_producing_job(o, p) \/ abort_command(o, p)
      PROVE  PipelineP!Next
  BY <1>2, <1>5, SameCommands
  DEF read_artifact, supersede_artifact, supersede_producing_job, abort_command
<1> QED
  BY <1>3, <1>4, <1>5 DEF Next, vars, generate, retry_failed_job, Tick

\* The same for the queue.
LEMMA SameClient ==
  /\ Queue!enqueue_job_inner(request, FALSE) => QueueP!Client
  /\ Queue!retry_failed_job(request) => QueueP!Client
  /\ Queue!supersede_ready_job(request) => QueueP!Client
<1>1. Queue!enqueue_job_inner(request, FALSE)
        => QueueP!enqueue_job_inner(request, FALSE)
  BY DEF
      Queue!enqueue_job_inner, QueueP!enqueue_job_inner, Queue!Forces,
      QueueP!Forces, Queue!Reset, QueueP!Reset, Queue!Attended, QueueP!Attended,
      Queue!Busy, QueueP!Busy, Queue!jobs, QueueP!jobs,
      Queue!worker, QueueP!worker, Queue!hist, QueueP!hist, Queue!budget,
      QueueP!budget
<1>2. Queue!retry_failed_job(request) => QueueP!retry_failed_job(request)
  BY DEF
      Queue!retry_failed_job, QueueP!retry_failed_job, Queue!RetryFailed,
      QueueP!RetryFailed, Queue!Reset, QueueP!Reset, Queue!Attended, QueueP!Attended,
      Queue!Busy, QueueP!Busy, Queue!jobs, QueueP!jobs,
      Queue!worker, QueueP!worker, Queue!hist, QueueP!hist, Queue!budget,
      QueueP!budget
<1>3. Queue!supersede_ready_job(request) => QueueP!supersede_ready_job(request)
  BY DEF
      Queue!supersede_ready_job, QueueP!supersede_ready_job, Queue!Close,
      QueueP!Close, Queue!jobs, QueueP!jobs, Queue!worker, QueueP!worker,
      Queue!hist, QueueP!hist, Queue!budget, QueueP!budget
<1> QED
  BY <1>1, <1>2, <1>3 DEF QueueP!Client

LEMMA SameWorker ==
  ASSUME NEW w \in Workers
  PROVE  /\ Queue!claim_next_job(w, request) => QueueP!claim_next_job(w, request)
         /\ \A result : Queue!execute_job(w, result) => QueueP!execute_job(w, result)
         /\ Queue!finish_job(w) => QueueP!finish_job(w)
         /\ \A delay \in 0 .. BackoffCap :
              Queue!record_job_failure(w, delay) => QueueP!record_job_failure(w, delay)
         /\ Queue!Crash(w) => QueueP!Crash(w)
<1>1. Queue!claim_next_job(w, request) => QueueP!claim_next_job(w, request)
  BY DEF
      Queue!claim_next_job, QueueP!claim_next_job, Queue!Busy, QueueP!Busy,
      Queue!Claimable, QueueP!Claimable, Queue!Precedes, QueueP!Precedes,
      Queue!FirstStep, QueueP!FirstStep, Queue!should_retire_legacy_export_job,
      QueueP!should_retire_legacy_export_job, Queue!jobs, QueueP!jobs,
      Queue!worker, QueueP!worker, Queue!hist, QueueP!hist, Queue!budget,
      QueueP!budget
<1>2. \A result : Queue!execute_job(w, result) => QueueP!execute_job(w, result)
  BY DEF
      Queue!execute_job, QueueP!execute_job, Queue!jobs, QueueP!jobs, Queue!worker,
      QueueP!worker, Queue!hist, QueueP!hist, Queue!budget, QueueP!budget
<1>3. Queue!finish_job(w) => QueueP!finish_job(w)
  BY DEF
      Queue!finish_job, QueueP!finish_job, Queue!Fence, QueueP!Fence, Queue!Close,
      QueueP!Close, Queue!Release, QueueP!Release, Queue!jobs, QueueP!jobs,
      Queue!worker, QueueP!worker, Queue!hist, QueueP!hist, Queue!budget,
      QueueP!budget
<1>4. ASSUME NEW delay \in 0 .. BackoffCap
      PROVE  Queue!record_job_failure(w, delay) => QueueP!record_job_failure(w, delay)
  BY DEF
      Queue!record_job_failure, QueueP!record_job_failure,
      Queue!retry_backoff_seconds, QueueP!retry_backoff_seconds, Queue!Fence,
      QueueP!Fence, Queue!Close, QueueP!Close, Queue!Release, QueueP!Release,
      Queue!jobs, QueueP!jobs, Queue!worker, QueueP!worker, Queue!hist,
      QueueP!hist, Queue!budget, QueueP!budget
<1>5. Queue!Crash(w) => QueueP!Crash(w)
  BY DEF
      Queue!Crash, QueueP!Crash, Queue!Busy, QueueP!Busy, Queue!Release,
      QueueP!Release, Queue!jobs, QueueP!jobs, Queue!worker, QueueP!worker,
      Queue!hist, QueueP!hist, Queue!budget, QueueP!budget
<1> QED
  BY <1>1, <1>2, <1>3, <1>4, <1>5

LEMMA SameTick == Queue!Tick => QueueP!Tick
  BY DEF
      Queue!Tick, QueueP!Tick, Queue!Down, QueueP!Down, Queue!RunningOut,
      QueueP!RunningOut, Queue!Timed, QueueP!Timed, Queue!StepLimit,
      QueueP!StepLimit, Queue!DbSteps, QueueP!DbSteps, Queue!Steps, QueueP!Steps,
      Queue!ProjectKeys, QueueP!ProjectKeys, Queue!Busy, QueueP!Busy, Queue!Fence,
      QueueP!Fence, Queue!jobs, QueueP!jobs, Queue!worker, QueueP!worker,
      Queue!hist, QueueP!hist, Queue!budget, QueueP!budget

LEMMA QueueSteps == [Next]_vars => [QueueP!Next]_QueueP!vars
<1> SUFFICES ASSUME [Next]_vars PROVE QueueP!Next \/ UNCHANGED queue
  BY DEF queue, QueueP!vars, QueueP!jobs, QueueP!worker, QueueP!hist, QueueP!budget
<1>1. QueueP!Client => QueueP!Next
  BY DEF QueueP!Next
<1>2. ASSUME NEW w \in Workers, claim_next_job(w) PROVE QueueP!Next
  BY <1>2, SameWorker DEF claim_next_job, QueueP!Next
<1>3. ASSUME NEW w \in Workers, execute(w) PROVE UNCHANGED queue
  BY <1>3 DEF execute
<1>4. ASSUME NEW w \in Workers, executed(w) PROVE QueueP!Next
  <2>1. QueueP!execute_job(w, step[w]) /\ step[w] \in {"ok", "err"}
    BY <1>4, SameWorker DEF executed, Pipeline!Return
  <2> QED
    BY <2>1 DEF QueueP!Next, QueueP!Proceed
<1>5. ASSUME NEW w \in Workers, settle(w) PROVE QueueP!Next
  BY <1>5, SameWorker DEF settle, QueueP!Next, QueueP!Proceed
<1>6. ASSUME NEW w \in Workers, crash(w) PROVE QueueP!Next
  BY <1>6, SameWorker DEF crash, QueueP!Next
<1>7. ASSUME NEW o \in Operators, NEW p \in Payloads,
             \/ read_artifact(o, p) \/ supersede_artifact(o, p)
             \/ supersede_producing_job(o, p) \/ abort_command(o, p)
      PROVE  QueueP!Next \/ UNCHANGED queue
  BY <1>1, <1>7, SameClient
  DEF read_artifact, supersede_artifact, supersede_producing_job, abort_command
<1> QED
  BY <1>1, <1>2, <1>3, <1>4, <1>5, <1>6, <1>7, SameClient, SameTick
  DEF Next, Proceed, vars, generate, retry_failed_job, generate_command, Tick, QueueP!Next

LEMMA InitsAgree == Init => QueueP!Init /\ PipelineP!Init
  BY DEF Init,
      Pipeline!Init, PipelineP!Init,
      Queue!Init, QueueP!Init, Queue!should_retire_legacy_export_job,
      QueueP!should_retire_legacy_export_job

\* The composition implements the job queue: whatever the pipeline and the
\* operators do in between, the row of the request and the workers take no
\* step that the queue alone would not.
THEOREM ImplementsQueue == Spec => QueueP!Spec
  BY InitsAgree, QueueSteps, PTL DEF Spec, QueueP!Spec

\* And it implements the export pipeline: a worker under its lease, a generate
\* command and an invalidation are executors and operators of the pipeline.
THEOREM ImplementsPipeline == Spec => PipelineP!Spec
  BY InitsAgree, PipelineSteps, PTL DEF Spec, PipelineP!Spec

\* The assumptions of the components hold of the composition's constants.
LEMMA ComponentAssumptions ==
  /\ QueueP!KeysAssumption /\ QueueP!TimingAssumption
  /\ PipelineP!PipelineAssumption
  BY RequestAssumption
  DEF QueueP!KeysAssumption, QueueP!TimingAssumption, PipelineP!PipelineAssumption,
      Executors

-----------------------------------------------------------------------------
(* A ready job is served.  Through the two refinements the invariants of   *)
(* the components are available: a worker holds its row while no lease     *)
(* lapses under it, executors do not cross invalidations while none        *)
(* overlap.  What is left relates the two tables.                          *)

LEMMA ComponentInvariants ==
  Spec => []( /\ QueueP!TypeOK /\ QueueP!WorkerHoldsRow
              /\ PipelineP!Strong /\ PipelineP!NothingCrosses )
  BY ComponentAssumptions, ImplementsQueue, ImplementsPipeline, QueueP!TypeCorrect,
     QueueP!HoldersInvariant, PipelineP!StrongInvariant,
     PipelineP!CrossingInvariant, PTL

\* An execution that ended well, or is about to, has an artifact to show.
Published ==
  \A e \in Executors :
    /\ step[e] = "ok" => Served
    /\ step[e] = "replace" => art[raw[e]] = "ready"

RequestInv ==
  /\ races \in {0, 1}
  /\ races = 0 => overlaps = 0 /\ strays = 0
  /\ Undisturbed =>
       /\ Published
       /\ \A w \in Workers : pc[w] = "ok" => Served
       /\ status[request] = "ready" =>
            Served \/ \E o \in Operators, p \in Payloads : command[o][p] = "written"

LEMMA InitRequestInv == Init => RequestInv
  BY DEF Init, RequestInv, Published, Queue!Init, Pipeline!Init,
         Queue!should_retire_legacy_export_job

\* What the components' invariants say of an executor.
LEMMA ExecutorFacts ==
  ASSUME PipelineP!Strong, PipelineP!NothingCrosses, overlaps = 0, strays = 0
  PROVE  /\ step \in [Executors -> PipelineP!Steps]
         /\ art \in [Payloads -> {"absent", "staged", "ready", "upload_failed",
                                  "superseded"}]
         /\ raw \in [Executors -> Payloads \cup {None}]
         /\ \A e \in Executors :
              step[e] \in {"stage", "upload", "publish", "unpublish", "replace"}
                => raw[e] \in Payloads
         /\ \A d, e \in Executors :
              {step[d], step[e]} \cap {"idle", "ok", "err"} = {} => d = e
         /\ \A e \in Executors :
              step[e] \in PipelineP!Steps \ {"idle", "check", "replace", "ok", "err"}
                => ~Served
  BY DEF PipelineP!Strong, PipelineP!NothingCrosses, PipelineP!TypeOK, PipelineP!Inv,
         PipelineP!Progress, PipelineP!HasRaw, PipelineP!HasLink, PipelineP!Sequential,
         PipelineP!Busy, PipelineP!Producing, Served

\* One step of an executor takes no artifact away that was served.
LEMMA ExecutorStep ==
  ASSUME PipelineP!Strong, PipelineP!NothingCrosses, overlaps = 0, strays = 0, Published,
         NEW e \in Executors,
         \/ PipelineP!begin(e) \/ PipelineP!Work(e) \/ PipelineP!Fail(e)
         \/ PipelineP!Leave(e)
  PROVE  Published' /\ (Served => Served') /\ UNCHANGED command
<1> USE ExecutorFacts
    DEF Published, Served, PipelineP!Steps, PipelineP!Goto, PipelineP!tables,
        PipelineP!store, PipelineP!operator
<1>1. CASE PipelineP!begin(e) \/ PipelineP!Fail(e) \/ PipelineP!Leave(e)
  BY <1>1 DEF PipelineP!begin, PipelineP!Fail, PipelineP!Leave
<1>2. CASE PipelineP!latest_ready_artifact_for_request(e)
  BY <1>2 DEF PipelineP!latest_ready_artifact_for_request
<1>3. ASSUME step' = [step EXCEPT ![e] = step'[e]], step'[e] \notin {"ok", "replace"},
             \A d \in Executors : d # e => raw'[d] = raw[d],
             UNCHANGED <<art, command>>
      PROVE  Published' /\ (Served => Served') /\ UNCHANGED command
  BY <1>3
<1>4. CASE PipelineP!execute_staged_export_request(e)
  BY <1>3, <1>4
  DEF PipelineP!execute_staged_export_request,
      PipelineP!latest_completed_translation_for_request,
      PipelineP!latest_translation_for_request, PipelineP!start_export_request,
      PipelineP!insert_translation_start, PipelineP!poll_translation,
      PipelineP!update_translation_final, PipelineP!existing_raw_payload_for_source,
      PipelineP!download_external_data, PipelineP!insert_raw_payload_if_absent,
      PipelineP!link_raw_payload_source
<1>5. CASE PipelineP!postprocess_artifact(e)
  BY <1>3, <1>5
  DEF PipelineP!postprocess_artifact, PipelineP!insert_postprocess_run_if_absent,
      PipelineP!transition_postprocess_run_status
<1>6. CASE PipelineP!put_bytes(e) \/ PipelineP!upload_error(e)
  BY <1>3, <1>6 DEF PipelineP!put_bytes, PipelineP!upload_error
<1>7. CASE PipelineP!stage_artifact(e) \/ PipelineP!mark_artifact_upload_failed(e)
  BY <1>7 DEF PipelineP!stage_artifact, PipelineP!mark_artifact_upload_failed
<1>8. CASE PipelineP!mark_artifact_set_ready(e)
  BY <1>8 DEF PipelineP!mark_artifact_set_ready
<1>9. CASE PipelineP!supersede_ready_artifacts_for_output(e)
  BY <1>9 DEF PipelineP!supersede_ready_artifacts_for_output
<1> QED
  BY <1>1, <1>2, <1>4, <1>5, <1>6, <1>7, <1>8, <1>9 DEF PipelineP!Work, PipelineP!publish

Components ==
  /\ QueueP!TypeOK /\ QueueP!WorkerHoldsRow
  /\ PipelineP!Strong /\ PipelineP!NothingCrosses

\* One set of one operator moves to another stage.
LEMMA StageChanges ==
  ASSUME NEW S, NEW f \in [Operators -> [Payloads -> S]], NEW o \in Operators,
         NEW p \in Payloads, NEW s \in S, NEW d \in Operators, NEW q \in Payloads
  PROVE  [f EXCEPT ![o][p] = s][d][q] = IF d = o /\ q = p THEN s ELSE f[d][q]
  OBVIOUS

LEMMA NextRequestInv == Components /\ RequestInv /\ [Next]_vars => RequestInv'
<1> SUFFICES ASSUME Components, RequestInv, [Next]_vars PROVE RequestInv'
  OBVIOUS
<1> DEFINE Related ==
      /\ Published
      /\ \A w \in Workers : pc[w] = "ok" => Served
      /\ status[request] = "ready" =>
           Served \/ \E o \in Operators, p \in Payloads : command[o][p] = "written"
<1>1. /\ pc \in [Workers -> QueueP!Steps \cup {"idle"}]
      /\ status \in [{request} -> {"absent", "queued", "running", "ready", "failed",
                                   "superseded"}]
      /\ overruns \in Nat
      /\ \A w \in Workers : pc[w] # "idle" => key[w] = request
  BY DEF Components, QueueP!TypeOK, QueueP!Busy
<1>2. /\ command \in [Operators -> [Payloads -> {"none", "read", "written"}]]
      /\ seen \in [Operators -> [Payloads -> {"none", "job"}]]
      /\ overlaps \in {0, 1}
  BY DEF Components, PipelineP!Strong, PipelineP!TypeOK, PipelineP!OperatorTypeOK
<1>3. races \in {0, 1} /\ (races = 0 => overlaps = 0 /\ strays = 0) /\ (Undisturbed => Related)
  BY DEF RequestInv
<1>4. SUFFICES /\ races' \in {0, 1} /\ (races' = 0 => overlaps' = 0 /\ strays' = 0)
               /\ Undisturbed' => Related'
  BY DEF RequestInv
<1>5. ASSUME NEW e \in Executors, overlaps = 0, strays = 0, Published,
             \/ PipelineP!begin(e) \/ PipelineP!Work(e) \/ PipelineP!Fail(e)
             \/ PipelineP!Return(e) \/ PipelineP!Crash(e) \/ PipelineP!Leave(e)
      PROVE  Published' /\ (Served => Served') /\ UNCHANGED command
  BY <1>5, ExecutorStep DEF Components, PipelineP!Return, PipelineP!Crash
\* A step of an executor under which the queue changes nothing of interest.
<1>6. ASSUME NEW e \in Executors,
             \/ PipelineP!begin(e) \/ PipelineP!Work(e) \/ PipelineP!Fail(e)
             \/ PipelineP!Return(e) \/ PipelineP!Crash(e) \/ PipelineP!Leave(e),
             Undisturbed,
             \A w \in Workers : pc'[w] = "ok" => pc[w] = "ok" \/ step[e] = "ok",
             status'[request] = "ready" => status[request] = "ready"
      PROVE  Related'
  BY <1>3, <1>5, <1>6 DEF Undisturbed, Published
<1>7. ASSUME NEW e \in Executors,
             \/ PipelineP!Work(e) \/ PipelineP!Fail(e) \/ PipelineP!Return(e)
             \/ PipelineP!Crash(e) \/ PipelineP!Leave(e)
      PROVE  UNCHANGED <<overlaps, strays>>
  BY <1>7
  DEF PipelineP!operator, PipelineP!Work, PipelineP!Fail, PipelineP!Return, PipelineP!Crash, PipelineP!Leave,
      PipelineP!latest_ready_artifact_for_request,
      PipelineP!execute_staged_export_request,
      PipelineP!latest_completed_translation_for_request,
      PipelineP!latest_translation_for_request, PipelineP!start_export_request,
      PipelineP!insert_translation_start, PipelineP!poll_translation,
      PipelineP!update_translation_final, PipelineP!existing_raw_payload_for_source,
      PipelineP!download_external_data, PipelineP!insert_raw_payload_if_absent,
      PipelineP!link_raw_payload_source, PipelineP!postprocess_artifact,
      PipelineP!insert_postprocess_run_if_absent,
      PipelineP!transition_postprocess_run_status, PipelineP!publish,
      PipelineP!stage_artifact, PipelineP!put_bytes, PipelineP!upload_error,
      PipelineP!mark_artifact_upload_failed, PipelineP!mark_artifact_set_ready,
      PipelineP!supersede_ready_artifacts_for_output
<1>8. ASSUME NEW e \in Executors, PipelineP!begin(e)
      PROVE  (overlaps' = 1 \/ UNCHANGED overlaps) /\ UNCHANGED strays
  BY <1>8 DEF PipelineP!begin, PipelineP!operator
<1>9. \A w \in Workers : w \in Executors
  BY DEF Executors
<1>10. \A c \in Commands : c \in Executors
  BY DEF Executors
<1> DEFINE Kept ==
      /\ races' \in {0, 1} /\ (races' = 0 => overlaps' = 0 /\ strays' = 0)
      /\ Undisturbed' => Related'
<1> HIDE DEF Related
<1>11. CASE generate \/ retry_failed_job
  <2>1. /\ status'[request] = "ready" => status[request] = "ready"
        /\ UNCHANGED <<pipeline, races, pc, overruns>>
    BY <1>1, <1>11
    DEF generate, retry_failed_job, Queue!enqueue_job_inner, Queue!retry_failed_job,
        Queue!RetryFailed, Queue!Reset, Queue!worker, Queue!budget
  <2> QED
    BY <1>3, <2>1 DEF pipeline, Related, Published, Served, Undisturbed
<1>12. ASSUME NEW w \in Workers, claim_next_job(w) PROVE Kept
  <2>1. PipelineP!begin(w) /\ races' = Met
    BY <1>9, <1>12, SameSteps DEF claim_next_job
  <2>2. /\ status'[request] = "running" /\ pc' = [pc EXCEPT ![w] = pc'[w]]
        /\ pc'[w] # "ok" /\ UNCHANGED overruns
    BY <1>1, <1>12 DEF claim_next_job, Queue!claim_next_job, Queue!FirstStep, Queue!budget
  <2>3. races' = 0 => races = 0 /\ overlaps' = 0 /\ strays' = 0
    BY <1>2, <1>3, <1>8, <1>9, <2>1 DEF Met
  <2> QED
    BY <1>1, <1>3, <1>6, <1>9, <2>1, <2>2, <2>3 DEF Met, Undisturbed
<1>13. ASSUME NEW w \in Workers, execute(w) PROVE Kept
  <2>1. PipelineP!Work(w) \/ PipelineP!Fail(w)
    BY <1>9, <1>13, SameWork, SameSteps DEF execute
  <2>2. UNCHANGED <<races, pc, status, overruns>>
    BY <1>13 DEF execute, queue
  <2> QED
    BY <1>3, <1>6, <1>7, <1>9, <2>1, <2>2 DEF Undisturbed
<1>14. ASSUME NEW w \in Workers, executed(w) PROVE Kept
  <2>1. PipelineP!Return(w)
    BY <1>9, <1>14, SameSteps DEF executed
  <2>2. UNCHANGED <<races, status, overruns>> /\ pc' = [pc EXCEPT ![w] = step[w]]
    BY <1>14 DEF executed, Queue!execute_job, Queue!jobs, Queue!budget
  <2> QED
    BY <1>1, <1>3, <1>6, <1>7, <1>9, <2>1, <2>2 DEF Undisturbed
<1>15. ASSUME NEW w \in Workers, settle(w) PROVE Kept
  <2>1. /\ UNCHANGED <<pipeline, races, overruns>>
        /\ \A v \in Workers : pc'[v] = "ok" => pc[v] = "ok"
        /\ status'[request] = "ready" => status[request] = "ready" \/ pc[w] = "ok"
    <3>1. CASE Queue!finish_job(w)
      BY <1>1, <1>15, <3>1
      DEF settle, Queue!finish_job, Queue!Close, Queue!Release, Queue!jobs, Queue!budget
    <3>2. ASSUME NEW delay \in 0 .. BackoffCap, Queue!record_job_failure(w, delay)
          PROVE  <2>1!1 /\ <2>1!2 /\ <2>1!3
      BY <1>1, <1>15, <3>2
      DEF settle, Queue!record_job_failure, Queue!Close, Queue!Release, Queue!jobs,
          Queue!budget
    <3> QED
      BY <1>15, <3>1, <3>2 DEF settle
  <2> QED
    BY <1>3, <2>1 DEF pipeline, Related, Published, Served, Undisturbed
<1>16. ASSUME NEW w \in Workers, crash(w) PROVE Kept
  <2>1. /\ UNCHANGED <<races, status, overruns>>
        /\ \A v \in Workers : pc'[v] = "ok" => pc[v] = "ok"
    BY <1>1, <1>16 DEF crash, Queue!Crash, Queue!Release, Queue!jobs
  <2>2. CASE UNCHANGED pipeline
    BY <1>3, <2>1, <2>2 DEF pipeline, Related, Published, Served, Undisturbed
  <2>3. CASE PipelineP!Return(w) \/ PipelineP!Crash(w)
    BY <1>3, <1>6, <1>7, <1>9, <2>1, <2>3 DEF Undisturbed
  <2> QED
    BY <1>9, <1>16, <2>2, <2>3, SameSteps DEF crash
<1>17. ASSUME NEW c \in Commands, generate_command(c) PROVE Kept
  <2>1. /\ \/ PipelineP!begin(c) \/ PipelineP!Work(c) \/ PipelineP!Fail(c)
           \/ PipelineP!Return(c) \/ PipelineP!Crash(c)
        /\ races' = Met /\ UNCHANGED <<pc, status, overruns>>
    BY <1>10, <1>17, SameWork, SameSteps DEF generate_command, queue
  <2>2. races' = 0 => races = 0 /\ overlaps' = 0 /\ strays' = 0
    BY <1>2, <1>3, <1>7, <1>8, <1>10, <2>1 DEF Met
  <2> QED
    BY <1>3, <1>6, <1>10, <2>1, <2>2 DEF Met, Undisturbed
<1>18. ASSUME NEW o \in Operators, NEW p \in Payloads, read_artifact(o, p) PROVE Kept
  <2>1. /\ command[o][p] = "none" /\ command' = [command EXCEPT ![o][p] = "read"]
        /\ UNCHANGED <<races, overruns, status, pc, step, art, raw, overlaps, strays>>
    BY <1>18 DEF read_artifact, queue, Pipeline!read_artifact, Pipeline!tables,
                 Pipeline!locals
  <2>2. \A d \in Operators, q \in Payloads :
          command[d][q] = "written" => command'[d][q] = "written"
    BY <1>2, <2>1, StageChanges
  <2> QED
    BY <1>3, <2>1, <2>2 DEF Related, Published, Served, Undisturbed
\* An invalidation that meets no execution: the job is not running, so no
\* worker is about to settle it, and the command still has to see to the job.
<1>19. ASSUME NEW o \in Operators, NEW p \in Payloads, supersede_artifact(o, p) PROVE Kept
  <2>1. /\ command' = [command EXCEPT ![o][p] = "written"]
        /\ races' = IF Working THEN 1 ELSE races
        /\ UNCHANGED <<overruns, status, pc, step, overlaps>>
        /\ Working \/ UNCHANGED strays
    BY <1>19 DEF supersede_artifact, queue, Pipeline!supersede_artifact_set,
                 Pipeline!Publishing, Pipeline!locals, Working
  <2>2. ASSUME ~Working, overruns = 0, NEW w \in Workers PROVE pc[w] # "ok"
    BY <1>1, <2>2 DEF Working, Components, QueueP!WorkerHoldsRow, QueueP!Busy,
                      QueueP!Fence
  <2>3. command'[o][p] = "written"
    BY <1>2, <2>1, StageChanges
  <2> QED
    BY <1>3, <2>1, <2>2, <2>3 DEF Related, Published, Working, Undisturbed
<1>20. ASSUME NEW o \in Operators, NEW p \in Payloads, supersede_producing_job(o, p) PROVE Kept
  <2>1. /\ status'[request] # "ready" \/ races' = 1
        /\ races' \in {1, races}
        /\ UNCHANGED <<overruns, pc, step, art, raw, overlaps, strays>>
    BY <1>1, <1>2, <1>20
    DEF supersede_producing_job, queue, Queue!supersede_ready_job, Queue!Close,
        Queue!worker, Queue!budget, Pipeline!end_command, Pipeline!tables,
        Pipeline!locals
  <2> QED
    BY <1>3, <2>1 DEF Related, Published, Served, Undisturbed
<1>21. ASSUME NEW o \in Operators, NEW p \in Payloads, abort_command(o, p) PROVE Kept
  BY <1>21 DEF abort_command, Undisturbed
<1>22. CASE Tick
  <2>1. /\ UNCHANGED <<pipeline, races, status, pc>>
        /\ overruns' = 0 => overruns = 0
    BY <1>1, <1>22 DEF Tick, Queue!Tick
  <2> QED
    BY <1>3, <2>1 DEF pipeline, Related, Published, Served, Undisturbed
<1>23. CASE UNCHANGED vars
  BY <1>3, <1>23 DEF vars, queue, pipeline, Related, Published, Served, Undisturbed
<1> QED
  BY <1>11, <1>12, <1>13, <1>14, <1>15, <1>16, <1>17, <1>18, <1>19, <1>20, <1>21,
     <1>22, <1>23 DEF Next, Proceed, Kept

\* A job that is ready has an artifact that is served, or an invalidation has
\* still to see to the job: for any number of workers, commands and
\* invalidations, as long as no lease runs out under a live worker, executors
\* do not overlap and invalidations are neither cut short nor meet an execution.
THEOREM ReadyJobsAreServed == Spec => []ReadyJobIsServed
<1>1. Spec => []Components
  BY ComponentInvariants DEF Components
<1>2. RequestInv => ReadyJobIsServed
  BY DEF RequestInv, ReadyJobIsServed, NoCommand
<1> QED
  BY <1>1, <1>2, InitRequestInv, NextRequestInv, PTL DEF Spec

\* The files of a ready job: there is one artifact set, every file of it and the
\* raw payload it was made of are in the object store, and the payload is that of a
\* translation recorded as DONE.
ReadyJobIsWhole ==
  (/\ Undisturbed
   /\ status[request] = "ready"
   /\ NoCommand)
  => \E p \in Payloads :
       /\ art[p] = "ready" /\ \A q \in Payloads : art[q] # "absent" => q = p
       /\ \A f \in 1 .. NFiles : <<p, f>> \in files
       /\ p \in rawObj /\ p \in rawRow
       /\ \E t \in Tids : link[t] = p /\ row[t] = "one"

\* What the queue says is ready, the pipeline has completed and the store holds;
\* the provisos are those of ReadyJobIsServed.
THEOREM ReadyJobsAreWhole == Spec => []ReadyJobIsWhole
<1>1. Spec => []Components
  BY ComponentInvariants DEF Components
<1>2. Spec => [](PipelineP!ReadyIsComplete /\ PipelineP!RetriesKeepArtifact)
  BY ComponentAssumptions, ImplementsPipeline, PipelineP!ReadySetsAreComplete,
     PipelineP!ArtifactIsKept, PTL
<1>3. ASSUME RequestInv, PipelineP!ReadyIsComplete, PipelineP!RetriesKeepArtifact
      PROVE  ReadyJobIsWhole
  <2> SUFFICES ASSUME Undisturbed, status[request] = "ready",
                      NoCommand
               PROVE  \E p \in Payloads :
                        /\ art[p] = "ready" /\ \A q \in Payloads : art[q] # "absent" => q = p
                        /\ \A f \in 1 .. NFiles : <<p, f>> \in files
                        /\ p \in rawObj /\ p \in rawRow
                        /\ \E t \in Tids : link[t] = p /\ row[t] = "one"
    BY DEF ReadyJobIsWhole
  <2>1. PICK p \in Payloads : art[p] = "ready"
    BY <1>3 DEF RequestInv, Served, NoCommand
  <2>2. \A q \in Payloads : art[q] # "absent" => q = p
    BY <1>3, <2>1 DEF RequestInv, Undisturbed, PipelineP!RetriesKeepArtifact
  <2> QED
    BY <1>3, <2>1, <2>2 DEF PipelineP!ReadyIsComplete
<1> QED
  BY <1>1, <1>2, <1>3, InitRequestInv, NextRequestInv, PTL DEF Spec

=============================================================================
