--------------------------- MODULE ExportPipeline ---------------------------
(***************************************************************************)
(* How one export request (a request_hash) becomes a published artifact:   *)
(* refresh_preview and refresh_download of src/main.rs over the            *)
(* translations, raw payloads, post-processing runs and artifact sets of   *)
(* src/db.rs, the object store and the Onshape translation service.        *)
(*                                                                         *)
(* An executor is a worker at the request's job, or a `previews generate`  *)
(* or `exports generate` command, which takes no lease: any number of them *)
(* may be at the same request at once.  Every await is a step.             *)
(*                                                                         *)
(* The hashes are what they identify.  A raw payload is its bytes; since   *)
(* the post-processor is a function of them, and the artifact key of the   *)
(* request, the payload and the post-processor, the runs and the artifact  *)
(* sets of the request are indexed by payload.                             *)
(***************************************************************************)
EXTENDS Integers

CONSTANTS
  Executors,       \* worker tasks and generate commands
  Workers,         \* those that run under a job and record it as producer
  Operators,       \* invalidate and prune commands, any number at once
  Tids,            \* bound: the translations Onshape will start
  Payloads,        \* raw payloads a download may return
  Fits,            \* those the post-processor accepts
  NFiles,          \* files of an artifact set: the primary and its sidecars
  None

ASSUME PipelineAssumption ==
  /\ Workers \subseteq Executors
  /\ Fits \subseteq Payloads
  /\ NFiles \in Nat \ {0}
  /\ None \notin Tids /\ None \notin Payloads

VARIABLES
  remote,      \* Onshape: the state of each translation
  row,         \* table translations: the state recorded for each
  newer,       \* its rows by updated_at: pairs of a later and an earlier one
  link,        \* table raw_payload_sources: the payload of each translation
  rawRow,      \* table raw_payloads
  rawObj,      \* object store: raw payloads
  post,        \* table postprocess_runs: status
  art,         \* table artifact_sets: status
  producer,    \* its producing_job_key
  files,       \* object store: the uploaded files of each artifact set
  pc, tid, raw, file,   \* locals of each executor
  command, seen,        \* each operator's command: the stage it is at for each
                        \* artifact set, and the producing_job_key it has read
  overlaps,    \* observation only: 1 once two executors overlapped
  strays       \* observation only: 1 once a command superseded a set that an
               \* executor was publishing anew

onshape == remote
tables == <<row, newer, link, rawRow, post, art, producer>>
store == <<rawObj, files>>
locals == <<pc, tid, raw, file>>
operator == <<command, seen, strays>>
vars == <<remote, tables, store, locals, operator, overlaps>>

-----------------------------------------------------------------------------
\* A translation that is DONE has produced one external data id ("one") or
\* another number of them ("many").
Done == {"one", "many"}

Busy(e) == pc[e] \notin {"idle", "ok", "err"}

Goto(e, step) == pc' = [pc EXCEPT ![e] = step]

Rows == {t \in Tids : row[t] # "absent"}
Completed == {t \in Tids : row[t] \in Done}

\* The row of t is updated after all others.
Touch(t) ==
  newer' = {pair \in newer : t \notin {pair[1], pair[2]}} \cup ({t} \X (Rows \ {t}))

\* t is the row of S with the latest updated_at.
Latest(t, S) == t \in S /\ \A u \in S \ {t} : <<t, u>> \in newer

Init ==
  /\ remote = [t \in Tids |-> "free"]
  /\ row = [t \in Tids |-> "absent"]
  /\ newer = {}
  /\ link = [t \in Tids |-> None]
  /\ rawRow = {}
  /\ rawObj = {}
  /\ post = [p \in Payloads |-> "absent"]
  /\ art = [p \in Payloads |-> "absent"]
  /\ producer = [p \in Payloads |-> "none"]
  /\ files = {}
  /\ pc = [e \in Executors |-> "idle"]
  /\ tid = [e \in Executors |-> None]
  /\ raw = [e \in Executors |-> None]
  /\ file = [e \in Executors |-> 1]
  /\ command = [o \in Operators |-> [p \in Payloads |-> "none"]]
  /\ seen = [o \in Operators |-> [p \in Payloads |-> "none"]]
  /\ overlaps = 0
  /\ strays = 0

-----------------------------------------------------------------------------
(* execute_job, generate_preview_for_values, generate_download_for_values. *)

\* Up to the look for a ready artifact nothing of the request is changed.
begin(e) ==
  /\ pc[e] = "idle"
  /\ Goto(e, "check")
  /\ overlaps' = IF \E d \in Executors : Busy(d) THEN 1 ELSE overlaps
  /\ UNCHANGED <<remote, tables, store, tid, raw, file, operator>>

latest_ready_artifact_for_request(e) ==
  /\ pc[e] = "check"
  /\ Goto(e, IF \E p \in Payloads : art[p] = "ready" THEN "ok" ELSE "completed")
  /\ UNCHANGED <<remote, tables, store, tid, raw, file, operator, overlaps>>

-----------------------------------------------------------------------------
(* execute_staged_export_request and start_and_download_translation.       *)

\* Mutant: completed translations are not looked for.
CompletedIgnored(e) ==
  /\ pc[e] = "completed"
  /\ Goto(e, "latest")
  /\ UNCHANGED <<remote, tables, store, tid, raw, file, operator, overlaps>>

latest_completed_translation_for_request(e) ==
  /\ pc[e] = "completed"
  /\ \/ \E t \in Tids :
          /\ Latest(t, Completed)
          /\ Goto(e, IF row[t] = "one" THEN "lookup" ELSE "err")
          /\ tid' = [tid EXCEPT ![e] = t]
     \/ Completed = {} /\ Goto(e, "latest") /\ UNCHANGED tid
  /\ UNCHANGED <<remote, tables, store, raw, file, operator, overlaps>>

\* Mutant: an active translation is not resumed.
LatestNotResumed(e) ==
  /\ pc[e] = "latest"
  /\ Goto(e, "start")
  /\ UNCHANGED <<remote, tables, store, tid, raw, file, operator, overlaps>>

\* A second query: a translation that became DONE since the first one is
\* final, and like a failed one it makes the executor start another.
latest_translation_for_request(e) ==
  /\ pc[e] = "latest"
  /\ \/ \E t \in Tids :
          /\ Latest(t, Rows)
          /\ Goto(e, IF row[t] = "active" THEN "repoll" ELSE "start")
          /\ tid' = [tid EXCEPT ![e] = t]
     \/ Rows = {} /\ Goto(e, "start") /\ UNCHANGED tid
  /\ UNCHANGED <<remote, tables, store, raw, file, operator, overlaps>>

start_export_request(e) ==
  /\ pc[e] = "start"
  /\ \E t \in Tids :
       /\ remote[t] = "free"
       /\ remote' = [remote EXCEPT ![t] = "active"]
       /\ tid' = [tid EXCEPT ![e] = t]
  /\ Goto(e, "insert")
  /\ UNCHANGED <<tables, store, raw, file, operator, overlaps>>

insert_translation_start(e) ==
  /\ pc[e] = "insert"
  /\ row' = [row EXCEPT ![tid[e]] = "active"]
  /\ Touch(tid[e])
  /\ Goto(e, "poll")
  /\ UNCHANGED <<remote, link, rawRow, post, art, producer, store, tid, raw, file,
                 operator, overlaps>>

\* The service settles the translation in one of three ways, and answers the
\* same to whoever asks later.  Running out of polls is one of the errors of
\* Fail below and leaves the row active.
poll_translation(e) ==
  /\ pc[e] \in {"poll", "repoll"}
  /\ \E s \in Done \cup {"FAILED"} :
       /\ remote[tid[e]] \in {"active", s}
       /\ remote' = [remote EXCEPT ![tid[e]] = s]
  /\ Goto(e, IF pc[e] = "poll" THEN "final" ELSE "refinal")
  /\ UNCHANGED <<tables, store, tid, raw, file, operator, overlaps>>

\* Only a resumed translation may already have a payload.
update_translation_final(e) ==
  /\ pc[e] \in {"final", "refinal"}
  /\ row' = [row EXCEPT ![tid[e]] = remote[tid[e]]]
  /\ Touch(tid[e])
  /\ Goto(e, IF remote[tid[e]] # "one" THEN "err"
             ELSE IF pc[e] = "refinal" THEN "lookup" ELSE "download")
  /\ UNCHANGED <<remote, link, rawRow, post, art, producer, store, tid, raw, file,
                 operator, overlaps>>

existing_raw_payload_for_source(e) ==
  /\ pc[e] = "lookup"
  /\ \/ link[tid[e]] = None /\ Goto(e, "download") /\ UNCHANGED raw
     \/ /\ link[tid[e]] # None
        /\ raw' = [raw EXCEPT ![e] = link[tid[e]]]
        /\ Goto(e, IF link[tid[e]] \in rawRow THEN "post" ELSE "err")
  /\ UNCHANGED <<remote, tables, store, tid, file, operator, overlaps>>

\* download_external_data and put_bytes.  That the same external data id
\* gives the same bytes twice is not assumed.
download_external_data(e) ==
  /\ pc[e] = "download"
  /\ \E p \in Payloads :
       /\ raw' = [raw EXCEPT ![e] = p]
       /\ rawObj' = rawObj \cup {p}
  /\ Goto(e, "record")
  /\ UNCHANGED <<remote, tables, files, tid, file, operator, overlaps>>

insert_raw_payload_if_absent(e) ==
  /\ pc[e] = "record"
  /\ rawRow' = rawRow \cup {raw[e]}
  /\ Goto(e, "link")
  /\ UNCHANGED <<remote, row, newer, link, post, art, producer, store, tid, raw,
                 file, operator, overlaps>>

\* Mutant: the conflict clause of the link takes the new payload.
LinkOverwrites(e) ==
  /\ pc[e] = "link"
  /\ link' = [link EXCEPT ![tid[e]] = raw[e]]
  /\ Goto(e, "post")
  /\ UNCHANGED <<remote, row, newer, rawRow, post, art, producer, store, tid, raw,
                 file, operator, overlaps>>

\* ON CONFLICT DO NOTHING, then a comparison with the payload linked before.
link_raw_payload_source(e) ==
  /\ pc[e] = "link"
  /\ link' = [link EXCEPT ![tid[e]] = IF @ = None THEN raw[e] ELSE @]
  /\ Goto(e, IF link[tid[e]] \in {None, raw[e]} THEN "post" ELSE "err")
  /\ UNCHANGED <<remote, row, newer, rawRow, post, art, producer, store, tid, raw,
                 file, operator, overlaps>>

-----------------------------------------------------------------------------
(* postprocess_preview_artifact and postprocess_download_artifact.         *)

insert_postprocess_run_if_absent(e) ==
  /\ pc[e] = "post"
  /\ post' = [post EXCEPT ![raw[e]] = IF @ = "absent" THEN "staged" ELSE @]
  /\ Goto(e, "process")
  /\ UNCHANGED <<remote, row, newer, link, rawRow, art, producer, store, tid, raw,
                 file, operator, overlaps>>

\* The bytes are read back and compared with their hash, then processed.
transition_postprocess_run_status(e) ==
  /\ pc[e] = "process"
  /\ raw[e] \in rawRow /\ raw[e] \in rawObj
  /\ post' = [post EXCEPT ![raw[e]] = IF raw[e] \in Fits THEN "ready" ELSE "failed"]
  /\ Goto(e, IF raw[e] \in Fits THEN "stage" ELSE "err")
  /\ UNCHANGED <<remote, row, newer, link, rawRow, art, producer, store, tid, raw,
                 file, operator, overlaps>>

-----------------------------------------------------------------------------
(* The publication: stage, upload, ready, replace.                         *)

\* Mutant: the upsert leaves the status of an existing row alone.
StageKeepsStatus(e) ==
  /\ pc[e] = "stage"
  /\ art' = [art EXCEPT ![raw[e]] = IF @ = "absent" THEN "staged" ELSE @]
  /\ Goto(e, "upload")
  /\ UNCHANGED <<remote, row, newer, link, rawRow, post, producer, store, tid, raw,
                 file, operator, overlaps>>

\* The upsert takes the row back to staged from whatever status it has.
stage_artifact(e) ==
  /\ pc[e] = "stage"
  /\ art' = [art EXCEPT ![raw[e]] = "staged"]
  /\ producer' = [producer EXCEPT ![raw[e]] = IF e \in Workers THEN "job" ELSE "none"]
  /\ file' = [file EXCEPT ![e] = 1]
  /\ Goto(e, "upload")
  /\ UNCHANGED <<remote, row, newer, link, rawRow, post, store, tid, raw, operator,
                 overlaps>>

\* Mutant: only the primary file is uploaded.
PutPrimaryOnly(e) ==
  /\ pc[e] = "upload"
  /\ files' = files \cup {<<raw[e], file[e]>>}
  /\ Goto(e, "publish")
  /\ UNCHANGED <<remote, tables, rawObj, tid, raw, file, operator, overlaps>>

\* put_bytes and verify_uploaded_artifact of one file after the other.
put_bytes(e) ==
  /\ pc[e] = "upload"
  /\ files' = files \cup {<<raw[e], file[e]>>}
  /\ \/ /\ file[e] < NFiles
        /\ file' = [file EXCEPT ![e] = @ + 1]
        /\ UNCHANGED pc
     \/ /\ file[e] = NFiles
        /\ Goto(e, "publish")
        /\ UNCHANGED file
  /\ UNCHANGED <<remote, tables, rawObj, tid, raw, operator, overlaps>>

\* An upload or its verification fails, with the object stored or not.
upload_error(e) ==
  /\ pc[e] = "upload"
  /\ files' \in {files, files \cup {<<raw[e], file[e]>>}}
  /\ Goto(e, "unpublish")
  /\ UNCHANGED <<remote, tables, rawObj, tid, raw, file, operator, overlaps>>

mark_artifact_upload_failed(e) ==
  /\ pc[e] = "unpublish"
  /\ art' = [art EXCEPT ![raw[e]] = "upload_failed"]
  /\ Goto(e, "err")
  /\ UNCHANGED <<remote, row, newer, link, rawRow, post, producer, store, tid, raw,
                 file, operator, overlaps>>

mark_artifact_set_ready(e) ==
  /\ pc[e] = "publish"
  /\ art' = [art EXCEPT ![raw[e]] = "ready"]
  /\ Goto(e, "replace")
  /\ UNCHANGED <<remote, row, newer, link, rawRow, post, producer, store, tid, raw,
                 file, operator, overlaps>>

supersede_ready_artifacts_for_output(e) ==
  /\ pc[e] = "replace"
  /\ art' = [p \in Payloads |->
               IF art[p] = "ready" /\ p # raw[e] THEN "superseded" ELSE art[p]]
  /\ Goto(e, "ok")
  /\ UNCHANGED <<remote, row, newer, link, rawRow, post, producer, store, tid, raw,
                 file, operator, overlaps>>

-----------------------------------------------------------------------------
\* Any call may fail, and its error ends the execution (an upload's by way of
\* upload_error).
Fail(e) ==
  /\ Busy(e) /\ pc[e] # "upload"
  /\ Goto(e, "err")
  /\ UNCHANGED <<remote, tables, store, tid, raw, file, operator, overlaps>>

\* The caller takes the result, or the process stops in the middle.
Leave(e) ==
  /\ pc' = [pc EXCEPT ![e] = "idle"]
  /\ tid' = [tid EXCEPT ![e] = None]
  /\ raw' = [raw EXCEPT ![e] = None]
  /\ file' = [file EXCEPT ![e] = 1]
  /\ UNCHANGED <<remote, tables, store, operator, overlaps>>

Return(e) == pc[e] \in {"ok", "err"} /\ Leave(e)
Crash(e) == Busy(e) /\ Leave(e)

-----------------------------------------------------------------------------
(* artifacts invalidate and artifacts prune: supersede_published_artifact. *)

\* Only ready artifact sets are listed; nothing keeps two commands from listing
\* the same one.
read_artifact(o, p) ==
  /\ command[o][p] = "none" /\ art[p] = "ready"
  /\ command' = [command EXCEPT ![o][p] = "read"]
  /\ seen' = [seen EXCEPT ![o][p] = producer[p]]
  /\ UNCHANGED <<remote, tables, store, locals, strays, overlaps>>

\* The steps at which an executor has staged a set and not yet settled its row.
Publishing == {"upload", "publish", "unpublish"}

\* The statement goes by the key alone: whatever became of the set since it was
\* listed, it is superseded, a set that is being published anew included.
supersede_artifact_set(o, p) ==
  /\ command[o][p] = "read"
  /\ art' = [art EXCEPT ![p] = "superseded"]
  /\ command' = [command EXCEPT ![o][p] = "written"]
  /\ strays' = IF \E e \in Executors : pc[e] \in Publishing /\ raw[e] = p
                 THEN 1 ELSE strays
  /\ UNCHANGED <<remote, row, newer, link, rawRow, post, producer, store, locals,
                 seen, overlaps>>

\* After the producing job, if any, was superseded too; or the command stops.
end_command(o, p) ==
  /\ command[o][p] # "none"
  /\ command' = [command EXCEPT ![o][p] = "none"]
  /\ seen' = [seen EXCEPT ![o][p] = "none"]
  /\ UNCHANGED <<remote, tables, store, locals, strays, overlaps>>

-----------------------------------------------------------------------------
execute_staged_export_request(e) ==
  \/ latest_completed_translation_for_request(e)
  \/ latest_translation_for_request(e)
  \/ start_export_request(e)
  \/ insert_translation_start(e)
  \/ poll_translation(e)
  \/ update_translation_final(e)
  \/ existing_raw_payload_for_source(e)
  \/ download_external_data(e)
  \/ insert_raw_payload_if_absent(e)
  \/ link_raw_payload_source(e)

postprocess_artifact(e) ==
  \/ insert_postprocess_run_if_absent(e)
  \/ transition_postprocess_run_status(e)

publish(e) ==
  \/ stage_artifact(e)
  \/ put_bytes(e)
  \/ upload_error(e)
  \/ mark_artifact_upload_failed(e)
  \/ mark_artifact_set_ready(e)
  \/ supersede_ready_artifacts_for_output(e)

\* What an executor does between its start and its result.
Work(e) ==
  \/ latest_ready_artifact_for_request(e)
  \/ execute_staged_export_request(e)
  \/ postprocess_artifact(e)
  \/ publish(e)

Operator ==
  \E o \in Operators, p \in Payloads :
    read_artifact(o, p) \/ supersede_artifact_set(o, p) \/ end_command(o, p)

Next ==
  \/ \E e \in Executors : begin(e) \/ Work(e) \/ Fail(e) \/ Return(e) \/ Crash(e)
  \/ Operator

Spec == Init /\ [][Next]_vars

-----------------------------------------------------------------------------
(* Properties.                                                             *)

Steps == {"idle", "check", "completed", "latest", "start", "insert", "poll",
          "repoll", "final", "refinal", "lookup", "download", "record", "link",
          "post", "process", "stage", "upload", "publish", "unpublish",
          "replace", "ok", "err"}

\* The part of the type invariant that is about the operators' commands.
OperatorTypeOK ==
  /\ command \in [Operators -> [Payloads -> {"none", "read", "written"}]]
  /\ seen \in [Operators -> [Payloads -> {"none", "job"}]]
  /\ strays \in {0, 1}

\* The tables and the executors' locals keep their types.
TypeOK ==
  /\ remote \in [Tids -> {"free", "active", "FAILED"} \cup Done]
  /\ row \in [Tids -> {"absent", "active", "FAILED"} \cup Done]
  /\ newer \subseteq Tids \X Tids
  /\ link \in [Tids -> Payloads \cup {None}]
  /\ rawRow \subseteq Payloads
  /\ rawObj \subseteq Payloads
  /\ post \in [Payloads -> {"absent", "staged", "ready", "failed"}]
  /\ art \in [Payloads -> {"absent", "staged", "ready", "upload_failed",
                           "superseded"}]
  /\ producer \in [Payloads -> {"none", "job"}]
  /\ files \subseteq Payloads \X (1 .. NFiles)
  /\ pc \in [Executors -> Steps]
  /\ tid \in [Executors -> Tids \cup {None}]
  /\ raw \in [Executors -> Payloads \cup {None}]
  /\ file \in [Executors -> 1 .. NFiles]
  /\ overlaps \in {0, 1}
  /\ OperatorTypeOK

\* A ready artifact set is complete, whoever else restaged, failed or
\* superseded it in the meantime: every file is in the object store, and so
\* is the raw payload it was derived from; its post-processing run is ready;
\* and the payload is linked to a translation that is recorded as DONE with
\* one result.
ReadyIsComplete ==
  \A p \in Payloads :
    art[p] = "ready" =>
      /\ \A f \in 1 .. NFiles : <<p, f>> \in files
      /\ p \in rawObj /\ p \in rawRow
      /\ post[p] = "ready"
      /\ \E t \in Tids : link[t] = p /\ row[t] = "one"

\* As long as no two executors overlap, crashes, timeouts and retries never
\* make the program ask Onshape for a second translation while one is
\* recorded that is active or done: it is polled again or its result reused.
RetriesReuseTranslation ==
  overlaps = 0 =>
    \A t, u \in Tids :
      row[t] \in Done \cup {"active"} /\ row[u] \in Done \cup {"active"} => t = u

\* As long as no two executors overlap, a request has one artifact set, even
\* if the download answers with other bytes when it is tried again: retries
\* republish it rather than replace it.
RetriesKeepArtifact ==
  overlaps = 0 =>
    \A p, q \in Payloads : art[p] # "absent" /\ art[q] # "absent" => p = q

\* The payload of a translation is fixed by the first executor that links
\* one; a payload that was downloaded again and differs is never taken.
LinksAreFinal == [][\A t \in Tids : link[t] # None => link'[t] = link[t]]_vars

\* What an operator invalidates stays so until it is generated anew: a
\* superseded set only ever goes back to staged, however many commands have
\* listed it and however late their statements come.  Two cases are excluded,
\* and in both the code does bring a superseded set back without staging it:
\* executors that overlap, and a second command that had listed the set before
\* it was generated anew and supersedes it while it is being published, where
\* mark_artifact_set_ready asks for no status.
SupersededIsRestaged ==
  [][\A p \in Payloads :
       overlaps' = 0 /\ strays' = 0 /\ art[p] = "superseded" /\ art'[p] # "superseded"
         => art'[p] = "staged"]_vars

=============================================================================
