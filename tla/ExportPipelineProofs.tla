------------------------ MODULE ExportPipelineProofs ------------------------
(***************************************************************************)
(* What ExportPipeline guarantees however many executors are at a request  *)
(* at once: a ready artifact set is complete, and the payload of a         *)
(* translation is never replaced.                                          *)
(*                                                                         *)
(* ReadyIsComplete is not inductive: mark_artifact_set_ready is            *)
(* unconditional, so what makes it right is what every executor has        *)
(* achieved on its way there, and that nobody can undo it.                 *)
(***************************************************************************)
EXTENDS ExportPipeline, TLAPS

\* Steps by what the executor holds when it is at them.
HasTid == {"insert", "poll", "repoll", "final", "refinal", "lookup", "download",
           "record", "link"}
HasOne == {"lookup", "download", "record", "link"}
HasLink == {"post", "process", "stage", "upload", "publish", "unpublish", "replace"}
HasRaw == {"record", "link"} \cup HasLink
HasRow == {"link"} \cup HasLink
HasPost == {"stage", "upload", "publish", "unpublish", "replace"}

\* The tables: what is recorded agrees with Onshape and stays true.
TablesAgree ==
  /\ \A t \in Tids : row[t] # "absent" => remote[t] # "free"
  /\ \A t \in Tids : row[t] = "one" => remote[t] = "one"
  /\ \A t \in Tids : link[t] # None =>
       row[t] = "one" /\ link[t] \in rawObj /\ link[t] \in rawRow
  /\ \A p \in Payloads : post[p] = "ready" => p \in Fits

\* A translation that was started is recorded by nobody else.
StartIsOwn ==
  \A e \in Executors : pc[e] = "insert" =>
    /\ row[tid[e]] = "absent" /\ remote[tid[e]] # "free"
    /\ \A d \in Executors : d # e /\ pc[d] = "insert" => tid[d] # tid[e]

\* The progress of an executor.
Progress ==
  \A e \in Executors :
    /\ pc[e] \in HasTid => tid[e] \in Tids
    /\ pc[e] \in {"poll", "repoll", "final", "refinal"} => row[tid[e]] # "absent"
    /\ pc[e] \in {"final", "refinal"} => remote[tid[e]] \in Done \cup {"FAILED"}
    /\ pc[e] \in HasOne => row[tid[e]] = "one"
    /\ pc[e] \in HasRaw => raw[e] \in Payloads /\ raw[e] \in rawObj
    /\ pc[e] \in HasRow => raw[e] \in rawRow
    /\ pc[e] \in HasLink => \E t \in Tids : link[t] = raw[e]
    /\ pc[e] \in HasPost => post[raw[e]] = "ready"
    /\ pc[e] = "upload" => \A f \in 1 .. NFiles : f < file[e] => <<raw[e], f>> \in files
    /\ pc[e] = "publish" => \A f \in 1 .. NFiles : <<raw[e], f>> \in files

Inv == TablesAgree /\ StartIsOwn /\ Progress /\ ReadyIsComplete

-----------------------------------------------------------------------------
(* Type correctness.                                                       *)

LEMMA InitType == Init => TypeOK
  BY PipelineAssumption DEF Init, TypeOK, OperatorTypeOK, Steps

\* Outside of the steps that hold a translation or a payload, a local may be
\* None: what the table updates need is in Progress.
LEMMA NextType == TypeOK /\ Progress /\ [Next]_vars => TypeOK'
<1> SUFFICES ASSUME TypeOK, Progress, [Next]_vars PROVE TypeOK'
  OBVIOUS
<1>0. UNCHANGED operator => OperatorTypeOK'
  BY DEF TypeOK, OperatorTypeOK, operator
<1> USE <1>0, PipelineAssumption DEF TypeOK, Goto, Steps, Done, tables, store, locals
<1> USE DEF Progress, HasTid, HasOne, HasRaw, HasRow, HasLink, HasPost
<1>1. ASSUME NEW e \in Executors, begin(e) PROVE TypeOK'
  BY <1>1 DEF begin
<1>2. ASSUME NEW e \in Executors, latest_ready_artifact_for_request(e)
      PROVE  TypeOK'
  BY <1>2 DEF latest_ready_artifact_for_request
<1>3. ASSUME NEW e \in Executors, latest_completed_translation_for_request(e)
      PROVE  TypeOK'
  BY <1>3 DEF latest_completed_translation_for_request, Latest, Completed
<1>4. ASSUME NEW e \in Executors, latest_translation_for_request(e)
      PROVE  TypeOK'
  BY <1>4 DEF latest_translation_for_request, Latest, Rows
<1>5. ASSUME NEW e \in Executors, start_export_request(e)
      PROVE  TypeOK'
  BY <1>5 DEF start_export_request
<1>6. ASSUME NEW e \in Executors, insert_translation_start(e)
      PROVE  TypeOK'
  BY <1>6 DEF insert_translation_start, Touch, Rows
<1>7. ASSUME NEW e \in Executors, poll_translation(e)
      PROVE  TypeOK'
  BY <1>7 DEF poll_translation
<1>8. ASSUME NEW e \in Executors, update_translation_final(e)
      PROVE  TypeOK'
  BY <1>8 DEF update_translation_final, Touch, Rows
<1>9. ASSUME NEW e \in Executors, existing_raw_payload_for_source(e)
      PROVE  TypeOK'
  BY <1>9 DEF existing_raw_payload_for_source
<1>10. ASSUME NEW e \in Executors, download_external_data(e)
      PROVE  TypeOK'
  BY <1>10 DEF download_external_data
<1>11. ASSUME NEW e \in Executors, insert_raw_payload_if_absent(e)
      PROVE  TypeOK'
  BY <1>11 DEF insert_raw_payload_if_absent
<1>12. ASSUME NEW e \in Executors, link_raw_payload_source(e)
      PROVE  TypeOK'
  BY <1>12 DEF link_raw_payload_source
<1>13. ASSUME NEW e \in Executors, insert_postprocess_run_if_absent(e)
      PROVE  TypeOK'
  BY <1>13 DEF insert_postprocess_run_if_absent
<1>14. ASSUME NEW e \in Executors, transition_postprocess_run_status(e)
      PROVE  TypeOK'
  BY <1>14 DEF transition_postprocess_run_status
<1>15. ASSUME NEW e \in Executors, stage_artifact(e)
      PROVE  TypeOK'
  BY <1>15 DEF stage_artifact
<1>16. ASSUME NEW e \in Executors, put_bytes(e)
      PROVE  TypeOK'
  BY <1>16 DEF put_bytes
<1>17. ASSUME NEW e \in Executors, upload_error(e)
      PROVE  TypeOK'
  BY <1>17 DEF upload_error
<1>18. ASSUME NEW e \in Executors, mark_artifact_upload_failed(e)
      PROVE  TypeOK'
  BY <1>18 DEF mark_artifact_upload_failed
<1>19. ASSUME NEW e \in Executors, mark_artifact_set_ready(e)
      PROVE  TypeOK'
  BY <1>19 DEF mark_artifact_set_ready
<1>20. ASSUME NEW e \in Executors, supersede_ready_artifacts_for_output(e)
      PROVE  TypeOK'
  BY <1>20 DEF supersede_ready_artifacts_for_output
<1>21. ASSUME NEW e \in Executors, Fail(e) PROVE TypeOK'
  BY <1>21 DEF Fail
<1>22. ASSUME NEW e \in Executors, Leave(e) PROVE TypeOK'
  BY <1>22 DEF Leave
<1>23. ASSUME NEW o \in Operators, NEW p \in Payloads, read_artifact(o, p) PROVE TypeOK'
  BY <1>23 DEF read_artifact, OperatorTypeOK
<1>24. ASSUME NEW o \in Operators, NEW p \in Payloads, supersede_artifact_set(o, p) PROVE TypeOK'
  BY <1>24 DEF supersede_artifact_set, OperatorTypeOK
<1>25. ASSUME NEW o \in Operators, NEW p \in Payloads, end_command(o, p) PROVE TypeOK'
  BY <1>25 DEF end_command, OperatorTypeOK
<1>26. CASE UNCHANGED vars
  BY <1>26 DEF vars
<1> QED
  BY <1>1, <1>2, <1>3, <1>4, <1>5, <1>6, <1>7, <1>8, <1>9,
     <1>10, <1>11, <1>12, <1>13, <1>14, <1>15, <1>16, <1>17, <1>18, <1>19,
     <1>20, <1>21, <1>22, <1>23, <1>24, <1>25, <1>26
     DEF Next, Work, execute_staged_export_request, postprocess_artifact,
         publish, Operator, Return, Crash

-----------------------------------------------------------------------------
(* The inductive invariant.                                                *)

LEMMA InitInv == Init => Inv
  BY PipelineAssumption
  DEF Init, Inv, TablesAgree, StartIsOwn, Progress, ReadyIsComplete, HasTid, HasOne,
      HasRaw, HasRow, HasLink, HasPost

LEMMA NextInv == TypeOK /\ Inv /\ [Next]_vars => Inv'
<1> SUFFICES ASSUME TypeOK, Inv, [Next]_vars PROVE Inv'
  OBVIOUS
<1> USE PipelineAssumption
    DEF TypeOK, Inv, Goto, Done, tables, store, locals, operator
<1> USE DEF TablesAgree, StartIsOwn, Progress, ReadyIsComplete, HasTid, HasOne, HasRaw,
            HasRow, HasLink, HasPost
<1>1. ASSUME NEW e \in Executors, begin(e) PROVE Inv'
  BY <1>1 DEF begin
<1>2. ASSUME NEW e \in Executors, latest_ready_artifact_for_request(e)
      PROVE  Inv'
  BY <1>2 DEF latest_ready_artifact_for_request
<1>3. ASSUME NEW e \in Executors, latest_completed_translation_for_request(e)
      PROVE  Inv'
  BY <1>3 DEF latest_completed_translation_for_request, Latest, Completed
<1>4. ASSUME NEW e \in Executors, latest_translation_for_request(e)
      PROVE  Inv'
  BY <1>4 DEF latest_translation_for_request, Latest, Rows
<1>5. ASSUME NEW e \in Executors, start_export_request(e)
      PROVE  Inv'
  BY <1>5 DEF start_export_request
<1>6. ASSUME NEW e \in Executors, insert_translation_start(e)
      PROVE  Inv'
  BY <1>6 DEF insert_translation_start
<1>7. ASSUME NEW e \in Executors, poll_translation(e)
      PROVE  Inv'
  BY <1>7 DEF poll_translation
<1>8. ASSUME NEW e \in Executors, update_translation_final(e)
      PROVE  Inv'
  BY <1>8 DEF update_translation_final
<1>9. ASSUME NEW e \in Executors, existing_raw_payload_for_source(e)
      PROVE  Inv'
  BY <1>9 DEF existing_raw_payload_for_source
<1>10. ASSUME NEW e \in Executors, download_external_data(e)
      PROVE  Inv'
  BY <1>10 DEF download_external_data
<1>11. ASSUME NEW e \in Executors, insert_raw_payload_if_absent(e)
      PROVE  Inv'
  BY <1>11 DEF insert_raw_payload_if_absent
<1>12. ASSUME NEW e \in Executors, link_raw_payload_source(e)
      PROVE  Inv'
  BY <1>12 DEF link_raw_payload_source
<1>13. ASSUME NEW e \in Executors, insert_postprocess_run_if_absent(e)
      PROVE  Inv'
  BY <1>13 DEF insert_postprocess_run_if_absent
<1>14. ASSUME NEW e \in Executors, transition_postprocess_run_status(e)
      PROVE  Inv'
  BY <1>14 DEF transition_postprocess_run_status
<1>15. ASSUME NEW e \in Executors, stage_artifact(e)
      PROVE  Inv'
  BY <1>15 DEF stage_artifact
<1>16. ASSUME NEW e \in Executors, put_bytes(e)
      PROVE  Inv'
  <2>1. TablesAgree'
    BY <1>16 DEF put_bytes
  <2>2. StartIsOwn'
    BY <1>16 DEF put_bytes
  <2>3. Progress'
    <3>1. CASE file[e] < NFiles
      <4>1. file'[e] = file[e] + 1 /\ pc' = pc /\ raw' = raw /\ files \subseteq files'
        BY <1>16, <3>1 DEF put_bytes
      <4>2. \A f \in 1 .. NFiles : f < file'[e] => f < file[e] \/ f = file[e]
        BY <4>1
      <4>3. \A f \in 1 .. NFiles : f < file'[e] => <<raw[e], f>> \in files'
        BY <1>16, <4>1, <4>2 DEF put_bytes
      <4> QED
        BY <1>16, <3>1, <4>1, <4>3 DEF put_bytes
    <3>2. CASE file[e] = NFiles
      <4>1. \A f \in 1 .. NFiles : f < file[e] \/ f = file[e]
        BY <3>2
      <4>2. \A f \in 1 .. NFiles : <<raw[e], f>> \in files'
        BY <1>16, <4>1 DEF put_bytes
      <4> QED
        BY <1>16, <3>2, <4>2 DEF put_bytes
    <3> QED
      BY <1>16, <3>1, <3>2 DEF put_bytes
  <2>4. ReadyIsComplete'
    BY <1>16 DEF put_bytes
  <2> QED
    BY <2>1, <2>2, <2>3, <2>4
<1>17. ASSUME NEW e \in Executors, upload_error(e)
      PROVE  Inv'
  BY <1>17 DEF upload_error
<1>18. ASSUME NEW e \in Executors, mark_artifact_upload_failed(e)
      PROVE  Inv'
  BY <1>18 DEF mark_artifact_upload_failed
<1>19. ASSUME NEW e \in Executors, mark_artifact_set_ready(e)
      PROVE  Inv'
  BY <1>19 DEF mark_artifact_set_ready
<1>20. ASSUME NEW e \in Executors, supersede_ready_artifacts_for_output(e)
      PROVE  Inv'
  BY <1>20 DEF supersede_ready_artifacts_for_output
<1>21. ASSUME NEW e \in Executors, Fail(e) PROVE Inv'
  BY <1>21 DEF Fail
<1>22. ASSUME NEW e \in Executors, Leave(e) PROVE Inv'
  BY <1>22 DEF Leave
<1>23. ASSUME NEW o \in Operators, NEW p \in Payloads, read_artifact(o, p) PROVE Inv'
  BY <1>23 DEF read_artifact
<1>24. ASSUME NEW o \in Operators, NEW p \in Payloads, supersede_artifact_set(o, p) PROVE Inv'
  BY <1>24 DEF supersede_artifact_set
<1>25. ASSUME NEW o \in Operators, NEW p \in Payloads, end_command(o, p) PROVE Inv'
  BY <1>25 DEF end_command
<1>26. CASE UNCHANGED vars
  BY <1>26 DEF vars
<1> QED
  BY <1>1, <1>2, <1>3, <1>4, <1>5, <1>6, <1>7, <1>8, <1>9, <1>10, <1>11,
     <1>12, <1>13, <1>14, <1>15, <1>16, <1>17, <1>18, <1>19, <1>20, <1>21,
     <1>22, <1>23, <1>24, <1>25, <1>26
     DEF Next, Work, execute_staged_export_request, postprocess_artifact,
         publish, Operator, Return, Crash

LEMMA LinkStep == TypeOK /\ [Next]_vars => \A t \in Tids : link[t] # None => link'[t] = link[t]
<1> SUFFICES ASSUME TypeOK, [Next]_vars, NEW t \in Tids, link[t] # None
             PROVE  link'[t] = link[t]
  OBVIOUS
<1> USE DEF TypeOK, tables, store, locals, operator
<1>1. ASSUME NEW e \in Executors, link_raw_payload_source(e)
      PROVE  link'[t] = link[t]
  BY <1>1 DEF link_raw_payload_source
<1>2. CASE UNCHANGED link
  BY <1>2
<1> QED
  BY <1>1, <1>2
  DEF Next, Operator, Work, execute_staged_export_request, postprocess_artifact,
      publish, Return, Crash, vars, begin, Fail, Leave, read_artifact,
      supersede_artifact_set, end_command,
      latest_ready_artifact_for_request,
      latest_completed_translation_for_request,
      latest_translation_for_request, start_export_request,
      insert_translation_start, poll_translation,
      update_translation_final, existing_raw_payload_for_source,
      download_external_data, insert_raw_payload_if_absent,
      insert_postprocess_run_if_absent, transition_postprocess_run_status,
      stage_artifact, put_bytes, upload_error,
      mark_artifact_upload_failed, mark_artifact_set_ready,
      supersede_ready_artifacts_for_output

-----------------------------------------------------------------------------
(* Executions that do not overlap.  An active row is the latest one, so a  *)
(* retry finds it; and it is only ever settled by the executor that polls  *)
(* it.                                                                     *)

Open == {t \in Tids : row[t] \in Done \cup {"active"}}

Sequential ==
  overlaps = 0 =>
    /\ \A d, e \in Executors : Busy(d) /\ Busy(e) => d = e
    /\ \A t, u \in Open : t = u
    /\ \A t, u \in Tids : <<t, u>> \in newer => <<u, t>> \notin newer
    /\ \A t \in Open : \A u \in Rows : row[t] = "active" /\ u # t => <<t, u>> \in newer
    /\ \A e \in Executors :
         /\ pc[e] = "latest" => Completed = {}
         /\ pc[e] \in {"start", "insert"} => Open = {}
         /\ pc[e] \in {"poll", "repoll", "final", "refinal"} => row[tid[e]] = "active"

ArtifactsAreLinked ==
  \A p \in Payloads :
    art[p] # "absent" \/ (\E o \in Operators : command[o][p] # "none")
      => \E t \in Tids : link[t] = p

LEMMA InitSequential == Init => Sequential /\ ArtifactsAreLinked
  BY DEF Init, Sequential, ArtifactsAreLinked, Busy, Open, Rows, Completed, Done

LEMMA NextSequential ==
  TypeOK /\ Inv /\ Sequential /\ [Next]_vars => Sequential'
<1> SUFFICES ASSUME TypeOK, Inv, Sequential, [Next]_vars PROVE Sequential'
  OBVIOUS
<1> USE PipelineAssumption DEF TypeOK, Goto, Done, tables, store, locals, operator
<1> USE DEF Sequential, Busy, Open, Rows, Completed, Inv, Progress, HasTid, StartIsOwn
<1>1. ASSUME NEW e \in Executors, begin(e) PROVE Sequential'
  BY <1>1 DEF begin
<1>2. ASSUME NEW e \in Executors, latest_ready_artifact_for_request(e)
      PROVE  Sequential'
  BY <1>2 DEF latest_ready_artifact_for_request
<1>3. ASSUME NEW e \in Executors, latest_completed_translation_for_request(e)
      PROVE  Sequential'
  BY <1>3 DEF latest_completed_translation_for_request, Latest
<1>4. ASSUME NEW e \in Executors, latest_translation_for_request(e)
      PROVE  Sequential'
  <2>1. \/ \E t \in Tids : /\ Latest(t, Rows)
                           /\ tid' = [tid EXCEPT ![e] = t]
                           /\ \/ row[t] = "active" /\ pc' = [pc EXCEPT ![e] = "repoll"]
                              \/ row[t] # "active" /\ pc' = [pc EXCEPT ![e] = "start"]
        \/ Rows = {} /\ pc' = [pc EXCEPT ![e] = "start"] /\ tid' = tid
    BY <1>4 DEF latest_translation_for_request
  <2>2. pc[e] = "latest" /\ UNCHANGED <<row, newer, overlaps>>
    BY <1>4 DEF latest_translation_for_request
  <2>3. ASSUME overlaps = 0, NEW t \in Tids, Latest(t, Rows), row[t] # "active"
        PROVE  Open = {}
    <3>1. \A u \in Open : row[u] = "active" /\ u # t /\ u \in Rows /\ <<t, u>> \in newer
      BY <2>2, <2>3 DEF Latest
    <3>2. \A u \in Open : <<u, t>> \in newer
      BY <2>3, <3>1 DEF Latest
    <3> QED
      BY <3>1, <3>2, <2>3
  <2>4. CASE Rows = {} /\ pc' = [pc EXCEPT ![e] = "start"] /\ tid' = tid
    BY <2>2, <2>4
  <2>5. ASSUME NEW t \in Tids, tid' = [tid EXCEPT ![e] = t],
               row[t] = "active", pc' = [pc EXCEPT ![e] = "repoll"]
        PROVE  Sequential'
    BY <2>2, <2>5
  <2>6. ASSUME NEW t \in Tids, Latest(t, Rows), tid' = [tid EXCEPT ![e] = t],
               row[t] # "active", pc' = [pc EXCEPT ![e] = "start"]
        PROVE  Sequential'
    BY <2>2, <2>3, <2>6
  <2> QED
    BY <2>1, <2>4, <2>5, <2>6
<1>5. ASSUME NEW e \in Executors, start_export_request(e)
      PROVE  Sequential'
  BY <1>5 DEF start_export_request
<1>6. ASSUME NEW e \in Executors, insert_translation_start(e)
      PROVE  Sequential'
  BY <1>6 DEF insert_translation_start, Touch
<1>7. ASSUME NEW e \in Executors, poll_translation(e)
      PROVE  Sequential'
  BY <1>7 DEF poll_translation
<1>8. ASSUME NEW e \in Executors, update_translation_final(e)
      PROVE  Sequential'
  BY <1>8 DEF update_translation_final, Touch
<1>9. ASSUME NEW e \in Executors, existing_raw_payload_for_source(e)
      PROVE  Sequential'
  BY <1>9 DEF existing_raw_payload_for_source
<1>10. ASSUME NEW e \in Executors, download_external_data(e)
      PROVE  Sequential'
  BY <1>10 DEF download_external_data
<1>11. ASSUME NEW e \in Executors, insert_raw_payload_if_absent(e)
      PROVE  Sequential'
  BY <1>11 DEF insert_raw_payload_if_absent
<1>12. ASSUME NEW e \in Executors, link_raw_payload_source(e)
      PROVE  Sequential'
  BY <1>12 DEF link_raw_payload_source
<1>13. ASSUME NEW e \in Executors, insert_postprocess_run_if_absent(e)
      PROVE  Sequential'
  BY <1>13 DEF insert_postprocess_run_if_absent
<1>14. ASSUME NEW e \in Executors, transition_postprocess_run_status(e)
      PROVE  Sequential'
  BY <1>14 DEF transition_postprocess_run_status
<1>15. ASSUME NEW e \in Executors, stage_artifact(e)
      PROVE  Sequential'
  BY <1>15 DEF stage_artifact
<1>16. ASSUME NEW e \in Executors, put_bytes(e)
      PROVE  Sequential'
  BY <1>16 DEF put_bytes
<1>17. ASSUME NEW e \in Executors, upload_error(e)
      PROVE  Sequential'
  BY <1>17 DEF upload_error
<1>18. ASSUME NEW e \in Executors, mark_artifact_upload_failed(e)
      PROVE  Sequential'
  BY <1>18 DEF mark_artifact_upload_failed
<1>19. ASSUME NEW e \in Executors, mark_artifact_set_ready(e)
      PROVE  Sequential'
  BY <1>19 DEF mark_artifact_set_ready
<1>20. ASSUME NEW e \in Executors, supersede_ready_artifacts_for_output(e)
      PROVE  Sequential'
  BY <1>20 DEF supersede_ready_artifacts_for_output
<1>21. ASSUME NEW e \in Executors, Fail(e) PROVE Sequential'
  BY <1>21 DEF Fail
<1>22. ASSUME NEW e \in Executors, Leave(e) PROVE Sequential'
  BY <1>22 DEF Leave
<1>23. CASE Operator
  BY <1>23 DEF Operator, read_artifact, supersede_artifact_set, end_command
<1>24. CASE UNCHANGED vars
  BY <1>24 DEF vars
<1> QED
  BY <1>1, <1>2, <1>3, <1>4, <1>5, <1>6, <1>7, <1>8, <1>9, <1>10, <1>11,
     <1>12, <1>13, <1>14, <1>15, <1>16, <1>17, <1>18, <1>19, <1>20, <1>21,
     <1>22, <1>23, <1>24
     DEF Next, Work, execute_staged_export_request, postprocess_artifact,
         publish, Return, Crash


\* A command that moves on with one set leaves the others where they are.
LEMMA OtherSet ==
  ASSUME NEW S, NEW f \in [Operators -> [Payloads -> S]], NEW o \in Operators,
         NEW q \in Payloads, NEW s \in S, NEW d \in Operators, NEW p \in Payloads, p # q
  PROVE  [f EXCEPT ![o][q] = s][d][p] = f[d][p]
  OBVIOUS

LEMMA NextLinked ==
  TypeOK /\ Inv /\ ArtifactsAreLinked /\ [Next]_vars => ArtifactsAreLinked'
<1> SUFFICES ASSUME TypeOK, Inv, ArtifactsAreLinked, [Next]_vars,
                    NEW p \in Payloads,
                    \/ art'[p] # "absent"
                    \/ \E o \in Operators : command'[o][p] # "none"
             PROVE  \E t \in Tids : link'[t] = p
  BY DEF ArtifactsAreLinked
<1>1. ASSUME NEW t \in Tids, link[t] = p PROVE link'[t] = p
  BY <1>1, LinkStep, PipelineAssumption
<1>2. CASE art[p] # "absent" \/ \E o \in Operators : command[o][p] # "none"
  BY <1>1, <1>2 DEF ArtifactsAreLinked
<1>3. ASSUME NEW e \in Executors, pc[e] \in HasPost, raw[e] = p
      PROVE  \E t \in Tids : link[t] = p
  BY <1>3 DEF Inv, Progress, HasPost, HasLink
<1>4. ASSUME art[p] = "absent", \A o \in Operators : command[o][p] = "none"
      PROVE  \E e \in Executors : pc[e] \in HasPost /\ raw[e] = p
  <2> USE DEF TypeOK, tables, store, locals, operator, HasPost
  <2>1. CASE \E e \in Executors :
               stage_artifact(e) \/ mark_artifact_upload_failed(e)
                 \/ mark_artifact_set_ready(e)
    BY <1>4, <2>1 DEF stage_artifact, mark_artifact_upload_failed,
                      mark_artifact_set_ready
  <2>2. CASE \E e \in Executors : supersede_ready_artifacts_for_output(e)
    BY <1>4, <2>2 DEF supersede_ready_artifacts_for_output
  <2>3. CASE Operator
    <3>1. PICK o \in Operators, q \in Payloads :
            read_artifact(o, q) \/ supersede_artifact_set(o, q) \/ end_command(o, q)
      BY <2>3 DEF Operator
    <3>2. q # p
      BY <1>4, <3>1 DEF read_artifact, supersede_artifact_set, end_command
    <3>3. art'[p] = art[p]
      BY <3>1, <3>2 DEF read_artifact, supersede_artifact_set, end_command
    <3>4. command \in [Operators -> [Payloads -> {"none", "read", "written"}]]
      BY DEF OperatorTypeOK
    <3>5. PICK s \in {"none", "read", "written"} : command' = [command EXCEPT ![o][q] = s]
      BY <3>1 DEF read_artifact, supersede_artifact_set, end_command
    <3>6. \A d \in Operators : command'[d][p] = "none"
      BY <1>4, <3>2, <3>4, <3>5, OtherSet
    <3> QED
      BY <1>4, <3>3, <3>6
  <2>4. CASE UNCHANGED <<art, command>>
    BY <1>4, <2>4
  <2> QED
    BY <2>1, <2>2, <2>3, <2>4
    DEF Next, Work, execute_staged_export_request, postprocess_artifact, publish,
      Return, Crash, vars, begin, Fail, Leave,
      latest_ready_artifact_for_request, latest_completed_translation_for_request,
      latest_translation_for_request, start_export_request, insert_translation_start,
      poll_translation, update_translation_final, existing_raw_payload_for_source,
      download_external_data, insert_raw_payload_if_absent, link_raw_payload_source,
      insert_postprocess_run_if_absent, transition_postprocess_run_status, put_bytes,
      upload_error
<1> QED
  BY <1>1, <1>2, <1>3, <1>4

\* All invariants together.
Strong == TypeOK /\ Inv /\ Sequential /\ ArtifactsAreLinked

LEMMA StrongInvariant == Spec => []Strong
<1>1. Init => Strong
  BY InitType, InitInv, InitSequential DEF Strong
<1>2. Strong /\ [Next]_vars => Strong'
  BY NextType, NextInv, NextSequential, NextLinked DEF Strong, Inv
<1> QED
  BY <1>1, <1>2, PTL DEF Spec

-----------------------------------------------------------------------------
(* The theorems.                                                           *)

\* The tables, the object store and the executors' locals keep their types.
THEOREM TypeCorrect == Spec => []TypeOK
<1>1. Strong => TypeOK
  BY DEF Strong
<1> QED
  BY <1>1, StrongInvariant, PTL

\* Whatever executors, crashes, errors and operators do, in any number and at
\* any time: a ready artifact set has all its files and its whole provenance.
THEOREM ReadySetsAreComplete == Spec => []ReadyIsComplete
<1>1. Strong => ReadyIsComplete
  BY DEF Strong, Inv
<1> QED
  BY <1>1, StrongInvariant, PTL

\* No executor ever replaces the payload of a translation.
THEOREM PayloadsStayLinked == Spec => LinksAreFinal
<1>1. Strong /\ [Next]_vars
        => [\A t \in Tids : link[t] # None => link'[t] = link[t]]_vars
  BY LinkStep DEF Strong
<1> QED
  BY <1>1, StrongInvariant, PTL DEF Spec, LinksAreFinal

\* Retries, crashes and timeouts, any number of them, do not make the program
\* ask for a second translation while one is active or done, unless executors
\* overlap.
THEOREM TranslationIsReused == Spec => []RetriesReuseTranslation
<1>1. Strong => RetriesReuseTranslation
  BY DEF Strong, Sequential, Open, RetriesReuseTranslation
<1> QED
  BY <1>1, StrongInvariant, PTL

\* Nor do they give the request a second artifact set: an artifact set is
\* linked to a translation that is done, and there is only one.
THEOREM ArtifactIsKept == Spec => []RetriesKeepArtifact
<1>1. Strong => RetriesKeepArtifact
  <2> SUFFICES ASSUME Strong, overlaps = 0, NEW p \in Payloads, NEW q \in Payloads,
                      art[p] # "absent", art[q] # "absent"
               PROVE  p = q
    BY DEF RetriesKeepArtifact
  <2>1. PICK t \in Tids : link[t] = p
    BY DEF Strong, ArtifactsAreLinked
  <2>2. PICK u \in Tids : link[u] = q
    BY DEF Strong, ArtifactsAreLinked
  <2>3. t \in Open /\ u \in Open
    BY <2>1, <2>2, PipelineAssumption DEF Strong, Inv, TablesAgree, Open, Done
  <2> QED
    BY <2>1, <2>2, <2>3 DEF Strong, Sequential
<1> QED
  BY <1>1, StrongInvariant, PTL

-----------------------------------------------------------------------------
(* Invalidation.  Without overlaps an executor that found no set ready is  *)
(* the only one that can make one so, and the row it has staged is its own *)
(* until it settles it, unless a command with an old listing supersedes it *)
(* in between.                                                             *)

\* The steps from the answer that no artifact is ready to the publication.
Producing == Steps \ {"idle", "check", "replace", "ok", "err"}

NothingCrosses ==
  overlaps = 0 /\ strays = 0 =>
    /\ \A e \in Executors :
         pc[e] \in Producing => \A p \in Payloads : art[p] # "ready"
    /\ \A e \in Executors : pc[e] \in Publishing => art[raw[e]] = "staged"

LEMMA InitNothingCrosses == Init => NothingCrosses
  BY DEF Init, NothingCrosses, Producing, Publishing

\* Without overlaps all payloads that are linked are one.
LEMMA OneLink ==
  ASSUME Inv, TypeOK, Sequential, overlaps = 0,
         NEW t \in Tids, NEW u \in Tids, link[t] # None, link[u] # None
  PROVE  t = u
  BY DEF Inv, TablesAgree, Sequential, Open, Done

LEMMA NextNothingCrosses ==
  Strong /\ NothingCrosses /\ [Next]_vars => NothingCrosses'
<1> SUFFICES ASSUME Strong, NothingCrosses, [Next]_vars, overlaps' = 0, strays' = 0
             PROVE  NothingCrosses'
  BY DEF NothingCrosses
<1>1. overlaps = 0 /\ strays = 0
  <2>1. CASE \E e \in Executors : begin(e)
    BY <2>1 DEF begin, operator, Strong, TypeOK
  <2>2. CASE UNCHANGED <<overlaps, strays>>
    BY <2>2
  <2>3. CASE \E o \in Operators, p \in Payloads : supersede_artifact_set(o, p)
    BY <2>3 DEF supersede_artifact_set, Strong, TypeOK
  <2> QED
    BY <2>1, <2>2, <2>3
    DEF Next, Operator, Work, execute_staged_export_request, postprocess_artifact,
      publish, Return, Crash, vars, Fail, Leave, read_artifact,
      end_command, operator, latest_ready_artifact_for_request,
      latest_completed_translation_for_request, latest_translation_for_request,
      start_export_request, insert_translation_start, poll_translation,
      update_translation_final, existing_raw_payload_for_source,
      download_external_data, insert_raw_payload_if_absent, link_raw_payload_source,
      insert_postprocess_run_if_absent, transition_postprocess_run_status,
      stage_artifact, put_bytes, upload_error, mark_artifact_upload_failed,
      mark_artifact_set_ready, supersede_ready_artifacts_for_output
<1>2. \A d, e \in Executors : Busy(d) /\ Busy(e) => d = e
  BY <1>1 DEF Strong, Sequential
<1>3. TypeOK /\ \A e \in Executors : pc[e] \in HasRaw => raw[e] \in Payloads
  BY DEF Strong, Inv, Progress
<1> USE <1>1, PipelineAssumption
    DEF TypeOK, NothingCrosses, Goto, Producing, Publishing, Steps, tables, store, locals,
        operator
\* Steps before the artifact set is staged, which leave its row alone.
<1>4. ASSUME NEW e \in Executors, pc[e] \in Producing \ Publishing,
             pc' = [pc EXCEPT ![e] = pc'[e]], pc'[e] \notin Publishing,
             \A d \in Executors : d # e => raw'[d] = raw[d],
             UNCHANGED <<art, command>>
      PROVE  NothingCrosses'
  BY <1>3, <1>4
<1>5. ASSUME NEW e \in Executors, begin(e) PROVE NothingCrosses'
  BY <1>3, <1>5 DEF begin
<1>6. ASSUME NEW e \in Executors, latest_ready_artifact_for_request(e)
      PROVE  NothingCrosses'
  BY <1>3, <1>6 DEF latest_ready_artifact_for_request
<1>7. ASSUME NEW e \in Executors, execute_staged_export_request(e)
      PROVE  NothingCrosses'
  BY <1>3, <1>4, <1>7
  DEF execute_staged_export_request, latest_completed_translation_for_request,
      latest_translation_for_request, start_export_request, insert_translation_start,
      poll_translation, update_translation_final, existing_raw_payload_for_source,
      download_external_data, insert_raw_payload_if_absent, link_raw_payload_source
<1>8. ASSUME NEW e \in Executors, postprocess_artifact(e) PROVE NothingCrosses'
  BY <1>3, <1>4, <1>8
  DEF postprocess_artifact, insert_postprocess_run_if_absent,
      transition_postprocess_run_status
<1>9. ASSUME NEW e \in Executors, stage_artifact(e) PROVE NothingCrosses'
  BY <1>2, <1>3, <1>9 DEF stage_artifact, HasRaw, HasLink, Busy
<1>10. ASSUME NEW e \in Executors, put_bytes(e) \/ upload_error(e)
       PROVE  NothingCrosses'
  BY <1>3, <1>10 DEF put_bytes, upload_error
<1>11. ASSUME NEW e \in Executors, mark_artifact_upload_failed(e)
       PROVE  NothingCrosses'
  BY <1>2, <1>3, <1>11 DEF mark_artifact_upload_failed, HasRaw, HasLink, Busy
<1>12. ASSUME NEW e \in Executors, mark_artifact_set_ready(e)
       PROVE  NothingCrosses'
  BY <1>2, <1>3, <1>12 DEF mark_artifact_set_ready, HasRaw, HasLink, Busy
<1>13. ASSUME NEW e \in Executors, supersede_ready_artifacts_for_output(e)
       PROVE  NothingCrosses'
  <2>1. pc[e] = "replace" /\ pc' = [pc EXCEPT ![e] = "ok"] /\ raw[e] \in Payloads
        /\ UNCHANGED <<raw, command>>
    BY <1>3, <1>13 DEF supersede_ready_artifacts_for_output, HasRaw, HasLink
  <2>2. ASSUME NEW p \in Payloads, art[p] = "ready" PROVE p = raw[e]
    <3>1. PICK t \in Tids : link[t] = raw[e]
      BY <2>1 DEF Strong, Inv, Progress, HasLink
    <3>2. PICK u \in Tids : link[u] = p
      BY <2>2 DEF Strong, ArtifactsAreLinked
    <3>3. t = u
      BY <2>1, <3>1, <3>2, OneLink DEF Strong
    <3> QED
      BY <3>1, <3>2, <3>3
  <2>3. UNCHANGED art
    BY <1>3, <1>13, <2>2 DEF supersede_ready_artifacts_for_output
  <2> QED
    BY <1>3, <2>1, <2>3
<1>14. ASSUME NEW e \in Executors, Fail(e) \/ Leave(e) PROVE NothingCrosses'
  BY <1>3, <1>14 DEF Fail, Leave
<1>15. ASSUME NEW o \in Operators, NEW p \in Payloads, read_artifact(o, p) \/ end_command(o, p)
       PROVE  NothingCrosses'
  BY <1>3, <1>15 DEF read_artifact, end_command
<1>16. ASSUME NEW o \in Operators, NEW p \in Payloads, supersede_artifact_set(o, p) PROVE NothingCrosses'
  BY <1>3, <1>16 DEF supersede_artifact_set
<1>17. CASE UNCHANGED vars
  BY <1>17 DEF vars
<1> QED
  BY <1>5, <1>6, <1>7, <1>8, <1>9, <1>10, <1>11, <1>12, <1>13, <1>14, <1>15,
     <1>16, <1>17
  DEF Next, Work, publish, Operator, Return, Crash

LEMMA CrossingInvariant == Spec => []NothingCrosses
  BY InitNothingCrosses, NextNothingCrosses, StrongInvariant, PTL DEF Spec

\* What an operator invalidated is only ever made ready by a publication that
\* staged it anew: for any number of operator commands on the same set, in any
\* order, unless executors overlapped or a command superseded the set while it
\* was being published.
THEOREM InvalidationHolds == Spec => SupersededIsRestaged
<1>1. Strong /\ NothingCrosses /\ [Next]_vars
        => [\A p \in Payloads :
              overlaps' = 0 /\ strays' = 0 /\ art[p] = "superseded" /\ art'[p] # "superseded"
                => art'[p] = "staged"]_vars
  <2> SUFFICES ASSUME Strong, NothingCrosses, [Next]_vars, NEW p \in Payloads,
                      overlaps' = 0, strays' = 0,
                      art[p] = "superseded", art'[p] # "superseded"
               PROVE  art'[p] = "staged"
    OBVIOUS
  <2> USE DEF Strong, TypeOK, tables, store, locals, operator
  <2>1. ASSUME NEW e \in Executors,
               mark_artifact_upload_failed(e) \/ mark_artifact_set_ready(e)
        PROVE  FALSE
    <3>1. overlaps = 0 /\ strays = 0 /\ pc[e] \in Publishing /\ raw[e] = p
      BY <2>1 DEF mark_artifact_upload_failed, mark_artifact_set_ready, Publishing
    <3> QED
      BY <3>1 DEF NothingCrosses
  <2>2. ASSUME NEW e \in Executors, stage_artifact(e) PROVE art'[p] = "staged"
    BY <2>2 DEF stage_artifact
  <2>3. ASSUME NEW e \in Executors, supersede_ready_artifacts_for_output(e)
        PROVE  FALSE
    BY <2>3 DEF supersede_ready_artifacts_for_output
  <2>4. ASSUME NEW o \in Operators, NEW q \in Payloads, supersede_artifact_set(o, q) PROVE FALSE
    BY <2>4 DEF supersede_artifact_set
  <2>5. art' # art
    OBVIOUS
  <2> QED
    BY <2>1, <2>2, <2>3, <2>4, <2>5
    DEF Next, Operator, Work, execute_staged_export_request, postprocess_artifact,
      publish, Return, Crash, vars, begin, Fail, Leave, read_artifact,
      end_command, latest_ready_artifact_for_request,
      latest_completed_translation_for_request, latest_translation_for_request,
      start_export_request, insert_translation_start, poll_translation,
      update_translation_final, existing_raw_payload_for_source,
      download_external_data, insert_raw_payload_if_absent, link_raw_payload_source,
      insert_postprocess_run_if_absent, transition_postprocess_run_status,
      put_bytes, upload_error
<1> QED
  BY <1>1, CrossingInvariant, StrongInvariant, PTL DEF Spec, SupersededIsRestaged

=============================================================================
