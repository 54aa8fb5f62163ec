------------------------- MODULE BambuProjectProofs -------------------------
(***************************************************************************)
(* Proofs about BambuProject, for any sets of requests, recipes and bytes  *)
(* and any bounds.                                                         *)
(*                                                                         *)
(* The argument: an execution acquires only while its request is unbound,  *)
(* and holds a checkpoint that is in the directory from the rename, and    *)
(* durable from the sync, to the binding (Steps).  It publishes only what  *)
(* its request is bound to (Publishing), so that what a set declares is    *)
(* the checkpoint of the request that declared it.  Sets move forward      *)
(* only: what was published is ready, withdrawn or superseded for ever,    *)
(* and a job ends without a failure only then (Ended).                     *)
(*                                                                         *)
(* The steps are also steps of GeneratorPublication, whose theorems then   *)
(* hold of the projects (PublicationP).                                    *)
(***************************************************************************)
EXTENDS BambuProject, TLAPS

\* A set that has been published.
Past == {"ready", "upload_failed", "superseded"}

PublicationSteps ==
  {"idle", "stage", "load", "upload", "verify", "recheck", "cleanup", "complete",
   "withdraw", "discard", "ok", "err"}

\* The part of the publication's state that the argument is about.
PublicationType ==
  /\ status \in [Recipes -> {"absent", "staged"} \cup Past]
  /\ declared \in [Recipes -> (Bytes \X Requests) \cup {None}]
  /\ pc \in [Requests -> PublicationSteps]
  /\ recipe \in [Requests -> Recipes \cup {None}]
  /\ output \in [Requests -> (Bytes \X Requests) \cup {None}]

Rows ==
  \A r \in Recipes :
    /\ status[r] = "absent" <=> declared[r] = None
    /\ r \in listed => status[r] # "absent"

Steps ==
  \A q \in Requests :
    /\ at[q] \in {"acquire", "persist", "sync", "bind"} => bound[q] = None
    /\ at[q] \in {"publish", "reconcile", "reopen", "finish"} => bound[q] # None
    /\ at[q] = "sync" => disk[made[q]] # "absent"
    /\ at[q] = "bind" => disk[made[q]] = "durable"

Publishing ==
  \A q \in Requests :
    /\ pc[q] # "idle" => recipe[q] = bound[q][1]
    /\ pc[q] = "stage" => output[q] = <<bound[q][2], q>>
    /\ pc[q] = "ok" => status[recipe[q]] \in Past

Published(q) == bound[q] # None /\ status[bound[q][1]] \in Past

Ended ==
  \A q \in Requests :
    \/ at[q] = "finish"
    \/ category[q] = "none" /\ (at[q] = "ok" \/ job[q] = "ready")
    => Published(q)

Inv ==
  /\ TypeOK /\ PublicationType /\ Rows /\ Steps /\ Publishing /\ Ended
  /\ BoundIsDurable /\ PublishedWasAccepted

\* What a step of the publication does to the sets that others rely on.
Forward ==
  \A r \in Recipes :
    /\ status[r] \in Past => status'[r] \in Past
    /\ status[r] # "absent" => status'[r] # "absent"

-----------------------------------------------------------------------------
(* Steps of the publication.                                               *)

\* A publisher that proceeds keeps its set.  Only staging declares, and only
\* for a set that is not there; after staging and loading a publisher does not
\* come back to these steps; success means that the set was published.
LEMMA ProceedEffect ==
  ASSUME PublicationType, Rows,
         NEW q \in Requests, recipe[q] \in Recipes,
         pc[q] = "stage" => output[q] \in Bytes \X Requests,
         Publication!Proceed(q)
  PROVE  /\ PublicationType' /\ Rows' /\ Forward
         /\ pc[q] # "idle" /\ recipe' = recipe
         /\ pc'[q] \notin {"idle", "stage", "load"}
         /\ \A p \in Requests \ {q} : pc'[p] = pc[p] /\ output'[p] = output[p]
         /\ pc'[q] = "ok" => status'[recipe[q]] \in Past
         /\ \A r \in Recipes :
              declared'[r] # declared[r] =>
                pc[q] = "stage" /\ r = recipe[q] /\ declared'[r] = output[q]
<1>1. PICK r \in Recipes : r = recipe[q]
  OBVIOUS
<1> USE <1>1 DEF PublicationType, Rows, Forward, Past, PublicationSteps,
                 Publication!set, Publication!store, Publication!locals,
                 Publication!Goto, Publication!Pending, Publication!Fail,
                 Publication!Observe
<1>2. CASE Publication!stage_or_resume_generator_artifact(q)
  BY <1>2, ProjectAssumption DEF Publication!stage_or_resume_generator_artifact
<1>3. CASE Publication!generator_artifact_for_reconciliation(q)
  BY <1>3 DEF Publication!generator_artifact_for_reconciliation
<1>4. CASE Publication!put_file_with_headers(q) \/ Publication!upload_error(q)
  BY <1>4 DEF Publication!put_file_with_headers, Publication!upload_error
<1>5. CASE Publication!verify_exact_object(q) \/ Publication!close(q)
  BY <1>5 DEF Publication!verify_exact_object, Publication!close
<1>6. CASE Publication!fail_generator_artifact(q)
  BY <1>6 DEF Publication!fail_generator_artifact
<1>7. CASE Publication!fail_ready_generator_verification(q)
  BY <1>7 DEF Publication!fail_ready_generator_verification
<1>8. CASE Publication!complete_generator_artifact(q)
  BY <1>8 DEF Publication!complete_generator_artifact
<1> QED
  BY <1>2, <1>3, <1>4, <1>5, <1>6, <1>7, <1>8 DEF Publication!Proceed

\* A publication starts with the given set and bytes.
LEMMA PublishEffect ==
  ASSUME PublicationType, Rows, NEW q \in Requests, NEW r \in Recipes,
         NEW b \in Bytes \X Requests,
         Publication!publish_generator_output(q, r, b)
  PROVE  /\ PublicationType' /\ Rows'
         /\ status' = status /\ declared' = declared
         /\ pc' = [pc EXCEPT ![q] = "stage"]
         /\ recipe' = [recipe EXCEPT ![q] = r]
         /\ output' = [output EXCEPT ![q] = b]
BY DEF PublicationType, Rows, PublicationSteps, Publication!publish_generator_output,
       Publication!Goto, Publication!set

\* A reconciliation starts with the given set.
LEMMA ReconcileEffect ==
  ASSUME PublicationType, Rows, NEW q \in Requests, NEW r \in Recipes,
         Publication!reconcile_generator_artifact(q, r)
  PROVE  /\ PublicationType' /\ Rows'
         /\ status' = status /\ declared' = declared
         /\ pc' = [pc EXCEPT ![q] = "load"]
         /\ recipe' = [recipe EXCEPT ![q] = r]
         /\ output' = output
BY DEF PublicationType, Rows, PublicationSteps, Publication!reconcile_generator_artifact,
       Publication!Goto, Publication!set

\* A publisher that leaves, if it is at anything, changes no row.
LEMMA LeaveEffect ==
  ASSUME PublicationType, Rows, NEW q \in Requests,
         IF pc[q] = "idle" THEN UNCHANGED publication ELSE Publication!Leave(q)
  PROVE  /\ PublicationType' /\ Rows'
         /\ status' = status /\ declared' = declared
         /\ pc' = [pc EXCEPT ![q] = "idle"]
         /\ \A p \in Requests \ {q} : recipe'[p] = recipe[p] /\ output'[p] = output[p]
BY DEF PublicationType, Rows, PublicationSteps, publication, Publication!Leave,
       Publication!Goto, Publication!set

\* The store and the operator change no declaration and no publisher.
LEMMA OthersEffect ==
  ASSUME PublicationType, Rows, Publication!Others
  PROVE  /\ PublicationType' /\ Rows' /\ Forward
         /\ UNCHANGED <<declared, pc, recipe, output>>
<1> USE DEF PublicationType, Rows, Forward, Past, Publication!set, Publication!store,
            Publication!locals
<1>1. ASSUME NEW r \in Recipes, NEW b \in Bytes \X Requests, Publication!land(r, b)
      PROVE  PublicationType' /\ Rows' /\ Forward /\ UNCHANGED <<declared, pc, recipe, output>>
  BY <1>1 DEF Publication!land
<1>2. ASSUME NEW r \in Recipes, Publication!damage(r) \/ Publication!end_command(r)
      PROVE  PublicationType' /\ Rows' /\ Forward /\ UNCHANGED <<declared, pc, recipe, output>>
  BY <1>2 DEF Publication!damage, Publication!end_command
<1>3. ASSUME NEW r \in Recipes,
             Publication!read_artifact(r) \/ Publication!supersede_artifact_set(r)
      PROVE  PublicationType' /\ Rows' /\ Forward /\ UNCHANGED <<declared, pc, recipe, output>>
  BY <1>3 DEF Publication!read_artifact, Publication!supersede_artifact_set
<1> QED
  BY <1>1, <1>2, <1>3 DEF Publication!Others

-----------------------------------------------------------------------------
(* Steps that leave the publication alone.                                 *)

\* The parts of the invariant that only the publication's variables are in.
LEMMA PublicationAlone ==
  ASSUME PublicationType, Rows, UNCHANGED publication
  PROVE  PublicationType' /\ Rows'
BY DEF PublicationType, Rows, publication

\* Enqueueing, claiming and settling move the job.
LEMMA JobSteps ==
  ASSUME Inv, NEW q \in Requests, enqueue(q) \/ claim_next_job(q) \/ settle(q)
  PROVE  Inv'
<1>1. PublicationType' /\ Rows'
  BY PublicationAlone DEF Inv, enqueue, claim_next_job, settle
<1> USE DEF Inv, enqueue, claim_next_job, settle, Goto, directory, publication
<1>2. TypeOK'
  BY ProjectAssumption DEF TypeOK, Outcomes
<1>3. Steps' /\ BoundIsDurable'
  BY DEF TypeOK, Steps, BoundIsDurable
<1>4. Publishing' /\ PublishedWasAccepted'
  BY DEF Publishing, PublishedWasAccepted
<1>5. Ended'
  BY DEF TypeOK, Ended, Published
<1> QED
  BY <1>1, <1>2, <1>3, <1>4, <1>5

\* From the generator to the sync of the directory.
LEMMA CheckpointSteps ==
  ASSUME Inv, NEW q \in Requests,
         run_generator(q) \/ persist_blocking(q) \/ sync_all(q)
  PROVE  Inv'
<1>1. PublicationType' /\ Rows'
  BY PublicationAlone DEF Inv, run_generator, persist_blocking, sync_all
<1>2. Publishing' /\ PublishedWasAccepted'
  BY DEF Inv, run_generator, persist_blocking, sync_all, request, publication, Publishing,
         PublishedWasAccepted
<1>3. CASE run_generator(q)
  <2> USE <1>3, ProjectAssumption DEF Inv, run_generator, Goto, Fails, Checkpoints, directory, request, publication
  <2>1. TypeOK'
    BY DEF TypeOK, Outcomes
  <2>2. Steps' /\ BoundIsDurable'
    BY DEF TypeOK, Steps, BoundIsDurable
  <2>3. Ended'
    BY DEF TypeOK, Ended, Published
  <2> QED
    BY <1>1, <1>2, <2>1, <2>2, <2>3
<1>4. CASE persist_blocking(q)
  <2> USE <1>4, ProjectAssumption DEF Inv, persist_blocking, Goto, Drop, Checkpoints, directory, request, publication
  <2>1. TypeOK'
    BY DEF TypeOK, Outcomes
  <2>2. Steps' /\ BoundIsDurable'
    BY DEF TypeOK, Steps, BoundIsDurable
  <2>3. Ended'
    BY DEF TypeOK, Ended, Published
  <2> QED
    BY <1>1, <1>2, <2>1, <2>2, <2>3
<1>5. CASE sync_all(q)
  <2> USE <1>5, ProjectAssumption DEF Inv, sync_all, Synced, Goto, Drop, Checkpoints, directory, request, publication
  <2>1. TypeOK'
    BY DEF TypeOK, Outcomes
  <2>2. Steps' /\ BoundIsDurable'
    BY DEF TypeOK, Steps, BoundIsDurable
  <2>3. Ended'
    BY DEF TypeOK, Ended, Published
  <2> QED
    BY <1>1, <1>2, <2>1, <2>2, <2>3
<1> QED
  BY <1>3, <1>4, <1>5

\* The outcome is stored.
LEMMA RecordStep ==
  ASSUME Inv, NEW q \in Requests, record_bambu_project_failure(q)
  PROVE  Inv'
<1>1. PublicationType' /\ Rows'
  BY PublicationAlone DEF Inv, record_bambu_project_failure
<1> USE DEF Inv, record_bambu_project_failure, Goto, Outcomes, directory, publication
<1>2. TypeOK'
  BY DEF TypeOK
<1>3. Steps' /\ BoundIsDurable'
  BY DEF TypeOK, Steps, BoundIsDurable
<1>4. Publishing' /\ PublishedWasAccepted'
  BY DEF Publishing, PublishedWasAccepted
<1>5. Ended'
  BY DEF TypeOK, Ended, Published
<1> QED
  BY <1>1, <1>2, <1>3, <1>4, <1>5

\* The disk: nothing durable is lost, and what an execution has installed is
\* there until its worker is gone.
LEMMA DiskSteps ==
  ASSUME Inv, power_loss \/ \E c \in Checkpoints : late_install(c) \/ spoil(c)
  PROVE  Inv'
<1>1. PublicationType' /\ Rows'
  BY PublicationAlone DEF Inv, power_loss, late_install, spoil
<1>2. UNCHANGED <<request, at, made, claims, publication>>
  BY DEF power_loss, late_install, spoil
<1>3. Publishing' /\ PublishedWasAccepted' /\ Ended'
  BY <1>2 DEF Inv, request, publication, Publishing, PublishedWasAccepted, Ended, Published
<1>4. CASE power_loss
  <2> USE <1>4 DEF Inv, power_loss, request, publication
  <2>1. TypeOK'
    BY DEF TypeOK
  <2>2. Steps' /\ BoundIsDurable'
    BY DEF TypeOK, Steps, BoundIsDurable
  <2> QED
    BY <1>1, <1>3, <2>1, <2>2
<1>5. ASSUME NEW c \in Checkpoints, late_install(c)
      PROVE  Inv'
  <2> USE <1>5 DEF Inv, late_install, request, publication
  <2>1. TypeOK'
    BY DEF TypeOK
  <2>2. Steps' /\ BoundIsDurable'
    BY DEF TypeOK, Steps, BoundIsDurable
  <2> QED
    BY <1>1, <1>3, <2>1, <2>2
<1>6. ASSUME NEW c \in Checkpoints, spoil(c)
      PROVE  Inv'
  <2> USE <1>6 DEF Inv, spoil, request, publication
  <2>1. TypeOK'
    BY ProjectAssumption DEF TypeOK
  <2>2. Steps' /\ BoundIsDurable'
    BY DEF TypeOK, Steps, BoundIsDurable
  <2> QED
    BY <1>1, <1>3, <2>1, <2>2
<1> QED
  BY <1>4, <1>5, <1>6

-----------------------------------------------------------------------------
(* Steps that start, make or end a publication.                            *)

\* The request is read; a bound one is reconciled.
LEMMA ReadStep ==
  ASSUME Inv, NEW q \in Requests, bambu_project_request(q)
  PROVE  Inv'
<1>1. ASSUME NEW r \in Recipes, bound[q] # None, r = bound[q][1], Goto(q, "reconcile"),
             Publication!reconcile_generator_artifact(q, r)
      PROVE  Inv'
  <2> USE DEF Inv, request, directory
  <2>2. /\ PublicationType' /\ Rows'
        /\ status' = status /\ declared' = declared
        /\ pc' = [pc EXCEPT ![q] = "load"]
        /\ recipe' = [recipe EXCEPT ![q] = r]
        /\ output' = output
    BY <1>1, ReconcileEffect
  <2> USE <1>1, <2>2 DEF bambu_project_request, Goto
  <2>3. TypeOK'
    BY DEF TypeOK, Outcomes, PublicationType
  <2>4. Steps' /\ BoundIsDurable'
    BY DEF TypeOK, Steps, BoundIsDurable
  <2>5. Publishing' /\ PublishedWasAccepted'
    BY DEF Publishing, PublishedWasAccepted, PublicationType
  <2>6. Ended'
    BY DEF TypeOK, Ended, Published
  <2> QED
    BY <2>2, <2>3, <2>4, <2>5, <2>6
<1>2. CASE \/ Fails(q) /\ UNCHANGED publication
           \/ bound[q] = None /\ Goto(q, "acquire") /\ UNCHANGED publication
  <2> USE DEF Inv, request, directory
  <2>1. PublicationType' /\ Rows'
    BY <1>2, PublicationAlone
  <2> USE <1>2 DEF bambu_project_request, Fails, Goto, publication
  <2>3. TypeOK'
    BY DEF TypeOK, Outcomes
  <2>4. Steps' /\ BoundIsDurable'
    BY DEF TypeOK, Steps, BoundIsDurable
  <2>5. Publishing' /\ PublishedWasAccepted'
    BY DEF Publishing, PublishedWasAccepted
  <2>6. Ended'
    BY DEF TypeOK, Ended, Published
  <2> QED
    BY <2>1, <2>3, <2>4, <2>5, <2>6
<1>3. \/ Fails(q) /\ UNCHANGED publication
      \/ bound[q] = None /\ Goto(q, "acquire") /\ UNCHANGED publication
      \/ \E r \in Recipes :
           /\ bound[q] # None /\ r = bound[q][1] /\ Goto(q, "reconcile")
           /\ Publication!reconcile_generator_artifact(q, r)
  BY DEF bambu_project_request, Inv, TypeOK, Checkpoints
<1> QED
  BY <1>1, <1>2, <1>3

\* The request is bound to the durable checkpoint and published.
LEMMA BindStep ==
  ASSUME Inv, NEW q \in Requests, bind_bambu_project_output(q)
  PROVE  Inv'
<1> USE DEF Inv, bind_bambu_project_output, directory
<1>1. PICK r \in Recipes, b \in Bytes : made[q] = <<r, b>>
  BY DEF TypeOK, Checkpoints
<1>2. CASE Goto(q, "publish")
  <2>1. /\ bound' = [bound EXCEPT ![q] = <<r, b>>]
        /\ category' = [category EXCEPT ![q] = "none"]
        /\ Publication!publish_generator_output(q, r, <<b, q>>)
    BY <1>1, <1>2 DEF Goto, TypeOK
  <2>2. /\ PublicationType' /\ Rows'
        /\ status' = status /\ declared' = declared
        /\ pc' = [pc EXCEPT ![q] = "stage"]
        /\ recipe' = [recipe EXCEPT ![q] = r]
        /\ output' = [output EXCEPT ![q] = <<b, q>>]
    BY <2>1, PublishEffect
  <2>3. bound[q] = None /\ disk[<<r, b>>] = "durable" /\ <<r, b>> # None
    BY <1>1, ProjectAssumption DEF Steps, TypeOK
  <2> USE <1>1, <1>2, <2>1, <2>2, <2>3 DEF Goto, Drop
  <2>4. TypeOK'
    BY DEF TypeOK, Outcomes, PublicationType, Checkpoints
  <2>5. Steps' /\ BoundIsDurable'
    BY DEF TypeOK, Steps, BoundIsDurable
  <2>6. Publishing'
    BY DEF Publishing, PublicationType, TypeOK
  <2>7. PublishedWasAccepted'
    <3> SUFFICES ASSUME NEW s \in Recipes, declared[s] # None
                 PROVE  bound'[declared[s][2]] = <<s, declared[s][1]>>
      BY DEF PublishedWasAccepted
    <3>1. declared[s] \in Bytes \X Requests
      BY DEF PublicationType
    <3>2. declared[s][1] \in Bytes /\ declared[s][2] \in Requests
      BY <3>1
    <3>3. bound[declared[s][2]] = <<s, declared[s][1]>>
      BY DEF PublishedWasAccepted
    <3>4. <<s, declared[s][1]>> # None
      BY <3>2, ProjectAssumption
    <3> QED
      BY <3>2, <3>3, <3>4 DEF TypeOK
  <2>8. Ended'
    BY DEF TypeOK, Ended, Published
  <2> QED
    BY <2>2, <2>4, <2>5, <2>6, <2>7, <2>8
<1>3. CASE Goto(q, "failed") /\ UNCHANGED <<bound, category, publication>>
  <2>1. PublicationType' /\ Rows'
    BY <1>3, PublicationAlone
  <2> USE <1>3 DEF Goto, Drop, publication
  <2>3. TypeOK'
    BY DEF TypeOK, Outcomes
  <2>4. Steps' /\ BoundIsDurable'
    BY DEF TypeOK, Steps, BoundIsDurable
  <2>5. Publishing' /\ PublishedWasAccepted'
    BY DEF Publishing, PublishedWasAccepted
  <2>6. Ended'
    BY DEF TypeOK, Ended, Published
  <2> QED
    BY <2>1, <2>3, <2>4, <2>5, <2>6
<1> QED
  BY <1>2, <1>3

\* The bound checkpoint is published again.
LEMMA ReopenStep ==
  ASSUME Inv, NEW q \in Requests, reopen_blocking(q)
  PROVE  Inv'
<1> USE DEF Inv, reopen_blocking, request, directory
<1>1. PICK r \in Recipes, b \in Bytes : bound[q] = <<r, b>>
  BY DEF TypeOK, Steps, Checkpoints
<1>2. CASE Goto(q, "publish")
             /\ Publication!publish_generator_output(q, bound[q][1], <<bound[q][2], q>>)
  <2>1. Publication!publish_generator_output(q, r, <<b, q>>)
    BY <1>1, <1>2
  <2>2. /\ PublicationType' /\ Rows'
        /\ status' = status /\ declared' = declared
        /\ pc' = [pc EXCEPT ![q] = "stage"]
        /\ recipe' = [recipe EXCEPT ![q] = r]
        /\ output' = [output EXCEPT ![q] = <<b, q>>]
    BY <2>1, PublishEffect
  <2> USE <1>1, <1>2, <2>2 DEF Goto
  <2>3. TypeOK'
    BY DEF TypeOK, Outcomes, PublicationType
  <2>4. Steps' /\ BoundIsDurable'
    BY DEF TypeOK, Steps, BoundIsDurable
  <2>5. Publishing' /\ PublishedWasAccepted'
    BY DEF Publishing, PublishedWasAccepted, PublicationType
  <2>6. Ended'
    BY DEF TypeOK, Ended, Published
  <2> QED
    BY <2>2, <2>3, <2>4, <2>5, <2>6
<1>3. CASE Goto(q, "failed") /\ UNCHANGED publication
  <2>1. PublicationType' /\ Rows'
    BY <1>3, PublicationAlone
  <2> USE <1>3 DEF Goto, publication
  <2>3. TypeOK'
    BY DEF TypeOK, Outcomes
  <2>4. Steps' /\ BoundIsDurable'
    BY DEF TypeOK, Steps, BoundIsDurable
  <2>5. Publishing' /\ PublishedWasAccepted'
    BY DEF Publishing, PublishedWasAccepted
  <2>6. Ended'
    BY DEF TypeOK, Ended, Published
  <2> QED
    BY <2>1, <2>3, <2>4, <2>5, <2>6
<1> QED
  BY <1>2, <1>3

\* Only a publisher that has started proceeds.
LEMMA ProceedFrom ==
  ASSUME NEW q \in Requests, publishing(q)
  PROVE  pc[q] # "idle"
BY DEF publishing, Publication!Proceed, Publication!stage_or_resume_generator_artifact,
       Publication!generator_artifact_for_reconciliation,
       Publication!put_file_with_headers, Publication!upload_error,
       Publication!verify_exact_object, Publication!close,
       Publication!fail_generator_artifact,
       Publication!fail_ready_generator_verification,
       Publication!complete_generator_artifact

\* A publication proceeds: what it declares, if anything, is what its request
\* is bound to.
LEMMA PublishingStep ==
  ASSUME Inv, NEW q \in Requests, publishing(q)
  PROVE  Inv'
<1> USE DEF Inv, publishing, request, directory
<1>0. pc[q] # "idle"
  BY ProceedFrom
<1>1. bound[q] \in Recipes \X Bytes
  BY <1>0 DEF TypeOK, Steps, Checkpoints
<1>2. PICK r \in Recipes, b \in Bytes : bound[q] = <<r, b>>
  BY <1>1
<1>3. recipe[q] = r /\ (pc[q] = "stage" => output[q] = <<b, q>>)
  BY <1>0, <1>2 DEF Publishing
<1>4. /\ PublicationType' /\ Rows' /\ Forward
      /\ pc[q] # "idle" /\ recipe' = recipe
      /\ pc'[q] \notin {"idle", "stage", "load"}
      /\ \A p \in Requests \ {q} : pc'[p] = pc[p] /\ output'[p] = output[p]
      /\ pc'[q] = "ok" => status'[recipe[q]] \in Past
      /\ \A s \in Recipes :
           declared'[s] # declared[s] =>
             pc[q] = "stage" /\ s = recipe[q] /\ declared'[s] = output[q]
  BY <1>3, ProceedEffect
<1>5. TypeOK'
  BY <1>4 DEF TypeOK
<1>6. Steps' /\ BoundIsDurable'
  BY DEF Steps, BoundIsDurable
<1>7. Publishing'
  <2> SUFFICES ASSUME NEW p \in Requests
               PROVE  /\ pc'[p] # "idle" => recipe'[p] = bound'[p][1]
                      /\ pc'[p] = "stage" => output'[p] = <<bound'[p][2], p>>
                      /\ pc'[p] = "ok" => status'[recipe'[p]] \in Past
    BY DEF Publishing
  <2>1. CASE p = q
    BY <2>1, <1>4 DEF Publishing
  <2>2. CASE p # q
    <3>1. pc[p] # "idle" => recipe[p] \in Recipes
      BY DEF TypeOK, Steps, Publishing, Checkpoints
    <3> QED
      BY <2>2, <3>1, <1>4 DEF Publishing, Forward
  <2> QED
    BY <2>1, <2>2
<1>8. PublishedWasAccepted'
  <2> SUFFICES ASSUME NEW s \in Recipes, declared'[s] # None
               PROVE  bound[declared'[s][2]] = <<s, declared'[s][1]>>
    BY DEF PublishedWasAccepted
  <2>1. CASE declared'[s] = declared[s]
    BY <2>1 DEF PublishedWasAccepted
  <2>2. CASE declared'[s] # declared[s]
    <3>1. s = r /\ declared'[s] = <<b, q>>
      BY <2>2, <1>3, <1>4
    <3> QED
      BY <3>1, <1>2
  <2> QED
    BY <2>1, <2>2
<1>9. Ended'
  BY <1>4 DEF Ended, Published, Forward, TypeOK, Checkpoints
<1> QED
  BY <1>4, <1>5, <1>6, <1>7, <1>8, <1>9

\* The publication of q ends, by itself or by the end of the execution.
LEMMA EndingSteps ==
  ASSUME Inv, NEW q \in Requests, returned(q) \/ timeout(q) \/ crash(q)
  PROVE  Inv'
<1> USE DEF Inv
<1>1. IF pc[q] = "idle" THEN UNCHANGED publication ELSE Publication!Leave(q)
  BY DEF returned, timeout, crash, Abandon, TypeOK
<1>2. /\ PublicationType' /\ Rows'
      /\ status' = status /\ declared' = declared
      /\ pc' = [pc EXCEPT ![q] = "idle"]
      /\ \A p \in Requests \ {q} : recipe'[p] = recipe[p] /\ output'[p] = output[p]
  BY <1>1, LeaveEffect
<1>3. UNCHANGED <<request, disk, spoiled, claims, spoils>>
  BY DEF returned, timeout, crash, Abandon, directory
<1>4. \A p \in Requests \ {q} : at'[p] = at[p] /\ made'[p] = made[p]
  BY DEF returned, timeout, crash, Abandon, Drop, Goto, TypeOK
<1>5. TypeOK'
  <2>1. CASE returned(q)
    BY <2>1, <1>2, <1>3 DEF TypeOK, PublicationType, Outcomes, returned, Goto, request, directory
  <2>2. CASE timeout(q)
    BY <2>2, <1>2, <1>3 DEF TypeOK, PublicationType, Outcomes, timeout, Abandon, Drop, Goto, request
  <2>3. CASE crash(q)
    BY <2>3, <1>2, <1>3 DEF TypeOK, PublicationType, Outcomes, crash, Drop, Goto, request, directory
  <2> QED
    BY <2>1, <2>2, <2>3
<1>6. at'[q] \in {"idle", "failed", "reopen", "finish"}
  BY DEF returned, timeout, crash, Goto, TypeOK
<1>7. at'[q] \in {"reopen", "finish"} =>
        /\ at[q] \in {"publish", "reconcile"}
        /\ at'[q] = "finish" => pc[q] = "ok"
  BY DEF returned, timeout, crash, Goto, TypeOK
<1>8. Steps' /\ BoundIsDurable'
  BY <1>3, <1>4, <1>6, <1>7 DEF Steps, BoundIsDurable, request
<1>9. Publishing' /\ PublishedWasAccepted'
  BY <1>2, <1>3 DEF Publishing, PublishedWasAccepted, PublicationType, request
<1>10. Ended'
  BY <1>2, <1>3, <1>4, <1>6, <1>7 DEF Ended, Published, Publishing, Steps, request
<1> QED
  BY <1>2, <1>5, <1>8, <1>9, <1>10

\* The object store and the operator.
LEMMA OutsideStep ==
  ASSUME Inv, outside
  PROVE  Inv'
<1>1. /\ PublicationType' /\ Rows' /\ Forward
      /\ UNCHANGED <<declared, pc, recipe, output>>
  BY OthersEffect DEF Inv, outside
<1> USE <1>1 DEF Inv, outside, request, directory
<1>2. TypeOK' /\ Steps' /\ BoundIsDurable' /\ PublishedWasAccepted'
  BY DEF TypeOK, Steps, BoundIsDurable, PublishedWasAccepted
<1>3. Publishing'
  BY DEF Publishing, Forward, TypeOK, Steps, Checkpoints
<1>4. Ended'
  BY DEF Ended, Published, Forward, TypeOK, Checkpoints
<1> QED
  BY <1>2, <1>3, <1>4

-----------------------------------------------------------------------------
\* The initial states satisfy the invariant.
LEMMA InitInv == Init => Inv
<1> SUFFICES ASSUME Init PROVE Inv
  OBVIOUS
<1> USE ProjectAssumption DEF Init, Publication!Init, Inv
<1>1. TypeOK
  BY DEF TypeOK
<1>2. PublicationType /\ Rows
  BY DEF PublicationType, PublicationSteps, Rows, Past
<1>3. Steps /\ Publishing /\ Ended /\ BoundIsDurable /\ PublishedWasAccepted
  BY DEF Steps, Publishing, Ended, BoundIsDurable, PublishedWasAccepted
<1> QED
  BY <1>1, <1>2, <1>3

\* Every step keeps it.
LEMMA NextInv == Inv /\ [Next]_vars => Inv'
<1> SUFFICES ASSUME Inv, [Next]_vars PROVE Inv'
  OBVIOUS
<1>1. ASSUME NEW q \in Requests, enqueue(q) \/ execute_job(q) PROVE Inv'
  BY <1>1, JobSteps, CheckpointSteps, RecordStep, ReadStep, BindStep, ReopenStep,
     PublishingStep, EndingSteps
  DEF execute_job, execute_inner
<1>2. CASE UNCHANGED vars
  BY <1>2 DEF vars, request, directory, publication, Inv, TypeOK, PublicationType, Rows,
              Steps, Publishing, Ended, Published, BoundIsDurable, PublishedWasAccepted
<1> QED
  BY <1>1, <1>2, DiskSteps, OutsideStep DEF Next

\* The inductive invariant holds of every behaviour.
THEOREM Invariance == Spec => []Inv
BY InitInv, NextInv, PTL DEF Spec

\* The tables, the directory and the executions keep their types.
THEOREM TypeCorrect == Spec => []TypeOK
BY Invariance, PTL DEF Inv

\* The checkpoint a request is bound to survives crashes and power losses.
THEOREM BindingsAreDurable == Spec => []BoundIsDurable
BY Invariance, PTL DEF Inv

\* What an artifact set declares is the accepted output that the declaring
\* request is bound to.
THEOREM PublicationsAreAccepted == Spec => []PublishedWasAccepted
BY Invariance, PTL DEF Inv

\* A finished job without a recorded failure has published.
THEOREM FinishedHavePublished == Spec => []PendingWasPublished
<1>1. Inv => PendingWasPublished
  BY DEF Inv, TypeOK, Ended, Published, Past, PendingWasPublished, project_status
<1> QED
  BY <1>1, Invariance, PTL

\* A binding stays, and no execution of a bound request acquires.
THEOREM BindingsStay == Spec => BindingIsFinal
<1>1. Inv /\ [Next]_vars =>
        [\A q \in Requests :
           bound[q] # None => bound'[q] = bound[q] /\ at'[q] # "acquire"]_vars
  <2> SUFFICES ASSUME Inv, Next, NEW q \in Requests, bound[q] # None
               PROVE  bound'[q] = bound[q] /\ at'[q] # "acquire"
    OBVIOUS
  <2> USE DEF Inv, TypeOK, Steps, Goto, request
  <2>1. at[q] \notin {"acquire", "bind"}
    OBVIOUS
  <2>2. ASSUME NEW p \in Requests, enqueue(p) \/ execute_job(p)
        PROVE  bound'[q] = bound[q] /\ at'[q] # "acquire"
    <3>1. CASE enqueue(p) \/ claim_next_job(p) \/ settle(p)
                 \/ record_bambu_project_failure(p)
      BY <2>1, <3>1 DEF enqueue, claim_next_job, settle, record_bambu_project_failure
    <3>2. CASE run_generator(p) \/ persist_blocking(p) \/ sync_all(p)
      BY <2>1, <3>2 DEF run_generator, persist_blocking, sync_all, Fails
    <3>3. CASE bambu_project_request(p)
      BY <2>1, <3>3 DEF bambu_project_request, Fails
    <3>4. CASE bind_bambu_project_output(p)
      BY <2>1, <3>4 DEF bind_bambu_project_output
    <3>5. CASE reopen_blocking(p) \/ publishing(p) \/ returned(p)
      BY <2>1, <3>5 DEF reopen_blocking, publishing, returned
    <3>6. CASE timeout(p) \/ crash(p)
      BY <2>1, <3>6 DEF timeout, crash
    <3> QED
      BY <2>2, <3>1, <3>2, <3>3, <3>4, <3>5, <3>6 DEF execute_job, execute_inner
  <2>3. ASSUME power_loss \/ outside \/ \E c \in Checkpoints : late_install(c) \/ spoil(c)
        PROVE  bound'[q] = bound[q] /\ at'[q] # "acquire"
    BY <2>1, <2>3 DEF power_loss, outside, late_install, spoil
  <2> QED
    BY <2>2, <2>3 DEF Next
<1> QED
  BY <1>1, Invariance, PTL DEF Spec, BindingIsFinal

\* Only staging itself takes a publisher from there to an error.
LEMMA StagingFails ==
  ASSUME Inv, Next, NEW q \in Requests, pc[q] = "stage", pc'[q] = "err"
  PROVE  Publication!stage_or_resume_generator_artifact(q)
<1> USE DEF Inv
<1>1. pc'[q] # pc[q]
  OBVIOUS
<1>2. ASSUME NEW p \in Requests, enqueue(p) \/ execute_job(p)
      PROVE  publishing(q)
  <2>1. CASE UNCHANGED publication
    BY <1>1, <2>1 DEF publication
  <2>2. CASE returned(p) \/ timeout(p) \/ crash(p)
    <3>1. IF pc[p] = "idle" THEN UNCHANGED publication ELSE Publication!Leave(p)
      BY <2>2 DEF returned, timeout, crash, Abandon, TypeOK
    <3>2. pc' = [pc EXCEPT ![p] = "idle"]
      BY <3>1, LeaveEffect
    <3> QED
      BY <3>2 DEF PublicationType
  <2>3. CASE bambu_project_request(p)
    <3>1. UNCHANGED publication \/ pc' = [pc EXCEPT ![p] = "load"]
      BY <2>3 DEF bambu_project_request, Publication!reconcile_generator_artifact,
                  Publication!Goto
    <3> QED
      BY <2>1, <3>1 DEF PublicationType
  <2>4. CASE bind_bambu_project_output(p) \/ reopen_blocking(p)
    <3>1. UNCHANGED publication \/ pc' = [pc EXCEPT ![p] = "stage"]
      BY <2>4 DEF bind_bambu_project_output, reopen_blocking,
                  Publication!publish_generator_output, Publication!Goto
    <3> QED
      BY <2>1, <3>1 DEF PublicationType
  <2>5. CASE publishing(p)
    <3>1. CASE p = q
      BY <2>5, <3>1
    <3>2. CASE p # q
      <4>1. recipe[p] \in Recipes /\ (pc[p] = "stage" => output[p] \in Bytes \X Requests)
        BY <2>5, ProceedFrom DEF TypeOK, Steps, Publishing, Checkpoints
      <4>2. \A o \in Requests \ {p} : pc'[o] = pc[o]
        BY <2>5, <4>1, ProceedEffect DEF publishing
      <4> QED
        BY <3>2, <4>2, <1>1
    <3> QED
      BY <3>1, <3>2
  <2> QED
    BY <1>2, <2>1, <2>2, <2>3, <2>4, <2>5
    DEF execute_job, execute_inner, enqueue, claim_next_job, run_generator, persist_blocking,
        sync_all, record_bambu_project_failure, settle
<1>3. publishing(q)
  <2>1. CASE power_loss \/ \E c \in Checkpoints : late_install(c) \/ spoil(c)
    BY <2>1, <1>1 DEF power_loss, late_install, spoil, publication
  <2>2. CASE outside
    BY <2>2, <1>1, OthersEffect DEF outside
  <2> QED
    BY <1>2, <2>1, <2>2 DEF Next
<1> QED
  BY <1>3
  DEF publishing, Publication!Proceed, Publication!generator_artifact_for_reconciliation,
      Publication!put_file_with_headers, Publication!upload_error,
      Publication!verify_exact_object, Publication!close,
      Publication!fail_generator_artifact,
      Publication!fail_ready_generator_verification,
      Publication!complete_generator_artifact

\* Staging refuses what a request's checkpoint holds only if the set is
\* superseded or was declared by another request.
THEOREM RepairsAreAccepted == Spec => OwnRepairIsAccepted
<1>1. Inv /\ [Next]_vars =>
        [\A q \in Requests :
           at'[q] = "publish" /\ pc[q] = "stage" /\ pc'[q] = "err" =>
             \/ status[recipe[q]] = "superseded"
             \/ declared[recipe[q]][2] # q]_vars
  <2> SUFFICES ASSUME Inv, Next, NEW q \in Requests,
                      at'[q] = "publish", pc[q] = "stage", pc'[q] = "err",
                      declared[recipe[q]][2] = q
               PROVE  status[recipe[q]] = "superseded"
    OBVIOUS
  <2>1. PICK r \in Recipes, b \in Bytes :
          /\ bound[q] = <<r, b>> /\ recipe[q] = r /\ output[q] = <<b, q>>
    BY DEF Inv, TypeOK, Steps, Publishing, Checkpoints
  <2>2. Publication!stage_or_resume_generator_artifact(q)
    BY StagingFails DEF Inv
  <2>3. CASE declared[r] = None
    BY <2>1, <2>2, <2>3 DEF Inv, Rows, PublicationType, Publication!stage_or_resume_generator_artifact,
         Publication!Goto
  <2>4. CASE declared[r] # None
    <3>1. declared[r] \in Bytes \X Requests
      BY <2>4 DEF Inv, PublicationType
    <3>2. bound[q] = <<r, declared[r][1]>>
      BY <2>1, <2>4 DEF Inv, PublishedWasAccepted
    <3>3. declared[r][1] = b /\ declared[r][2] = q
      BY <2>1, <3>2
    <3>4. declared[r] = <<b, q>>
      BY <3>1, <3>3
    <3> QED
      BY <2>1, <2>2, <3>4 DEF Inv, PublicationType, Publication!stage_or_resume_generator_artifact,
         Publication!Goto
  <2> QED
    BY <2>3, <2>4
<1> QED
  BY <1>1, Invariance, PTL DEF Spec, OwnRepairIsAccepted

-----------------------------------------------------------------------------
(* The projects implement the publication they are built on, so that what  *)
(* is proved of it holds of them.                                          *)

PublicationP == INSTANCE GeneratorPublicationProofs WITH
  Publishers <- Requests,
  Outputs <- Bytes \X Requests,
  MaxRuns <- 2 * MaxClaims

\* Publication and PublicationP are one module under one substitution.
LEMMA SameProceed ==
  ASSUME NEW q \in Requests, Publication!Proceed(q) PROVE PublicationP!Proceed(q)
<1>1. Publication!stage_or_resume_generator_artifact(q) => PublicationP!stage_or_resume_generator_artifact(q)
  BY DEF Publication!stage_or_resume_generator_artifact,
         PublicationP!stage_or_resume_generator_artifact, Publication!Goto,
         PublicationP!Goto, Publication!set, PublicationP!set, Publication!store,
         PublicationP!store, Publication!Observe, PublicationP!Observe
<1>2. Publication!generator_artifact_for_reconciliation(q) => PublicationP!generator_artifact_for_reconciliation(q)
  BY DEF Publication!generator_artifact_for_reconciliation,
         PublicationP!generator_artifact_for_reconciliation, Publication!Goto,
         PublicationP!Goto, Publication!set, PublicationP!set, Publication!store,
         PublicationP!store, Publication!Observe, PublicationP!Observe,
         Publication!Pending, PublicationP!Pending
<1>3. Publication!put_file_with_headers(q) => PublicationP!put_file_with_headers(q)
  BY DEF Publication!put_file_with_headers, PublicationP!put_file_with_headers,
         Publication!Goto, PublicationP!Goto, Publication!set, PublicationP!set,
         Publication!store, PublicationP!store
<1>4. Publication!upload_error(q) => PublicationP!upload_error(q)
  BY DEF Publication!upload_error, PublicationP!upload_error, Publication!Goto,
         PublicationP!Goto, Publication!set, PublicationP!set, Publication!store,
         PublicationP!store
<1>5. Publication!verify_exact_object(q) => PublicationP!verify_exact_object(q)
  BY DEF Publication!verify_exact_object, PublicationP!verify_exact_object,
         Publication!Goto, PublicationP!Goto, Publication!set, PublicationP!set,
         Publication!store, PublicationP!store
<1>6. Publication!close(q) => PublicationP!close(q)
  BY DEF Publication!close, PublicationP!close, Publication!Goto, PublicationP!Goto,
         Publication!set, PublicationP!set, Publication!store, PublicationP!store
<1>7. Publication!fail_generator_artifact(q) => PublicationP!fail_generator_artifact(q)
  BY DEF Publication!fail_generator_artifact, PublicationP!fail_generator_artifact,
         Publication!Goto, PublicationP!Goto, Publication!set, PublicationP!set,
         Publication!store, PublicationP!store, Publication!Fail, PublicationP!Fail,
         Publication!Pending, PublicationP!Pending
<1>8. Publication!fail_ready_generator_verification(q) => PublicationP!fail_ready_generator_verification(q)
  BY DEF Publication!fail_ready_generator_verification,
         PublicationP!fail_ready_generator_verification, Publication!Goto,
         PublicationP!Goto, Publication!set, PublicationP!set, Publication!store,
         PublicationP!store, Publication!Fail, PublicationP!Fail
<1>9. Publication!complete_generator_artifact(q) => PublicationP!complete_generator_artifact(q)
  BY DEF Publication!complete_generator_artifact,
         PublicationP!complete_generator_artifact, Publication!Goto, PublicationP!Goto,
         Publication!set, PublicationP!set, Publication!store, PublicationP!store,
         Publication!Pending, PublicationP!Pending
<1> QED
  BY <1>1, <1>2, <1>3, <1>4, <1>5, <1>6, <1>7, <1>8, <1>9 DEF Publication!Proceed, PublicationP!Proceed

LEMMA SameStart ==
  ASSUME NEW q \in Requests, NEW r \in Recipes
  PROVE  /\ \A b \in Bytes \X Requests :
              Publication!publish_generator_output(q, r, b) => PublicationP!Start(q)
         /\ Publication!reconcile_generator_artifact(q, r) => PublicationP!Start(q)
<1>1. \A b \in Bytes \X Requests :
       Publication!publish_generator_output(q, r, b) => PublicationP!publish_generator_output(q, r, b)
  BY DEF Publication!publish_generator_output, PublicationP!publish_generator_output,
         Publication!Goto, PublicationP!Goto, Publication!set, PublicationP!set,
         Publication!store, PublicationP!store
<1>2. Publication!reconcile_generator_artifact(q, r) => PublicationP!reconcile_generator_artifact(q, r)
  BY DEF Publication!reconcile_generator_artifact,
         PublicationP!reconcile_generator_artifact, Publication!Goto, PublicationP!Goto,
         Publication!set, PublicationP!set, Publication!store, PublicationP!store
<1> QED
  BY <1>1, <1>2 DEF PublicationP!Start

LEMMA SameLeave ==
  ASSUME NEW q \in Requests, Publication!Leave(q) PROVE PublicationP!Leave(q)
BY DEF Publication!Leave, PublicationP!Leave, Publication!Goto, PublicationP!Goto,
       Publication!set, PublicationP!set, Publication!store, PublicationP!store

LEMMA SameOthers == Publication!Others => PublicationP!Others
<1>1. \A r \in Recipes, b \in Bytes \X Requests : Publication!land(r, b) => PublicationP!land(r, b)
  BY DEF Publication!land, PublicationP!land, Publication!set, PublicationP!set,
         Publication!store, PublicationP!store, Publication!locals, PublicationP!locals
<1>2. \A r \in Recipes : Publication!damage(r) => PublicationP!damage(r)
  BY DEF Publication!damage, PublicationP!damage, Publication!set, PublicationP!set,
         Publication!store, PublicationP!store, Publication!locals, PublicationP!locals
<1>3. \A r \in Recipes : Publication!read_artifact(r) => PublicationP!read_artifact(r)
  BY DEF Publication!read_artifact, PublicationP!read_artifact, Publication!set,
         PublicationP!set, Publication!store, PublicationP!store, Publication!locals,
         PublicationP!locals
<1>4. \A r \in Recipes : Publication!supersede_artifact_set(r) => PublicationP!supersede_artifact_set(r)
  BY DEF Publication!supersede_artifact_set, PublicationP!supersede_artifact_set,
         Publication!set, PublicationP!set, Publication!store, PublicationP!store,
         Publication!locals, PublicationP!locals
<1>5. \A r \in Recipes : Publication!end_command(r) => PublicationP!end_command(r)
  BY DEF Publication!end_command, PublicationP!end_command, Publication!set,
         PublicationP!set, Publication!store, PublicationP!store, Publication!locals,
         PublicationP!locals
<1> QED
  BY <1>1, <1>2, <1>3, <1>4, <1>5 DEF Publication!Others, PublicationP!Others

\* Every step of a project is a step of the publication or leaves it alone.
LEMMA StepsOfPublication ==
  Inv /\ [Next]_vars => [PublicationP!Next]_(PublicationP!vars)
<1> SUFFICES ASSUME Inv, [Next]_vars PROVE PublicationP!Next \/ UNCHANGED PublicationP!vars
  OBVIOUS
<1>0. UNCHANGED publication => UNCHANGED PublicationP!vars
  BY DEF publication, PublicationP!vars, PublicationP!set, PublicationP!store, PublicationP!locals
<1>1. ASSUME NEW q \in Requests, enqueue(q) \/ execute_job(q)
      PROVE  PublicationP!Next \/ UNCHANGED publication
  <2>1. CASE bambu_project_request(q)
    <3>1. CASE UNCHANGED publication
      BY <3>1
    <3>2. CASE bound[q] # None /\ Publication!reconcile_generator_artifact(q, bound[q][1])
      <4>1. bound[q][1] \in Recipes
        BY <3>2 DEF Inv, TypeOK, Checkpoints
      <4> QED
        BY <3>2, <4>1, SameStart DEF PublicationP!Next
    <3> QED
      BY <2>1, <3>1, <3>2 DEF bambu_project_request
  <2>2. CASE bind_bambu_project_output(q)
    <3>1. CASE UNCHANGED publication
      BY <3>1
    <3>2. CASE Publication!publish_generator_output(q, made[q][1], <<made[q][2], q>>)
      <4>1. made[q][1] \in Recipes /\ <<made[q][2], q>> \in Bytes \X Requests
        BY <2>2 DEF Inv, TypeOK, Checkpoints, bind_bambu_project_output
      <4> QED
        BY <3>2, <4>1, SameStart DEF PublicationP!Next
    <3> QED
      BY <2>2, <3>1, <3>2 DEF bind_bambu_project_output
  <2>3. CASE reopen_blocking(q)
    <3>1. CASE UNCHANGED publication
      BY <3>1
    <3>2. CASE Publication!publish_generator_output(q, bound[q][1], <<bound[q][2], q>>)
      <4>1. bound[q][1] \in Recipes /\ <<bound[q][2], q>> \in Bytes \X Requests
        BY <2>3 DEF Inv, TypeOK, Steps, Checkpoints, reopen_blocking
      <4> QED
        BY <3>2, <4>1, SameStart DEF PublicationP!Next
    <3> QED
      BY <2>3, <3>1, <3>2 DEF reopen_blocking
  <2>4. CASE publishing(q)
    BY <2>4, SameProceed DEF publishing, PublicationP!Next
  <2>5. CASE returned(q) \/ timeout(q) \/ crash(q)
    <3>1. Publication!Leave(q) \/ UNCHANGED publication
      BY <2>5 DEF returned, timeout, crash, Abandon
    <3> QED
      BY <3>1, SameLeave DEF PublicationP!Next
  <2>6. CASE \/ enqueue(q) \/ claim_next_job(q) \/ settle(q) \/ record_bambu_project_failure(q)
             \/ run_generator(q) \/ persist_blocking(q) \/ sync_all(q)
    BY <2>6 DEF enqueue, claim_next_job, settle, record_bambu_project_failure, run_generator,
                persist_blocking, sync_all
  <2> QED
    BY <1>1, <2>1, <2>2, <2>3, <2>4, <2>5, <2>6 DEF execute_job, execute_inner
<1>2. CASE power_loss \/ \E c \in Checkpoints : late_install(c) \/ spoil(c)
  BY <1>0, <1>2 DEF power_loss, late_install, spoil
<1>3. CASE outside
  BY <1>3, SameOthers DEF outside, PublicationP!Next
<1>4. CASE UNCHANGED vars
  BY <1>0, <1>4 DEF vars
<1> QED
  BY <1>0, <1>1, <1>2, <1>3, <1>4 DEF Next

\* The projects implement the publication: whatever requests, timeouts, crashes and
\* checkpoints do in between, the artifact sets, the store and the publishers take
\* no step that the publication alone would not.
THEOREM ImplementsPublication == Spec => PublicationP!Spec
<1>1. Init => PublicationP!Init
  BY DEF Init, Publication!Init, PublicationP!Init
<1> QED
  BY <1>1, Invariance, StepsOfPublication, PTL DEF Spec, PublicationP!Spec

\* The assumptions of the publication hold of the projects' constants.
LEMMA PublicationAssumed == PublicationP!PublicationAssumption
BY ProjectAssumption DEF PublicationP!PublicationAssumption

\* (Register: complete_generator_artifact) The sets of a project output behave as
\* the register: at most one is ready, and a superseded one never revives, however
\* the executions of the requests overlap.
THEOREM ProjectsKeepRegister == Spec => PublicationP!ImplementsRegister
BY ImplementsPublication, PublicationAssumed, PublicationP!Refinement, PTL

\* What is served of a recipe is the accepted output of a request bound to it.
ServedWasAccepted ==
  \A r \in Recipes :
    status[r] = "ready" /\ r \notin damaged =>
      \E q \in Requests, b \in Bytes :
        object[r] = <<b, q>> /\ bound[q] = <<r, b>> /\ disk[<<r, b>>] = "durable"

\* (publish_generator_output, bind_bambu_project_output, persist_blocking) A set that
\* is ready and whose object was not damaged in the store serves exactly the bytes of
\* a checkpoint that is durable and that the declaring request is bound to: what a
\* download gets can be published again after any crash.
THEOREM ServedIsRecoverable == Spec => []ServedWasAccepted
<1>1. Spec => []PublicationP!ReadyIsExact
  BY ImplementsPublication, PublicationAssumed, PublicationP!ReadyServesDeclared, PTL
<1>2. Inv /\ PublicationP!ReadyIsExact => ServedWasAccepted
  <2> SUFFICES ASSUME Inv, PublicationP!ReadyIsExact,
                      NEW r \in Recipes, status[r] = "ready", r \notin damaged
               PROVE  \E q \in Requests, b \in Bytes :
                        object[r] = <<b, q>> /\ bound[q] = <<r, b>> /\ disk[<<r, b>>] = "durable"
    BY DEF ServedWasAccepted
  <2>1. object[r] = declared[r]
    BY DEF PublicationP!ReadyIsExact
  <2>2. declared[r] # None
    BY DEF Inv, Rows
  <2>3. declared[r] \in Bytes \X Requests
    BY <2>2 DEF Inv, PublicationType
  <2>4. PICK b \in Bytes, q \in Requests : declared[r] = <<b, q>>
    BY <2>3
  <2>5. bound[q] = <<r, b>>
    <3>1. bound[declared[r][2]] = <<r, declared[r][1]>>
      BY <2>2 DEF Inv, PublishedWasAccepted
    <3>2. declared[r][1] = b /\ declared[r][2] = q
      BY <2>4
    <3> QED
      BY <3>1, <3>2
  <2>6. bound[q] # None
    <3>1. <<r, b>> \in Recipes \X Bytes
      OBVIOUS
    <3> QED
      BY <2>5, <3>1, ProjectAssumption
  <2>7. disk[<<r, b>>] = "durable"
    BY <2>5, <2>6 DEF Inv, BoundIsDurable
  <2> QED
    BY <2>1, <2>4, <2>5, <2>7
<1> QED
  BY <1>1, <1>2, Invariance, PTL

=============================================================================
