---------------------------- MODULE BambuProject ----------------------------
(***************************************************************************)
(* Bambu project requests: enqueue, execute_job and status of              *)
(* src/bambu_project.rs over the table bambu_project_requests, the output  *)
(* checkpoints of src/generator_output_checkpoint.rs and                   *)
(* GeneratorPublication.                                                   *)
(*                                                                         *)
(* The requests share an output; a request's acquisition may lead to any   *)
(* recipe and the generator to any bytes, so that two requests may be at   *)
(* the same artifact set, each under its own job.  A checkpoint, whose     *)
(* identity is the hash of its receipt, is a recipe with the bytes.        *)
(*                                                                         *)
(* Of the job queue it takes what JobQueue shows for projects: one worker  *)
(* at a time is at a request (ProjectExclusive), and a row whose worker is *)
(* lost is claimed again.  A job that was superseded with its artifact is  *)
(* as one that is ready: requests are enqueued with force.                 *)
(***************************************************************************)
EXTENDS Integers

CONSTANTS
  Requests,        \* request identities, and the jobs of the requests
  Recipes,
  Bytes,           \* bytes the generator may produce
  Corrupt, None,
  MaxClaims,       \* bound: executions started
  MaxDamages,      \* bound: objects lost or damaged
  MaxSpoils        \* bound: checkpoints damaged on disk

ASSUME ProjectAssumption ==
  /\ None \notin Recipes \X Bytes /\ None \notin Bytes \X Requests
  /\ Corrupt \notin Bytes \X Requests /\ Corrupt # None
  /\ MaxClaims \in Nat /\ MaxDamages \in Nat /\ MaxSpoils \in Nat

VARIABLES
  job,             \* status of the request's job
  bound,           \* processing_hash and output_snapshot_identity
  category,        \* failure_category: "none", "failed", "unavailable"
  at,              \* per request: the step its execution is at
  made,            \* the recipe and bytes it is about to bind
  disk,            \* output directory: each checkpoint is absent, visible, or
                   \* durable
  spoiled,         \* checkpoints whose files were damaged
  detached,        \* checkpoints an abandoned blocking task may still install
  claims, spoils,  \* so far
  \* GeneratorPublication, its publishers the requests.
  status, revision, declared, object, late, pc, recipe, output, given,
  observed, listed, runs, damages, renewals, found, damaged

Publication == INSTANCE GeneratorPublication WITH
  Publishers <- Requests,
  Outputs <- Bytes \X Requests,
  MaxRuns <- 2 * MaxClaims

Checkpoints == Recipes \X Bytes

request == <<job, bound, category>>
directory == <<disk, spoiled, detached>>
publication == <<status, revision, declared, object, late, pc, recipe, output,
                 given, observed, listed, runs, damages, renewals, found, damaged>>
vars == <<request, at, made, directory, claims, spoils, publication>>

-----------------------------------------------------------------------------
Init ==
  /\ job = [q \in Requests |-> "absent"]
  /\ bound = [q \in Requests |-> None]
  /\ category = [q \in Requests |-> "none"]
  /\ at = [q \in Requests |-> "idle"]
  /\ made = [q \in Requests |-> None]
  /\ disk = [c \in Checkpoints |-> "absent"]
  /\ spoiled = {}
  /\ detached = {}
  /\ claims = 0
  /\ spoils = 0
  /\ Publication!Init

Goto(q, step) == at' = [at EXCEPT ![q] = step]

Drop(q) == made' = [made EXCEPT ![q] = None]

\* execute_inner returns an error of one of the two kinds.
Fails(q) == Goto(q, "failed") \/ Goto(q, "unavailable")

\* What the status route answers, while catalog and deployment are those of
\* the request.
project_status(q) ==
  IF bound[q] # None /\ status[bound[q][1]] = "ready" THEN "ready"
  ELSE IF job[q] \in {"queued", "running"} THEN job[q]
  ELSE IF category[q] # "none" THEN category[q]
  ELSE IF job[q] = "ready" THEN "pending"
  ELSE IF job[q] = "failed" THEN "failed" ELSE "missing"

\* The request is stored, its status looked at, and unless that is ready or
\* unavailable the job is then enqueued with force; a row that is queued or
\* running is left alone.  Any number of callers may have looked when the
\* request was still missing and come to enqueue late, so what the status is
\* by now does not matter.
enqueue(q) ==
  /\ job[q] \in {"absent", "ready", "failed"}
  /\ job' = [job EXCEPT ![q] = "queued"]
  /\ UNCHANGED <<bound, category, at, made, directory, claims, spoils, publication>>

\* A queued row, or one whose worker is gone.
claim_next_job(q) ==
  /\ at[q] = "idle" /\ job[q] \in {"queued", "running"} /\ claims < MaxClaims
  /\ claims' = claims + 1
  /\ job' = [job EXCEPT ![q] = "running"]
  /\ Goto(q, "read")
  /\ UNCHANGED <<bound, category, made, directory, spoils, publication>>

-----------------------------------------------------------------------------
(* execute_inner.                                                          *)

\* Mutant: the stored association is not looked at.
ReadIgnoresBinding(q) ==
  /\ at[q] = "read"
  /\ Goto(q, "acquire")
  /\ UNCHANGED <<request, made, directory, claims, spoils, publication>>

\* The checks of the request against deployment, catalog, parameters and
\* source, and the stored association: reconcile if there is one, acquire
\* otherwise.
bambu_project_request(q) ==
  /\ at[q] = "read"
  /\ \/ Fails(q) /\ UNCHANGED publication
     \/ /\ bound[q] = None
        /\ Goto(q, "acquire")
        /\ UNCHANGED publication
     \/ /\ bound[q] # None
        /\ Goto(q, "reconcile")
        /\ Publication!reconcile_generator_artifact(q, bound[q][1])
  /\ UNCHANGED <<request, made, directory, claims, spoils>>

\* Geometry is acquired, the recipe prepared and the generator run.
run_generator(q) ==
  /\ at[q] = "acquire"
  /\ \/ Fails(q) /\ UNCHANGED made
     \/ /\ made' \in {[made EXCEPT ![q] = c] : c \in Checkpoints}
        /\ Goto(q, "persist")
  /\ UNCHANGED <<request, directory, claims, spoils, publication>>

\* The files were written and synced under a private name: they are renamed
\* to the checkpoint's, unless that exists, which is then read and checked.
persist_blocking(q) ==
  LET c == made[q] IN
  /\ at[q] = "persist"
  /\ \/ /\ disk[c] = "absent"
        /\ disk' = [disk EXCEPT ![c] = "visible"]
        /\ Goto(q, "sync")
        /\ UNCHANGED made
     \/ /\ disk[c] # "absent" /\ c \notin spoiled
        /\ Goto(q, "sync")
        /\ UNCHANGED <<disk, made>>
     \/ Goto(q, "failed") /\ Drop(q) /\ UNCHANGED disk
  /\ UNCHANGED <<request, spoiled, detached, claims, spoils, publication>>

Synced == [c \in Checkpoints |-> IF disk[c] = "visible" THEN "durable" ELSE disk[c]]

\* Mutant: the directory is not synced.
SyncNothing(q) ==
  /\ at[q] = "sync"
  /\ Goto(q, "bind")
  /\ UNCHANGED <<request, made, directory, claims, spoils, publication>>

\* The output directory is synced, and with it every entry.
sync_all(q) ==
  /\ at[q] = "sync"
  /\ \/ disk' = Synced /\ Goto(q, "bind") /\ UNCHANGED made
     \/ Goto(q, "failed") /\ Drop(q) /\ UNCHANGED disk
  /\ UNCHANGED <<request, spoiled, detached, claims, spoils, publication>>

\* Mutant: publication starts before the association is committed.
PublishUnbound(q) ==
  /\ at[q] = "bind"
  /\ Goto(q, "publish")
  /\ Publication!publish_generator_output(q, made[q][1], <<made[q][2], q>>)
  /\ Drop(q)
  /\ UNCHANGED <<request, directory, claims, spoils>>

\* One transaction: the association is set once, and an equal one kept; then
\* the output is published.
bind_bambu_project_output(q) ==
  /\ at[q] = "bind"
  /\ \/ /\ bound[q] \in {None, made[q]}
        /\ bound' = [bound EXCEPT ![q] = made[q]]
        /\ category' = [category EXCEPT ![q] = "none"]
        /\ Goto(q, "publish")
        /\ Publication!publish_generator_output(q, made[q][1], <<made[q][2], q>>)
     \/ Goto(q, "failed") /\ UNCHANGED <<bound, category, publication>>
  /\ Drop(q)
  /\ UNCHANGED <<job, directory, claims, spoils>>

\* The bound checkpoint is read and checked, and its bytes published again.
reopen_blocking(q) ==
  /\ at[q] = "reopen"
  /\ \/ /\ disk[bound[q]] # "absent" /\ bound[q] \notin spoiled
        /\ Goto(q, "publish")
        /\ Publication!publish_generator_output(q, bound[q][1], <<bound[q][2], q>>)
     \/ Goto(q, "failed") /\ UNCHANGED publication
  /\ UNCHANGED <<request, made, directory, claims, spoils>>

\* Reconciliation stops at a set that is presented under another job.
OwnSet(q) ==
  pc[q] = "load" /\ declared[recipe[q]] # None => declared[recipe[q]][2] = q

publishing(q) ==
  /\ OwnSet(q)
  /\ Publication!Proceed(q)
  /\ UNCHANGED <<request, at, made, directory, claims, spoils>>

\* Mutant: any return is taken for success.
ReturnedFinishes(q) ==
  /\ at[q] \in {"publish", "reconcile"}
  /\ Publication!Leave(q)
  /\ Goto(q, "finish")
  /\ UNCHANGED <<request, made, directory, claims, spoils>>

\* The publication or reconciliation returns, with an error from any step it
\* did not complete.  A reconciliation that did not succeed is followed by
\* publication from the checkpoint.
returned(q) ==
  /\ at[q] \in {"publish", "reconcile"}
  /\ Publication!Leave(q)
  /\ Goto(q, IF pc[q] = "ok" THEN "finish"
             ELSE IF at[q] = "reconcile" THEN "reopen" ELSE "failed")
  /\ UNCHANGED <<request, made, directory, claims, spoils>>

-----------------------------------------------------------------------------
(* execute_job and the worker around it.                                   *)

Outcomes == {"finish", "failed", "unavailable"}

\* The outcome is stored.  A request that is unavailable is a finished job.
record_bambu_project_failure(q) ==
  /\ at[q] \in Outcomes
  /\ \/ /\ category' = [category EXCEPT ![q] =
                          IF at[q] = "finish" THEN "none" ELSE at[q]]
        /\ Goto(q, IF at[q] = "failed" THEN "err" ELSE "ok")
     \/ Goto(q, "err") /\ UNCHANGED category
  /\ UNCHANGED <<job, bound, made, directory, claims, spoils, publication>>

\* finish_job, or record_job_failure with or without an attempt left.
settle(q) ==
  /\ at[q] \in {"ok", "err"}
  /\ \E s \in IF at[q] = "ok" THEN {"ready"} ELSE {"queued", "failed"} :
       job' = [job EXCEPT ![q] = s]
  /\ Goto(q, "idle")
  /\ UNCHANGED <<bound, category, made, directory, claims, spoils, publication>>

\* The execution of q is dropped where it is, and a publication with it.  The
\* blocking task that installs a checkpoint goes on by itself.
Abandon(q) ==
  /\ Drop(q)
  /\ IF pc[q] = "idle" THEN UNCHANGED publication ELSE Publication!Leave(q)
  /\ detached' = IF at[q] \in {"persist", "sync"} THEN detached \cup {made[q]}
                 ELSE detached

\* The 30 minute timeout.
timeout(q) ==
  /\ at[q] \notin {"idle", "ok", "err"}
  /\ Abandon(q)
  /\ Goto(q, "failed")
  /\ UNCHANGED <<request, disk, spoiled, claims, spoils>>

\* The worker is lost; what its blocking task still does comes before.
crash(q) ==
  /\ at[q] # "idle"
  /\ Drop(q)
  /\ IF pc[q] = "idle" THEN UNCHANGED publication ELSE Publication!Leave(q)
  /\ Goto(q, "idle")
  /\ UNCHANGED <<request, directory, claims, spoils>>

-----------------------------------------------------------------------------
(* The disk.                                                               *)

late_install(c) ==
  /\ c \in detached
  /\ detached' = detached \ {c}
  /\ LET installed == [disk EXCEPT ![c] = IF @ = "absent" THEN "visible" ELSE @]
     IN  disk' \in {installed, [d \in Checkpoints |->
                      IF installed[d] = "visible" THEN "durable" ELSE installed[d]]}
  /\ UNCHANGED <<request, at, made, spoiled, claims, spoils, publication>>

\* With all workers gone: entries of the directory that were not synced may
\* be lost.
power_loss ==
  /\ \A q \in Requests : at[q] = "idle"
  /\ \E lost \in SUBSET {c \in Checkpoints : disk[c] = "visible"} :
       /\ disk' = [c \in Checkpoints |-> IF c \in lost THEN "absent" ELSE disk[c]]
       /\ spoiled' = spoiled \ lost
  /\ detached' = {}
  /\ UNCHANGED <<request, at, made, claims, spoils, publication>>

\* What reopening is there to find.
spoil(c) ==
  /\ disk[c] # "absent" /\ c \notin spoiled /\ spoils < MaxSpoils
  /\ spoiled' = spoiled \cup {c}
  /\ spoils' = spoils + 1
  /\ UNCHANGED <<request, at, made, disk, detached, claims, publication>>

-----------------------------------------------------------------------------
execute_inner(q) ==
  \/ bambu_project_request(q) \/ run_generator(q) \/ persist_blocking(q)
  \/ sync_all(q) \/ bind_bambu_project_output(q) \/ reopen_blocking(q)
  \/ publishing(q) \/ returned(q)

execute_job(q) ==
  \/ claim_next_job(q) \/ execute_inner(q) \/ record_bambu_project_failure(q)
  \/ settle(q) \/ timeout(q) \/ crash(q)

\* Object store and operator.
outside ==
  /\ Publication!Others
  /\ UNCHANGED <<request, at, made, directory, claims, spoils>>

Next ==
  \/ \E q \in Requests : enqueue(q) \/ execute_job(q)
  \/ \E c \in Checkpoints : late_install(c) \/ spoil(c)
  \/ power_loss
  \/ outside

Spec == Init /\ [][Next]_vars

-----------------------------------------------------------------------------
(* Properties.                                                             *)

\* The tables, the directory and the executions' locals keep their types, and
\* an execution publishes only in the steps that wait for it.
TypeOK ==
  /\ job \in [Requests -> {"absent", "queued", "running", "ready", "failed"}]
  /\ bound \in [Requests -> Checkpoints \cup {None}]
  /\ category \in [Requests -> {"none", "failed", "unavailable"}]
  /\ at \in [Requests -> {"idle", "read", "acquire", "persist", "sync", "bind",
                          "publish", "reconcile", "reopen", "ok", "err"}
                         \cup Outcomes]
  /\ made \in [Requests -> Checkpoints \cup {None}]
  /\ \A q \in Requests :
       /\ at[q] \in {"persist", "sync", "bind"} <=> made[q] # None
       /\ at[q] \in {"publish", "reconcile"} <=> pc[q] # "idle"
       /\ at[q] # "idle" => job[q] = "running"
  /\ disk \in [Checkpoints -> {"absent", "visible", "durable"}]
  /\ spoiled \subseteq Checkpoints
  /\ detached \subseteq Checkpoints
  /\ claims \in 0 .. MaxClaims
  /\ spoils \in 0 .. MaxSpoils

\* A request that is bound can be recovered: its checkpoint survives crashes
\* and power losses at any moment, those between the rename, the sync of the
\* directory and the commit of the association included, and whoever else was
\* installing the same one.
BoundIsDurable ==
  \A q \in Requests : bound[q] # None => disk[bound[q]] = "durable"

\* Every artifact set declares the output of one accepted invocation: the
\* request under whose job it is presented is bound to its recipe and to a
\* checkpoint of the same bytes.
PublishedWasAccepted ==
  \A r \in Recipes :
    declared[r] # None => bound[declared[r][2]] = <<r, declared[r][1]>>

\* "After binding, recovery never reacquires geometry to change its recipe."
\* The association stays, and no later execution acquires.
BindingIsFinal ==
  [][\A q \in Requests :
       bound[q] # None => bound'[q] = bound[q] /\ at'[q] # "acquire"]_vars

\* A request's own earlier publications are never in the way of its recovery:
\* staging what the checkpoint holds is refused only if the set is superseded
\* or was declared by another request's job.
OwnRepairIsAccepted ==
  [][\A q \in Requests :
       at'[q] = "publish" /\ pc[q] = "stage" /\ pc'[q] = "err" =>
         \/ status[recipe[q]] = "superseded"
         \/ declared[recipe[q]][2] # q]_vars

\* The status route answers "pending" for a finished job only if the request
\* has published before: its set is there, withdrawn or superseded since.  A
\* job that ends as ready has published or has a recorded failure, however
\* many executions, timeouts and lost writes came before.
PendingWasPublished ==
  \A q \in Requests :
    project_status(q) = "pending" =>
      bound[q] # None /\ status[bound[q][1]] \in {"upload_failed", "superseded"}

=============================================================================
