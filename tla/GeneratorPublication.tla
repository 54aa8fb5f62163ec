------------------------ MODULE GeneratorPublication ------------------------
(***************************************************************************)
(* The publication of accepted generator bytes: publish_generator_output   *)
(* and reconcile_generator_artifact of src/generator_publication.rs over   *)
(* the generator rows of artifact_sets and artifact_files in src/db.rs and *)
(* the object store.                                                       *)
(*                                                                         *)
(* The artifact sets of one output (source, configuration, options and     *)
(* output kind) are indexed by the recipe that derives them.  Any number   *)
(* of publishers may be at a set at once; every await is a step.  An       *)
(* output stands for its bytes with all that is declared of them: length,  *)
(* type, SHA-256, result metadata, and the model and job they are          *)
(* presented under.  A reconciliation under another job than the stored    *)
(* one stops with an error, which is a Leave.                              *)
(*                                                                         *)
(* updated_at is kept as a revision: the generator's transitions advance   *)
(* it by at least a millisecond, and it is only ever compared, while the   *)
(* row is ready, with an earlier value of the same row; what a superseded  *)
(* row is stamped with is left out.                                        *)
(***************************************************************************)
EXTENDS Integers

CONSTANTS
  Publishers,
  Recipes,         \* supported recipes of the output
  Outputs,         \* outputs a generator may have produced
  Corrupt,         \* the content of a damaged object
  None,
  MaxRuns,         \* bound: publications and reconciliations started
  MaxDamages       \* bound: objects lost or damaged in the store

ASSUME PublicationAssumption ==
  /\ None \notin Outputs /\ Corrupt \notin Outputs /\ Corrupt # None
  /\ MaxRuns \in Nat /\ MaxDamages \in Nat

VARIABLES
  status,          \* table artifact_sets: status
  revision,        \* updated_at
  declared,        \* table artifact_files: the bytes declared for the set
  object,          \* object store: the bytes at the set's object key
  late,            \* uploads whose publisher is gone and that may still land
  pc,              \* per publisher: the step it is at
  recipe,          \* the set
  output,          \* the bytes it expects
  given,           \* the status it found the set in,
  observed,        \* and the revision
  listed,          \* sets an invalidate / prune command has read
  runs, damages,   \* so far
  \* Observation only: how often a set became ready, the count a publisher
  \* found, and the sets damaged since their last upload.
  renewals, found, damaged

set == <<status, revision, declared>>
store == <<object, late>>
locals == <<pc, recipe, output, given, observed, found>>
vars == <<set, store, locals, listed, runs, damages, renewals, damaged>>

-----------------------------------------------------------------------------
Init ==
  /\ status = [r \in Recipes |-> "absent"]
  /\ revision = [r \in Recipes |-> 0]
  /\ declared = [r \in Recipes |-> None]
  /\ object = [r \in Recipes |-> None]
  /\ late = {}
  /\ pc = [p \in Publishers |-> "idle"]
  /\ recipe = [p \in Publishers |-> None]
  /\ output = [p \in Publishers |-> None]
  /\ given = [p \in Publishers |-> "absent"]
  /\ observed = [p \in Publishers |-> 0]
  /\ listed = {}
  /\ runs = 0
  /\ damages = 0
  /\ renewals = [r \in Recipes |-> 0]
  /\ found = [p \in Publishers |-> 0]
  /\ damaged = {}

Goto(p, step) == pc' = [pc EXCEPT ![p] = step]

Pending == {"staged", "upload_failed"}

\* The publisher keeps the status and updated_at it was given.
Observe(p) ==
  /\ given' = [given EXCEPT ![p] = status[recipe[p]]]
  /\ observed' = [observed EXCEPT ![p] = revision[recipe[p]]]
  /\ found' = [found EXCEPT ![p] = renewals[recipe[p]]]

\* The accepted output is checked against the recipe and copied aside.
publish_generator_output(p, r, b) ==
  /\ pc[p] = "idle" /\ runs < MaxRuns
  /\ runs' = runs + 1
  /\ Goto(p, "stage")
  /\ recipe' = [recipe EXCEPT ![p] = r]
  /\ output' = [output EXCEPT ![p] = b]
  /\ UNCHANGED <<set, store, given, observed, found, listed, damages, renewals,
                 damaged>>

reconcile_generator_artifact(p, r) ==
  /\ pc[p] = "idle" /\ runs < MaxRuns
  /\ runs' = runs + 1
  /\ Goto(p, "load")
  /\ recipe' = [recipe EXCEPT ![p] = r]
  /\ UNCHANGED <<set, store, output, given, observed, found, listed, damages,
                 renewals, damaged>>

\* Mutant: the stored file is not compared.
ResumeOtherBytes(p) ==
  LET r == recipe[p] IN
  /\ pc[p] = "stage"
  /\ status' = [status EXCEPT ![r] = IF @ = "absent" THEN "staged" ELSE @]
  /\ declared' = [declared EXCEPT ![r] = IF @ = None THEN output[p] ELSE @]
  /\ Goto(p, IF status[r] = "superseded" THEN "err"
             ELSE IF status[r] = "ready" THEN "verify" ELSE "upload")
  /\ Observe(p)
  /\ UNCHANGED <<revision, store, recipe, output, listed, runs, damages, renewals,
                 damaged>>

\* Mutant: a set whose upload failed or that was withdrawn cannot be resumed.
ResumeOnlyStaged(p) ==
  LET r == recipe[p] IN
  /\ pc[p] = "stage"
  /\ IF status[r] = "absent"
       THEN /\ status' = [status EXCEPT ![r] = "staged"]
            /\ declared' = [declared EXCEPT ![r] = output[p]]
       ELSE UNCHANGED <<status, declared>>
  /\ Goto(p, IF status[r] \in {"absent", "staged"} THEN "upload" ELSE "err")
  /\ UNCHANGED <<given, observed, found, revision, store, recipe, output, listed,
                 runs, damages, renewals, damaged>>

\* One transaction: insert the set and its file unless the set exists, then
\* compare what is stored.  A superseded set or another file is a conflict.
stage_or_resume_generator_artifact(p) ==
  LET r == recipe[p] IN
  /\ pc[p] = "stage"
  /\ IF status[r] = "absent"
       THEN /\ status' = [status EXCEPT ![r] = "staged"]
            /\ declared' = [declared EXCEPT ![r] = output[p]]
       ELSE UNCHANGED <<status, declared>>
  /\ IF status[r] = "absent" \/ (status[r] # "superseded" /\ declared[r] = output[p])
       THEN /\ Goto(p, IF status[r] = "ready" THEN "verify" ELSE "upload")
            /\ Observe(p)
       ELSE /\ Goto(p, "err")
            /\ UNCHANGED <<given, observed, found>>
  /\ UNCHANGED <<revision, store, recipe, output, listed, runs, damages, renewals,
                 damaged>>

\* Reconciliation takes the stored declaration for the bytes to expect.
generator_artifact_for_reconciliation(p) ==
  LET r == recipe[p] IN
  /\ pc[p] = "load"
  /\ IF status[r] \in Pending \cup {"ready"}
       THEN /\ Goto(p, "recheck")
            /\ output' = [output EXCEPT ![p] = declared[r]]
            /\ Observe(p)
       ELSE /\ Goto(p, "err")
            /\ UNCHANGED <<output, given, observed, found>>
  /\ UNCHANGED <<set, store, recipe, listed, runs, damages, renewals, damaged>>

-----------------------------------------------------------------------------
(* Upload and verification.                                                *)

put_file_with_headers(p) ==
  /\ pc[p] = "upload"
  /\ object' = [object EXCEPT ![recipe[p]] = output[p]]
  /\ damaged' = damaged \ {recipe[p]}
  /\ Goto(p, "verify")
  /\ UNCHANGED <<set, late, recipe, output, given, observed, found, listed, runs,
                 damages, renewals>>

\* The upload is given up; the store may still carry it out.
upload_error(p) ==
  /\ pc[p] = "upload"
  /\ late' \in {late, late \cup {<<recipe[p], output[p]>>}}
  /\ Goto(p, "withdraw")
  /\ UNCHANGED <<set, object, recipe, output, given, observed, found, listed, runs,
                 damages, renewals, damaged>>

\* Mutant: whatever is stored is taken for the upload.
VerifyTrusts(p) ==
  /\ pc[p] \in {"verify", "recheck"}
  /\ Goto(p, IF pc[p] = "verify" THEN "cleanup" ELSE "complete")
  /\ UNCHANGED <<set, store, recipe, output, given, observed, found, listed, runs,
                 damages, renewals, damaged>>

\* HEAD, GET and the hash of what was read.  Another content, and any error
\* of the store, is a failed verification.
verify_exact_object(p) ==
  /\ pc[p] \in {"verify", "recheck"}
  /\ \/ /\ object[recipe[p]] = output[p]
        /\ Goto(p, IF pc[p] = "verify" THEN "cleanup" ELSE "complete")
     \/ Goto(p, "withdraw")
  /\ UNCHANGED <<set, store, recipe, output, given, observed, found, listed, runs,
                 damages, renewals, damaged>>

\* The private copy is removed, or cannot be.  After a failed operation it is
\* removed too, which only adds to the error message.
close(p) ==
  /\ pc[p] = "cleanup"
  /\ Goto(p, "complete") \/ Goto(p, "discard")
  /\ UNCHANGED <<set, store, recipe, output, given, observed, found, listed, runs,
                 damages, renewals, damaged>>

-----------------------------------------------------------------------------
(* Transitions of the set.                                                 *)

\* Row r becomes upload_failed under the condition c of the statement.
Fail(r, c) ==
  IF c
    THEN /\ status' = [status EXCEPT ![r] = "upload_failed"]
         /\ revision' = [revision EXCEPT ![r] = @ + 1]
    ELSE UNCHANGED <<status, revision>>

fail_generator_artifact(p) ==
  /\ pc[p] = "discard" \/ (pc[p] = "withdraw" /\ given[p] # "ready")
  /\ Fail(recipe[p], status[recipe[p]] \in Pending)
  /\ Goto(p, "err")
  /\ UNCHANGED <<declared, store, recipe, output, given, observed, found, listed,
                 runs, damages, renewals, damaged>>

\* Mutant: the revision is not compared.
FailAnyReady(p) ==
  /\ pc[p] = "withdraw" /\ given[p] = "ready"
  /\ Fail(recipe[p], status[recipe[p]] = "ready")
  /\ Goto(p, "err")
  /\ UNCHANGED <<declared, store, recipe, output, given, observed, found, listed,
                 runs, damages, renewals, damaged>>

fail_ready_generator_verification(p) ==
  /\ pc[p] = "withdraw" /\ given[p] = "ready"
  /\ Fail(recipe[p], status[recipe[p]] = "ready"
                       /\ revision[recipe[p]] = observed[p])
  /\ Goto(p, "err")
  /\ UNCHANGED <<declared, store, recipe, output, given, observed, found, listed,
                 runs, damages, renewals, damaged>>

\* Mutant: the set before it is left ready.
CompleteAlone(p) ==
  LET r == recipe[p] IN
  /\ pc[p] = "complete"
  /\ status' = [status EXCEPT ![r] = IF @ \in Pending THEN "ready" ELSE @]
  /\ revision' = [revision EXCEPT ![r] = @ + 1]
  /\ renewals' = [renewals EXCEPT ![r] = @ + 1]
  /\ Goto(p, "ok")
  /\ UNCHANGED <<declared, store, recipe, output, given, observed, found, listed,
                 runs, damages, damaged>>

\* One transaction that holds the writer from its first statement.  The set
\* may be ready already, or superseded since it was staged.
complete_generator_artifact(p) ==
  LET r == recipe[p] IN
  /\ pc[p] = "complete"
  /\ IF status[r] \in Pending
       THEN /\ status' = [s \in Recipes |->
                            IF s = r THEN "ready"
                            ELSE IF status[s] = "ready" THEN "superseded"
                            ELSE status[s]]
            /\ revision' = [revision EXCEPT ![r] = @ + 1]
            /\ renewals' = [renewals EXCEPT ![r] = @ + 1]
       ELSE UNCHANGED <<status, revision, renewals>>
  /\ Goto(p, IF status[r] \in Pending \cup {"ready"} THEN "ok" ELSE "err")
  /\ UNCHANGED <<declared, store, recipe, output, given, observed, found, listed,
                 runs, damages, damaged>>

\* The publisher returns, or is stopped by an error, the timeout of its job
\* or the end of its process; an upload it had begun may still land.
Leave(p) ==
  /\ pc[p] # "idle"
  /\ Goto(p, "idle")
  /\ recipe' = [recipe EXCEPT ![p] = None]
  /\ output' = [output EXCEPT ![p] = None]
  /\ given' = [given EXCEPT ![p] = "absent"]
  /\ observed' = [observed EXCEPT ![p] = 0]
  /\ found' = [found EXCEPT ![p] = 0]
  /\ \/ UNCHANGED late
     \/ pc[p] = "upload" /\ late' = late \cup {<<recipe[p], output[p]>>}
  /\ UNCHANGED <<set, object, listed, runs, damages, renewals, damaged>>

-----------------------------------------------------------------------------
(* The store and the operator.                                             *)

land(r, b) ==
  /\ <<r, b>> \in late
  /\ late' = late \ {<<r, b>>}
  /\ object' = [object EXCEPT ![r] = b]
  /\ damaged' = damaged \ {r}
  /\ UNCHANGED <<set, locals, listed, runs, damages, renewals>>

\* What verification is there to find: the object disappears or changes.
damage(r) ==
  /\ object[r] # None /\ damages < MaxDamages
  /\ damages' = damages + 1
  /\ \E content \in {None, Corrupt} : object' = [object EXCEPT ![r] = content]
  /\ damaged' = damaged \cup {r}
  /\ UNCHANGED <<set, late, locals, listed, runs, renewals>>

\* artifacts invalidate / prune: only ready sets are listed, and a listed set
\* is superseded in whatever status it is by then; or the command stops.
read_artifact(r) ==
  /\ status[r] = "ready" /\ r \notin listed
  /\ listed' = listed \cup {r}
  /\ UNCHANGED <<set, store, locals, runs, damages, renewals, damaged>>

supersede_artifact_set(r) ==
  /\ r \in listed
  /\ listed' = listed \ {r}
  /\ status' = [status EXCEPT ![r] = "superseded"]
  /\ UNCHANGED <<revision, declared, store, locals, runs, damages, renewals,
                 damaged>>

end_command(r) ==
  /\ r \in listed
  /\ listed' = listed \ {r}
  /\ UNCHANGED <<set, store, locals, runs, damages, renewals, damaged>>

-----------------------------------------------------------------------------
Start(p) ==
  \/ \E r \in Recipes, b \in Outputs : publish_generator_output(p, r, b)
  \/ \E r \in Recipes : reconcile_generator_artifact(p, r)

Proceed(p) ==
  \/ stage_or_resume_generator_artifact(p)
  \/ generator_artifact_for_reconciliation(p)
  \/ put_file_with_headers(p)
  \/ upload_error(p)
  \/ verify_exact_object(p)
  \/ close(p)
  \/ fail_generator_artifact(p)
  \/ fail_ready_generator_verification(p)
  \/ complete_generator_artifact(p)

Others ==
  \/ \E r \in Recipes, b \in Outputs : land(r, b)
  \/ \E r \in Recipes :
       \/ damage(r) \/ read_artifact(r) \/ supersede_artifact_set(r)
       \/ end_command(r)

Next == (\E p \in Publishers : Start(p) \/ Proceed(p) \/ Leave(p)) \/ Others

Spec == Init /\ [][Next]_vars

-----------------------------------------------------------------------------
(* Properties.                                                             *)

Statuses == {"absent", "staged", "upload_failed", "ready", "superseded"}

\* The rows, the store and the publishers' locals keep their types.
TypeOK ==
  /\ status \in [Recipes -> Statuses]
  /\ revision \in [Recipes -> Nat]
  /\ declared \in [Recipes -> Outputs \cup {None}]
  /\ object \in [Recipes -> Outputs \cup {None, Corrupt}]
  /\ late \subseteq Recipes \X Outputs
  /\ pc \in [Publishers -> {"idle", "stage", "load", "upload", "verify",
                            "recheck", "cleanup", "complete", "withdraw",
                            "discard", "ok", "err"}]
  /\ recipe \in [Publishers -> Recipes \cup {None}]
  /\ \A p \in Publishers : pc[p] # "idle" => recipe[p] \in Recipes
  /\ output \in [Publishers -> Outputs \cup {None}]
  /\ given \in [Publishers -> Statuses]
  /\ observed \in [Publishers -> Nat]
  /\ listed \subseteq Recipes
  /\ runs \in 0 .. MaxRuns
  /\ damages \in 0 .. MaxDamages
  /\ renewals \in [Recipes -> Nat]
  /\ found \in [Publishers -> Nat]
  /\ damaged \subseteq Recipes

\* A ready set serves exactly the bytes it declares, unless its object was
\* damaged in the store since it was last uploaded: whichever publishers
\* raced, retried with other bytes, gave up an upload that landed later, or
\* reconciled what others had staged.
ReadyIsExact ==
  \A r \in Recipes : status[r] = "ready" /\ r \notin damaged => object[r] = declared[r]

\* The declaration of a set is never replaced, and no upload for a set is
\* ever under way with other bytes than its declaration: "Different bytes
\* under the same recipe are an integrity conflict."
EvidenceIsFinal ==
  [][/\ \A r \in Recipes : declared[r] # None => declared'[r] = declared[r]
     /\ \A r \in Recipes : object'[r] \in {object[r], declared[r], None, Corrupt}]_vars

\* A failed check withdraws only the ready state it observed: never one that
\* was completed since, by a repair or by another publisher, and never on
\* behalf of a publisher that had found the set pending.
WithdrawsObserved ==
  [][\A r \in Recipes :
       status[r] = "ready" /\ status'[r] = "upload_failed" =>
         \E p \in Publishers :
           /\ pc[p] = "withdraw" /\ pc'[p] = "err"
           /\ recipe[p] = r /\ given[p] = "ready" /\ found[p] = renewals[r]]_vars

\* The output as a register: the ready set is current, superseded ones are
\* retired.
Register == INSTANCE OutputRegister WITH
  Sets <- Recipes,
  current <- {r \in Recipes : status[r] = "ready"},
  retired <- {r \in Recipes : status[r] = "superseded"}

\* The publication implements the register: readiness and the supersession of
\* the set before it are one step, at most one set is ready, and superseded
\* sets never revive.
ImplementsRegister == Register!Spec

=============================================================================
