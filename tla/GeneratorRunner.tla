--------------------------- MODULE GeneratorRunner ---------------------------
(***************************************************************************)
(* One invocation of the trusted generator: its admission at startup       *)
(* (src/deployed_generator.rs, src/bambu_deployment.rs) and its run under  *)
(* a detached supervisor (src/generator_runner.rs).                        *)
(*                                                                         *)
(* The configuration document is one of a few classes, the executable at   *)
(* its path is what an operator last installed there, and what the child   *)
(* leaves in the invocation root is the record Product.                    *)
(***************************************************************************)
EXTENDS Absence, Naturals

Documents == {"absent", "unreadable", "undecodable", "duplicate", "invalid",
              "reviewed",   \* the complete reviewed release
              "claiming",   \* its digests with another identity or path
              "other"}      \* another valid generator

Executables == {"reviewed", "other", "missing", "nonregular", "noexec"}

\* What run_generator is called with.
Invocation == [options : BOOLEAN,      \* absolute scratch parent, usable timeout
               supported : BOOLEAN,    \* recipe decision and ensure_compatible
               bound : BOOLEAN,        \* recipe, inputs and request agree
               layout : BOOLEAN]       \* distinct paths, no file above another

Product == [result : {"missing", "nonregular", "malformed", "foreign", "invalid",
                      "undeclared", "success", "failure"},
            stray : BOOLEAN,           \* an undeclared, temporary or lost file
            candidate : {"missing", "nonregular", "length", "digest", "exact"}]

RunnerErrors == {"InvalidInvocation", "UnsupportedCombination", "DeploymentIntegrity",
                 "Spawn", "Crash", "UnexpectedExit", "Timeout", "MissingResult",
                 "MalformedResult", "ResultIdentityMismatch", "OutputDeclarationMismatch",
                 "UnexpectedFiles", "CandidateMissing", "CandidateMismatch", "Staging",
                 "Io", "ProcessCleanup", "Cleanup", "Cancelled", "StructuredFailure"}

ASSUME RunnerAssumption ==
  /\ None \notin {"present", "removed", "left", "kept"}
  /\ None \notin {"live", "exited", "reaped"} \cup {"0", "1", "2", "signal"}
  /\ None \notin Executables /\ None \notin RunnerErrors \cup {"accepted"} /\ None \notin Product

VARIABLES
  document,     \* configuration file at TRUSTED_GENERATOR_CONFIG_PATH
  installed,    \* executable at the document's path
  sealed,       \* root-owned paths and the reviewed handoff file
  service,      \* "down", "refused", or the availability it started with
  step,         \* of the supervisor
  invocation,   \* its arguments
  abandoned,    \* the caller was dropped: CancelOnDrop has signalled
  root,         \* invocation directory: None, "present", "removed", "left" or "kept"
  child,        \* None, "live", "exited" (not reaped) or "reaped"
  ran,          \* executable the child was started from, or None
  swapped,      \* observation: another was installed after verify_executable
  exit,         \* its status: None, 0, 1, 2 or "signal"
  product,      \* what it left in the root, or None
  outcome       \* None, "accepted" or an error

deployment == <<document, installed, sealed>>
process == <<child, ran, swapped, exit, product>>
runnerVars == <<deployment, service, step, invocation, abandoned, root, process, outcome>>

RunnerInit ==
  /\ document \in Documents
  /\ installed \in Executables
  /\ sealed \in BOOLEAN
  /\ service = "down"
  /\ step = "idle"
  /\ invocation = None
  /\ abandoned = FALSE
  /\ root = None
  /\ child = None /\ ran = None /\ swapped = FALSE /\ exit = None /\ product = None
  /\ outcome = None

-----------------------------------------------------------------------------
(* Admission.                                                              *)

\* Metadata, open, mode bits and the digest, in this order; only the digest
\* of the document passes.
validate_executable(e) == e = "reviewed"

\* The strict decoder refuses what is not JSON, not one document, or repeats a field.
parse_strict_value(doc) == doc \notin {"undecodable", "duplicate"}

\* DeployedGeneratorDocument::validate.
validate_document(doc) == doc # "invalid"

\* DeployedGenerator::load: the errors that refuse to start the service.
load(doc, e) ==
  IF doc = "absent" THEN "not_configured"
  ELSE IF /\ doc # "unreadable" /\ parse_strict_value(doc)
          /\ validate_document(doc) /\ validate_executable(e)
         THEN doc
         ELSE "refused"

\* Mutant: any admitted document passes for the release.
AnyRelease(doc, isSealed) == doc \in Documents

validate_release(doc, isSealed) == doc = "reviewed" /\ isSealed

\* Only a document with the digests of the release has to be the release.
validate_availability(a) ==
  a \in {"reviewed", "claiming"} => validate_release(a, sealed)

Start ==
  /\ service = "down"
  /\ LET a == load(document, installed) IN
       service' = IF a # "refused" /\ validate_availability(a) THEN a ELSE "refused"
  /\ UNCHANGED <<deployment, step, invocation, abandoned, root, process, outcome>>

\* Every project request checks the release again; the document is the one of
\* the start, the paths and the handoff are read anew.
configured_generator ==
  service \in Documents /\ validate_release(service, sealed)

-----------------------------------------------------------------------------
(* run_generator and its supervisor.                                       *)

\* A caller that has a prepared recipe spawns the supervisor.
run_generator(i) ==
  /\ step = "idle" /\ outcome = None
  /\ configured_generator
  /\ step' = "preflight"
  /\ invocation' = i
  /\ UNCHANGED <<deployment, service, abandoned, root, process, outcome>>

\* The future of run_generator is dropped; the supervisor is detached.
CancelOnDrop ==
  /\ step \notin {"idle", "ended"} /\ ~ abandoned
  /\ abandoned' = TRUE
  /\ UNCHANGED <<deployment, service, step, invocation, root, process, outcome>>

\* The capabilities and identities the invocation needs are those of the document.
ensure_compatible(i) == i.supported

\* Layout::new and Layout::verify.
Layout(i) == i.layout
verify(p) == ~ p.stray

preflight(i) ==
  IF ~ i.options THEN "InvalidInvocation"
  ELSE IF ~ ensure_compatible(i) THEN "UnsupportedCombination"
  ELSE IF ~ i.bound \/ ~ Layout(i) THEN "InvalidInvocation"
  ELSE None

\* The supervisor goes on, or looks at the cancellation and gives up.
Proceed(next, otherwise) == step' = IF abandoned THEN otherwise ELSE next

\* Before the root exists an error ends the supervisor at once.
supervise ==
  /\ step = "preflight"
  /\ LET e == preflight(invocation) IN
       \/ /\ e # None
          /\ step' = "ended" /\ outcome' = e
       \/ /\ e = None
          /\ Proceed("root", "ended")
          /\ outcome' = IF abandoned THEN "Cancelled" ELSE None
  /\ UNCHANGED <<deployment, service, invocation, abandoned, root, process>>

create_root ==
  /\ step = "root"
  /\ \/ root' = "present" /\ step' = "stage" /\ outcome' = None
     \/ root' = root /\ step' = "ended" /\ outcome' = "Staging"
  /\ UNCHANGED <<deployment, service, invocation, abandoned, process>>

\* execute returns e: finish_cleanup follows.
Outcome(e) == outcome' = e /\ step' = "cleanup"

\* Every staged file is measured against its declaration before it is
\* installed, and the tree is compared with the layout.
stage ==
  /\ step = "stage"
  /\ \/ Outcome("Staging")
     \/ abandoned /\ Outcome("Cancelled")
     \/ ~ abandoned /\ step' = "integrity" /\ outcome' = outcome
  /\ UNCHANGED <<deployment, service, invocation, abandoned, root, process>>

\* Mutant: what was measured at startup is not measured again.
VerifiedAtStart ==
  /\ step = "integrity"
  /\ \/ abandoned /\ Outcome("Cancelled")
     \/ ~ abandoned /\ step' = "spawn" /\ outcome' = outcome
  /\ UNCHANGED <<deployment, service, invocation, abandoned, root, process>>

verify_executable ==
  /\ step = "integrity"
  /\ \/ ~ validate_executable(installed) /\ Outcome("DeploymentIntegrity")
     \/ validate_executable(installed) /\ abandoned /\ Outcome("Cancelled")
     \/ validate_executable(installed) /\ ~ abandoned /\ step' = "spawn" /\ outcome' = outcome
  /\ UNCHANGED <<deployment, service, invocation, abandoned, root, process>>

\* The path of the document is started, whatever is there by now.
spawn ==
  /\ step = "spawn"
  /\ \/ Outcome("Spawn") /\ UNCHANGED <<child, ran>>
     \/ /\ installed \in {"reviewed", "other"}
        /\ child' = "live" /\ ran' = installed /\ step' = "run" /\ outcome' = outcome
  /\ UNCHANGED <<deployment, service, invocation, abandoned, root, swapped, exit, product>>

\* External: the child writes what it will and ends, or runs on; after a signal
\* too, for as long as the kernel does not deliver it.
ChildExits ==
  /\ child = "live"
  /\ child' = "exited"
  /\ \E s \in {"0", "1", "2", "signal"}, p \in Product :
       exit' = s /\ product' = p
  /\ UNCHANGED <<deployment, service, step, invocation, abandoned, root, ran, swapped, outcome>>

Reap == child' = IF child = None THEN None ELSE "reaped"

\* child.wait, and the checks of the exit status.
wait ==
  /\ step = "run" /\ child = "exited"
  /\ \/ Outcome("ProcessCleanup") /\ child' = child
     \/ /\ Reap
        /\ IF exit = "signal" THEN Outcome("Crash")
           ELSE IF exit \notin {"0", "1"} THEN Outcome("UnexpectedExit")
           ELSE step' = "accept" /\ outcome' = outcome
  /\ UNCHANGED <<deployment, service, invocation, abandoned, root, ran, swapped, exit, product>>

\* The signal of child.kill: when it cannot be sent the handle is dropped and
\* the child may live on.
Kill(e) ==
  /\ \/ Outcome("ProcessCleanup")
     \/ outcome' = e /\ step' = "killed"
  /\ UNCHANGED <<deployment, service, invocation, abandoned, root, process>>

\* Mutant: the supervisor waits for the child without a limit.
NoTimeout == step = "run" /\ child = "exited" /\ abandoned /\ Kill("Timeout")

\* The sleep of select!; it may win over a child that has just ended.
timeout == step = "run" /\ Kill("Timeout")

cancel == step = "run" /\ abandoned /\ Kill("Cancelled")

\* The wait of child.kill, which has no limit and returns once the child is gone.
await_killed ==
  /\ step = "killed" /\ child = "exited"
  /\ \/ Outcome("ProcessCleanup") /\ child' = child
     \/ Reap /\ Outcome(outcome)
  /\ UNCHANGED <<deployment, service, invocation, abandoned, root, ran, swapped, exit, product>>

\* Mutant: the tree is not compared with the declared files.
AcceptWithoutLayout(p, s) ==
  IF p.result = "success" /\ s = "0" /\ p.candidate = "exact" THEN "accepted"
  ELSE "MalformedResult"

\* accept_final: the result file, its identities, its declaration, the exit
\* code, the tree, and last the candidate, copied and measured.
accept_final(p, s) ==
  IF p.result = "missing" THEN "MissingResult"
  ELSE IF p.result = "nonregular" THEN "UnexpectedFiles"
  ELSE IF p.result = "malformed" THEN "MalformedResult"
  ELSE IF p.result = "foreign" THEN "ResultIdentityMismatch"
  ELSE IF p.result = "invalid" THEN "MalformedResult"
  ELSE IF p.result = "undeclared" THEN "OutputDeclarationMismatch"
  ELSE IF (s = "0") # (p.result = "success") THEN "UnexpectedExit"
  ELSE IF ~ verify(p) THEN "UnexpectedFiles"
  ELSE IF p.result = "failure" THEN "StructuredFailure"
  ELSE IF p.candidate = "missing" THEN "CandidateMissing"
  ELSE IF p.candidate = "nonregular" THEN "UnexpectedFiles"
  ELSE IF p.candidate \in {"length", "digest"} THEN "CandidateMismatch"
  ELSE "accepted"

\* The copy into the retained file may fail.
Accept ==
  /\ step = "accept"
  /\ \/ Outcome(accept_final(product, exit))
     \/ accept_final(product, exit) = "accepted" /\ Outcome("Io")
  /\ UNCHANGED <<deployment, service, invocation, abandoned, root, process>>

\* Mutant: the root is closed whatever the outcome.
CloseAlways ==
  /\ step = "cleanup"
  /\ step' = "ended" /\ root' = "removed" /\ outcome' = outcome
  /\ UNCHANGED <<deployment, service, invocation, abandoned, process>>

\* An unconfirmed child keeps its root; otherwise the root is closed, and a
\* failing close discards even an accepted output.
finish_cleanup ==
  /\ step = "cleanup"
  /\ step' = "ended"
  /\ \/ outcome = "ProcessCleanup" /\ root' = "kept" /\ outcome' = outcome
     \/ outcome # "ProcessCleanup" /\ root' = "removed" /\ outcome' = outcome
     \/ outcome # "ProcessCleanup" /\ root' = "left" /\ outcome' = "Cleanup"
  /\ UNCHANGED <<deployment, service, invocation, abandoned, process>>

-----------------------------------------------------------------------------
\* An operator installs another executable or changes the paths; the service
\* does not see it before it looks, and once the child runs no step reads it.
Redeploy ==
  /\ child = None
  /\ \/ installed' \in Executables \ {installed} /\ UNCHANGED <<document, sealed>>
     \/ sealed' = ~ sealed /\ UNCHANGED <<document, installed>>
  /\ swapped' = (swapped \/ (step = "spawn" /\ installed' # installed))
  /\ UNCHANGED <<service, step, invocation, abandoned, root, child, ran, exit, product, outcome>>

\* The next request of the service; what an ended invocation left is not
\* followed any further.
NextInvocation ==
  /\ step = "ended"
  /\ step' = "idle" /\ invocation' = None /\ abandoned' = FALSE /\ root' = None
  /\ child' = None /\ ran' = None /\ swapped' = FALSE /\ exit' = None /\ product' = None
  /\ outcome' = None
  /\ UNCHANGED <<deployment, service>>

SupervisorStep ==
  \/ supervise \/ create_root \/ stage \/ verify_executable \/ spawn
  \/ wait \/ timeout \/ cancel \/ await_killed \/ Accept \/ finish_cleanup

RunnerNext ==
  \/ Start
  \/ \E i \in Invocation : run_generator(i)
  \/ CancelOnDrop
  \/ SupervisorStep
  \/ ChildExits
  \/ Redeploy
  \/ NextInvocation

RunnerSpec == RunnerInit /\ [][RunnerNext]_runnerVars

\* The runtime polls the supervisor and its timer fires; the child owes
\* nothing, and need not even die of the signal.
RunnerFairness == WF_runnerVars(SupervisorStep)

-----------------------------------------------------------------------------
\* The supervisor of run_generator is at one of its steps and ends with one of the
\* errors of the runner or an accepted output.
RunnerTypeOK ==
  /\ document \in Documents /\ installed \in Executables /\ sealed \in BOOLEAN
  /\ service \in {"down", "refused", "not_configured", "reviewed", "claiming", "other"}
  /\ step \in {"idle", "preflight", "root", "stage", "integrity", "spawn", "run",
               "killed", "accept", "cleanup", "ended"}
  /\ invocation \in Invocation \cup {None}
  /\ abandoned \in BOOLEAN
  /\ root \in {None, "present", "removed", "left", "kept"}
  /\ child \in {None, "live", "exited", "reaped"}
  /\ ran \in Executables \cup {None} /\ swapped \in BOOLEAN
  /\ exit \in {None, "0", "1", "2", "signal"}
  /\ product \in Product \cup {None}
  /\ outcome \in RunnerErrors \cup {None, "accepted"}

\* "Preserve its working root rather than deleting files under a possibly
\* live CLI": whichever of exit, timeout and cancellation ended the run, and
\* whether or not the kill worked, no root is gone before its child is reaped.
RootOutlivesChild == root = "removed" => child \in {None, "reaped"}

\* An output a caller gets was declared under the identities of this
\* invocation, measured as declared, left by a reaped child that ended with 0
\* and nothing else in the tree, and its root is gone.  A failure blamed on
\* the generator is one it declared itself.
VerdictIsBacked ==
  step = "ended" =>
    /\ outcome = "accepted" =>
         /\ root = "removed" /\ child = "reaped" /\ exit = "0"
         /\ product.result = "success" /\ product.candidate = "exact" /\ ~ product.stray
    /\ outcome = "StructuredFailure" =>
         child = "reaped" /\ exit = "1" /\ product.result = "failure" /\ ~ product.stray

\* Whatever was installed while the service ran, and however the configuration
\* was valid when it came up, the child of a project request is started from the
\* executable of the reviewed release, unless another is installed in the moment
\* between the last verify_executable and the spawn.
OnlyReviewedRuns ==
  child # None => service = "reviewed" /\ (ran = "reviewed" \/ swapped)

\* What run_generator starts, leaves behind and reports: only the reviewed release
\* runs, but for an installation at the last moment, no root goes before its
\* child, and every verdict is backed.
RunIsContained ==
  /\ RootOutlivesChild
  /\ VerdictIsBacked
  /\ OnlyReviewedRuns

\* With or without its caller and whatever the child does, a supervisor ends,
\* or the child outlives for ever the signal that was to kill it: child.kill
\* waits for that without a limit.  What a supervisor leaves alive is reported
\* as such.
SupervisorEnds ==
  /\ step = "preflight" ~> (step = "ended" \/ [](step = "killed" /\ child = "live"))
  /\ [](step = "ended" /\ child \in {"live", "exited"} => outcome = "ProcessCleanup")

=============================================================================
