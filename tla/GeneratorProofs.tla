--------------------------- MODULE GeneratorProofs ---------------------------
(***************************************************************************)
(* Proofs about GeneratorRunner, an invocation of the generator whatever   *)
(* document and executable are installed and replaced, whatever the child  *)
(* does, and whenever its caller goes away; and about GeneratorDocuments,  *)
(* from the plan and its documents over the recipe that was prepared to    *)
(* the result that is accepted.                                            *)
(***************************************************************************)
EXTENDS GeneratorRunner, GeneratorDocuments, FiniteSetTheorems, TLAPS

\* What is there at each step of the supervisor.  The root is present from
\* create_root to finish_cleanup, the child from spawn, and a child whose exit
\* was taken over by wait has left a product and a status.
StepsOfRunner ==
  /\ step \in {"idle", "preflight", "root"} => root = None /\ child = None
  /\ step \in {"stage", "integrity", "spawn"} => root = "present" /\ child = None
  /\ step \in {"run", "killed"} => root = "present" /\ child \in {"live", "exited"}
  /\ step = "killed" => outcome \in {"Timeout", "Cancelled"}
  /\ step = "accept" => root = "present" /\ child = "reaped" /\ exit \in {"0", "1"}
                        /\ product \in Product
  /\ step = "cleanup" => root = "present"
  /\ child = "exited" => product \in Product

\* Only ProcessCleanup ends a run whose child is not known to be gone.
Confirmed ==
  step \in {"cleanup", "ended"} /\ outcome \notin {"ProcessCleanup"} =>
    child \in {None, "reaped"}

\* accept_final is where a verdict on the generator comes from.
Backed ==
  step \in {"cleanup", "ended"} =>
    /\ outcome = "accepted" =>
         /\ child = "reaped" /\ exit = "0"
         /\ product.result = "success" /\ product.candidate = "exact" /\ ~ product.stray
         /\ step = "ended" => root = "removed"
    /\ outcome = "StructuredFailure" =>
         child = "reaped" /\ exit = "1" /\ product.result = "failure" /\ ~ product.stray

\* A root is removed or kept by finish_cleanup only.
RootEnds ==
  /\ root \in {"removed", "left"} => step = "ended" /\ outcome # "ProcessCleanup"
  /\ step # "idle" => service = "reviewed"

\* From verify_executable on, the executable is the measured one unless another
\* was installed at the last moment; the child is started from it.
Measured ==
  /\ step = "spawn" => installed = "reviewed" \/ swapped
  /\ child # None => ran = "reviewed" \/ swapped

RunnerInv ==
  RunnerTypeOK /\ StepsOfRunner /\ Confirmed /\ Backed /\ RootEnds /\ Measured

LEMMA RunnerInvInit == RunnerInit => RunnerInv
<1> SUFFICES ASSUME RunnerInit PROVE RunnerInv
  OBVIOUS
<1>1. RunnerTypeOK
  BY DEF RunnerInit, RunnerTypeOK
<1>2. StepsOfRunner /\ Confirmed /\ Backed /\ RootEnds /\ Measured
  BY RunnerAssumption DEF RunnerInit, StepsOfRunner, Confirmed, Backed, RootEnds, Measured
<1> QED
  BY <1>1, <1>2 DEF RunnerInv

\* accept_final takes an output or blames the generator only on its evidence.
LEMMA AcceptedOnEvidence ==
  ASSUME NEW p \in Product, NEW s \in {"0", "1"}
  PROVE  /\ accept_final(p, s) \in RunnerErrors \cup {"accepted"}
         /\ accept_final(p, s) # "ProcessCleanup"
         /\ accept_final(p, s) = "accepted" =>
              s = "0" /\ p.result = "success" /\ p.candidate = "exact" /\ ~ p.stray
         /\ accept_final(p, s) = "StructuredFailure" =>
              s = "1" /\ p.result = "failure" /\ ~ p.stray
  BY DEF accept_final, Product, RunnerErrors, verify

LEMMA RunnerInvNext == RunnerInv /\ [RunnerNext]_runnerVars => RunnerInv'
<1> SUFFICES ASSUME RunnerInv, [RunnerNext]_runnerVars PROVE RunnerInv'
  OBVIOUS
<1> USE RunnerAssumption DEF RunnerInv, RunnerTypeOK, StepsOfRunner, Confirmed, Backed, RootEnds,
    Measured, deployment, process
<1>1. CASE Start
  <2>1. service' \in {"refused", "not_configured", "reviewed", "claiming", "other"}
    BY <1>1 DEF Start, load, parse_strict_value, validate_document, validate_executable, Documents
  <2>2. step = "idle"
    BY <1>1 DEF Start
  <2> QED
    BY <1>1, <2>1, <2>2 DEF Start
<1>2. ASSUME NEW i \in Invocation, run_generator(i) PROVE RunnerInv'
  BY <1>2 DEF run_generator, configured_generator, validate_release
<1>3. CASE CancelOnDrop
  BY <1>3 DEF CancelOnDrop
<1>4. CASE supervise
  BY <1>4 DEF supervise, preflight, Proceed, RunnerErrors
<1>5. CASE create_root
  BY <1>5 DEF create_root, RunnerErrors
<1>6. CASE stage
  BY <1>6 DEF stage, Outcome, RunnerErrors
<1>7. CASE verify_executable
  BY <1>7 DEF verify_executable, validate_executable, Outcome, RunnerErrors
<1>8. CASE spawn
  BY <1>8 DEF spawn, Outcome, RunnerErrors
<1>9. CASE wait
  BY <1>9 DEF wait, Outcome, Reap, RunnerErrors
<1>10. CASE timeout
  BY <1>10 DEF timeout, Kill, Outcome, RunnerErrors
<1>11. CASE cancel
  BY <1>11 DEF cancel, Kill, Outcome, RunnerErrors
<1>12. CASE Accept
  BY <1>12, AcceptedOnEvidence DEF Accept, Outcome, RunnerErrors
<1>13. CASE finish_cleanup
  BY <1>13 DEF finish_cleanup, RunnerErrors
<1>14. CASE ChildExits
  BY <1>14 DEF ChildExits
<1>15. CASE Redeploy
  <2>1. installed' \in Executables /\ document' \in Documents
    BY <1>15 DEF Redeploy
  <2>2. sealed' \in BOOLEAN
    <3>1. sealed' = ~ sealed \/ sealed' = sealed
      BY <1>15 DEF Redeploy
    <3> QED
      BY <3>1, Zenon
  <2>3. swapped' \in BOOLEAN
    BY <1>15, Zenon DEF Redeploy
  <2>4. step = "spawn" => installed' = "reviewed" \/ swapped'
    BY <1>15 DEF Redeploy
  <2> QED
    BY <1>15, <2>1, <2>2, <2>3, <2>4 DEF Redeploy
<1>16. CASE await_killed
  BY <1>16 DEF await_killed, Outcome, Reap, RunnerErrors
<1>17. CASE NextInvocation
  BY <1>17 DEF NextInvocation
<1>18. CASE UNCHANGED runnerVars
  BY <1>18 DEF runnerVars
<1> QED
  BY <1>1, <1>2, <1>3, <1>4, <1>5, <1>6, <1>7, <1>8, <1>9, <1>10, <1>11, <1>12, <1>13,
     <1>14, <1>15, <1>16, <1>17, <1>18 DEF RunnerNext, SupervisorStep

\* run_generator: whatever is deployed, whatever the child does and whoever is
\* still waiting, the child is started from the executable of the reviewed
\* release, unless another is installed between the last verify_executable and
\* the spawn; no root goes before its child is reaped, and an accepted output or
\* a blamed failure is backed by what the child left.
THEOREM RunsAreContained == RunnerSpec => []RunIsContained
<1>1. RunnerInv => RunIsContained
  BY RunnerAssumption DEF RunnerInv, RunnerTypeOK, StepsOfRunner, Confirmed, Backed, RootEnds,
     Measured, RunIsContained, RootOutlivesChild, VerdictIsBacked, OnlyReviewedRuns
<1> QED
  BY <1>1, RunnerInvInit, RunnerInvNext, PTL DEF RunnerSpec

-----------------------------------------------------------------------------
(* The recipe and the result.  A stored row may be altered in any of its   *)
(* documents, but not the hash it is stored under; reopens compares it     *)
(* with the recipe of the current deployment, and from then on neither the *)
(* deployment nor the documents of the request change.                     *)

\* The row is a row, and its hash is of a recipe for the constructed documents.
RowIsOfBundle ==
  /\ recipeRow = [hash |-> recipeRow.hash, recipe |-> recipeRow.recipe,
                  occurrences |-> recipeRow.occurrences]
  /\ \E d \in Deployments, supported \in BOOLEAN :
       recipeRow.hash = Recipe(d, supported, bundle.manifest, bundle.settings)

DocumentsInv ==
  /\ deployed \in Deployments
  /\ dstep = "stored" => RowIsOfBundle
  /\ reopened # None => dstep = "stored"
  /\ acceptedResult # None => reopened # None
  /\ ReopenedIsPrepared
  /\ AcceptedAnswersInvocation

LEMMA RecipeFields ==
  ASSUME NEW d, NEW supported, NEW m, NEW s
  PROVE  /\ Recipe(d, supported, m, s).manifest = m
         /\ Recipe(d, supported, m, s).settings = s
         /\ Recipe(d, supported, m, s).invocation.settings_identity = s
         /\ Recipe(d, supported, m, s).invocation.output = "declared"
  BY DEF Recipe, InvocationOf

LEMMA DocumentsInvInit == DocumentsInit => DocumentsInv
  BY DEF DocumentsInit, DocumentsInv, ReopenedIsPrepared, AcceptedAnswersInvocation

LEMMA DocumentsInvNext == DocumentsInv /\ [DocumentsNext]_documentVars => DocumentsInv'
<1> SUFFICES ASSUME DocumentsInv, [DocumentsNext]_documentVars PROVE DocumentsInv'
  OBVIOUS
<1> USE DEF DocumentsInv
\* Up to the recipe there is nothing to reopen.
<1>1. ASSUME dstep \in {"plan", "planned", "constructed"}, dstep' # "stored",
             UNCHANGED <<deployed, reopened, acceptedResult>>
      PROVE  DocumentsInv'
  BY <1>1 DEF ReopenedIsPrepared, AcceptedAnswersInvocation
<1>2. ASSUME NEW c \in CarrierPairs, NEW part \in ConfiguredParts, read_part(c, part)
      PROVE  DocumentsInv'
  BY <1>1, <1>2 DEF read_part
<1>3. ASSUME NEW t \in TextLengths, finish_plan(t) PROVE DocumentsInv'
  BY <1>1, <1>3 DEF finish_plan
<1>4. CASE construct_generator_inputs
  BY <1>1, <1>4 DEF construct_generator_inputs
<1>5. ASSUME NEW supported \in BOOLEAN, NEW matching \in BOOLEAN,
             prepare_generator_processing(supported, matching)
      PROVE  DocumentsInv'
  <2>1. dstep = "constructed" /\ UNCHANGED <<bundle, deployed, reopened, acceptedResult>>
    BY <1>5 DEF prepare_generator_processing
  <2>2. CASE dstep' = "refused"
    BY <1>1, <2>1, <2>2
  <2>3. CASE dstep' # "refused"
    <3> DEFINE r == Recipe(deployed, supported, bundle.manifest, bundle.settings)
    <3>1. recipeRow' = [hash |-> r, recipe |-> r, occurrences |-> derive_occurrences(r)]
      BY <1>5, <2>3 DEF prepare_generator_processing
    <3> HIDE DEF r
    <3>2. recipeRow'.hash = r /\ recipeRow' = [hash |-> recipeRow'.hash,
            recipe |-> recipeRow'.recipe, occurrences |-> recipeRow'.occurrences]
      BY <3>1
    <3>3. RowIsOfBundle'
      BY <2>1, <3>2 DEF RowIsOfBundle, r, Recipe, InvocationOf
    <3> QED
      BY <2>1, <3>3 DEF ReopenedIsPrepared, AcceptedAnswersInvocation
  <2> QED
    BY <2>2, <2>3
<1>6. CASE Damage
  <2>1. dstep = "stored" /\ UNCHANGED <<bundle, deployed, reopened, acceptedResult, dstep>>
    BY <1>6 DEF Damage
  <2>2. ASSUME NEW f, NEW v,
               f = [hash |-> f.hash, recipe |-> f.recipe, occurrences |-> f.occurrences]
        PROVE  /\ [f EXCEPT !.recipe = v].hash = f.hash
               /\ [f EXCEPT !.occurrences = v].hash = f.hash
               /\ \A g \in {[f EXCEPT !.recipe = v], [f EXCEPT !.occurrences = v]} :
                    g = [hash |-> g.hash, recipe |-> g.recipe, occurrences |-> g.occurrences]
    BY <2>2
  <2>3. \E v : recipeRow' \in {[recipeRow EXCEPT !.recipe = v],
                               [recipeRow EXCEPT !.occurrences = v]}
    BY <1>6 DEF Damage
  <2>4. RowIsOfBundle'
    BY <2>1, <2>2, <2>3 DEF RowIsOfBundle, Recipe, InvocationOf
  <2> QED
    BY <2>1, <2>4 DEF ReopenedIsPrepared, AcceptedAnswersInvocation, Recipe, InvocationOf
<1>7. CASE DeployOther
  <2>1. /\ dstep = "stored" /\ reopened = None /\ deployed' \in Deployments
        /\ UNCHANGED <<bundle, recipeRow, reopened, acceptedResult, dstep>>
    BY <1>7 DEF DeployOther
  <2> QED
    BY <2>1 DEF RowIsOfBundle, Recipe, InvocationOf, ReopenedIsPrepared,
                AcceptedAnswersInvocation
<1>8. CASE reopen_generator_processing
  <2>1. /\ dstep = "stored" /\ reopened = None /\ acceptedResult = None
        /\ reopens(recipeRow) /\ reopened' = recipeRow.recipe
        /\ UNCHANGED <<bundle, deployed, recipeRow, acceptedResult, dstep>>
    BY <1>8 DEF reopen_generator_processing
  <2>2. /\ recipeRow.recipe = recipeRow.hash
        /\ Recipe(deployed, TRUE, recipeRow.recipe.manifest, recipeRow.recipe.settings)
             = recipeRow.hash
    BY <2>1 DEF reopens
  <2>3. recipeRow.hash.manifest = bundle.manifest
        /\ recipeRow.hash.settings = bundle.settings
    BY <2>1, RecipeFields DEF RowIsOfBundle
  <2>4. reopened' = Recipe(deployed, TRUE, bundle.manifest, bundle.settings)
    BY <2>1, <2>2, <2>3
  <2>5. RowIsOfBundle'
    BY <2>1 DEF RowIsOfBundle, Recipe, InvocationOf
  <2> QED
    BY <2>1, <2>4, <2>5 DEF ReopenedIsPrepared, AcceptedAnswersInvocation, Recipe,
                            InvocationOf
<1>9. ASSUME reopened # None, NEW r \in Results, AcceptResult(r) PROVE DocumentsInv'
  <2>1. /\ validate_against_request(r) /\ acceptedResult' = r
        /\ UNCHANGED <<bundle, deployed, recipeRow, reopened, dstep>>
    BY <1>9 DEF AcceptResult
  <2>2. reopened.invocation.output = "declared"
        /\ reopened.invocation.settings_identity = bundle.settings
    BY <1>9 DEF ReopenedIsPrepared, Recipe, InvocationOf
  <2>3. AcceptedAnswersInvocation'
    BY <2>1, <2>2 DEF AcceptedAnswersInvocation, validate_against_request
  <2> QED
    BY <1>9, <2>1, <2>3 DEF RowIsOfBundle, Recipe, InvocationOf, ReopenedIsPrepared
<1>10. CASE NextDocuments
  BY <1>10 DEF NextDocuments, ReopenedIsPrepared, AcceptedAnswersInvocation
<1>11. CASE UNCHANGED documentVars
  BY <1>11 DEF documentVars, RowIsOfBundle, Recipe, InvocationOf, ReopenedIsPrepared,
               AcceptedAnswersInvocation
<1> QED
  BY <1>2, <1>3, <1>4, <1>5, <1>6, <1>7, <1>8, <1>9, <1>10, <1>11 DEF DocumentsNext

\* However the stored row was damaged and whatever was deployed in between, a
\* recipe that reopens is the one that was prepared, and a result that is
\* accepted answers its invocation.
THEOREM ResultsAnswerRecipe == DocumentsSpec => []ResultAnswersRecipe
<1>1. DocumentsInv => ResultAnswersRecipe
  BY DEF DocumentsInv, ResultAnswersRecipe
<1> QED
  BY <1>1, DocumentsInvInit, DocumentsInvNext, PTL DEF DocumentsSpec

-----------------------------------------------------------------------------
(* The documents of a plan. *)

\* The place of a position is how many positions are not after it: the places
\* are 1 to the number of positions, each taken once.
LEMMA InOrderEnumerates ==
  ASSUME NEW n \in Nat, NEW S \in SUBSET (1..n)
  PROVE  /\ Cardinality(S) \in Nat /\ DOMAIN InOrder(S) = 1..Cardinality(S)
         /\ \A k \in DOMAIN InOrder(S) : InOrder(S)[k] \in S
         /\ \A k, l \in DOMAIN InOrder(S) : InOrder(S)[k] = InOrder(S)[l] => k = l
         /\ \A i \in S : \E k \in DOMAIN InOrder(S) : InOrder(S)[k] = i
<1> DEFINE UpTo(i) == {j \in S : j <= i}
           place == [i \in S |-> Cardinality(UpTo(i))]
           size == Cardinality(S)
<1>1. IsFiniteSet(S) /\ size \in Nat
  <2>1. IsFiniteSet(1..n)
    BY FS_Interval
  <2>2. IsFiniteSet(S)
    BY <2>1, FS_Subset
  <2> QED
    BY <2>2, FS_CardinalityType
<1>2. \A i \in S : i \in Nat /\ IsFiniteSet(UpTo(i)) /\ i \in UpTo(i)
  <2> TAKE i \in S
  <2>1. i \in Nat
    OBVIOUS
  <2>2. UpTo(i) \in SUBSET S /\ i \in UpTo(i)
    BY <2>1
  <2> QED
    BY <1>1, <2>1, <2>2, FS_Subset
<1>3. \A i \in S : Cardinality(UpTo(i)) \in 1..size
  <2> TAKE i \in S
  <2>1. Cardinality(UpTo(i)) \in Nat /\ Cardinality(UpTo(i)) # 0
    BY <1>2, FS_CardinalityType, FS_EmptySet
  <2>2. UpTo(i) \in SUBSET S
    OBVIOUS
  <2>3. Cardinality(UpTo(i)) <= size
    BY <1>1, <2>2, FS_Subset
  <2> QED
    BY <1>1, <2>1, <2>3
<1>4. ASSUME NEW i \in S, NEW j \in S, i < j
      PROVE  Cardinality(UpTo(i)) # Cardinality(UpTo(j))
  <2>1. UpTo(i) \in SUBSET UpTo(j)
    <3>1. \A x \in S : x <= i => x <= j
      BY <1>2, <1>4
    <3> QED
      BY <3>1
  <2>2. j \in UpTo(j) /\ j \notin UpTo(i)
    BY <1>2, <1>4
  <2> QED
    BY <1>2, <2>1, <2>2, FS_Subset
<1>5. \A i, j \in S : Cardinality(UpTo(i)) = Cardinality(UpTo(j)) => i = j
  BY <1>2, <1>4
<1>6. InOrder(S) = [k \in 1..size |-> CHOOSE i \in S : Cardinality(UpTo(i)) = k]
  BY DEF InOrder
<1> HIDE DEF UpTo
<1>7. place \in [S -> 1..size] /\ (\A i \in S : place[i] = Cardinality(UpTo(i)))
  BY <1>3
<1> HIDE DEF place
<1>8. place \in Injection(S, 1..size)
  BY <1>5, <1>7 DEF Injection, IsInjective
<1>9. IsFiniteSet(1..size) /\ Cardinality(1..size) = size
  BY <1>1, FS_Interval
<1>10. place \in Surjection(S, 1..size)
  BY <1>8, <1>9, FS_Injection DEF size
<1> HIDE DEF size
<1>11. \A k \in 1..size : \E i \in S : Cardinality(UpTo(i)) = k
  BY <1>7, <1>10 DEF Surjection
<1>12. \A k \in 1..size : InOrder(S)[k] \in S /\ Cardinality(UpTo(InOrder(S)[k])) = k
  BY <1>6, <1>11
<1>13. DOMAIN InOrder(S) = 1..size
  BY <1>6
<1>14. \A i \in S : InOrder(S)[Cardinality(UpTo(i))] = i
  BY <1>3, <1>5, <1>12
<1> QED
  BY <1>1, <1>3, <1>12, <1>13, <1>14 DEF size

\* The objects that parse_carriers gave, and what each says on its own.
ObjectsHold ==
  /\ objects \in Seq([annotation : Annotations, part : ConfiguredParts])
  /\ Len(objects) <= MaxObjects
  /\ \A i \in DOMAIN objects :
       validate_annotation(objects[i].annotation, MaxDescriptionTargets)

Plannable == objects # <<>> /\ TargetsResolve(objects)

\* Inductive invariant of a plan: from finish_plan on its authoring rules hold, and
\* a bundle is the one that the objects give.
PlanHolds ==
  /\ ObjectsHold
  /\ dstep = "planned" => Plannable /\ validate_authoring_document(AuthoringObjects(lengths))
  /\ dstep \in {"plan", "planned"} => bundle = None
  /\ bundle # None => Plannable /\ bundle = Constructed /\ Representable
  /\ dstep = "unconstructed" => ~ Representable

LEMMA ObjectFacts ==
  ASSUME ObjectsHold
  PROVE  /\ Len(objects) \in Nat /\ DOMAIN objects = 1..Len(objects)
         /\ DOMAIN objects \subseteq 1..MaxObjects
         /\ \A i \in DOMAIN objects :
              /\ objects[i].annotation \in Annotations
              /\ Len(objects[i].annotation.targets) \in 0..MaxDescriptionTargets
              /\ DOMAIN objects[i].annotation.targets = 1..Len(objects[i].annotation.targets)
              /\ Distinct(objects[i].annotation.targets)
              /\ objects[i].annotation.role \in {"printable", "supportBlocker"}
              /\ objects[i].annotation.role = "supportBlocker" =>
                   Len(objects[i].annotation.targets) # 0
<1>1. Len(objects) \in Nat /\ DOMAIN objects = 1..Len(objects)
  BY DEF ObjectsHold
<1>2. DOMAIN objects \subseteq 1..MaxObjects
  BY <1>1, DocumentsAssumption DEF ObjectsHold
<1>3. ASSUME NEW a \in Annotations, validate_annotation(a, MaxDescriptionTargets)
      PROVE  /\ Len(a.targets) \in 0..MaxDescriptionTargets
             /\ DOMAIN a.targets = 1..Len(a.targets)
             /\ Distinct(a.targets)
             /\ a.role \in {"printable", "supportBlocker"}
             /\ a.role = "supportBlocker" => Len(a.targets) # 0
  <2>1. PICK n \in 0..MaxDescriptionTargets : a.targets \in [1..n -> TargetKeys]
    BY DEF Annotations, TargetLists
  <2>2. Len(a.targets) = n /\ a.targets \in Seq(TargetKeys)
    BY <2>1, AuthoringAssumption
  <2>3. a.role \in {"printable", "supportBlocker"}
    BY DEF Annotations
  <2>4. a.role = "supportBlocker" => a.targets # <<>>
    BY <1>3 DEF validate_annotation
  <2>5. Distinct(a.targets)
    BY <1>3 DEF validate_annotation
  <2> QED
    BY <2>1, <2>2, <2>3, <2>4, <2>5
<1>4. \A i \in DOMAIN objects : objects[i].annotation \in Annotations
  <2> DEFINE Objects == [annotation : Annotations, part : ConfiguredParts]
  <2>1. \A o \in Objects : o.annotation \in Annotations
    OBVIOUS
  <2>2. objects \in Seq(Objects)
    BY DEF ObjectsHold
  <2> HIDE DEF Objects
  <2>3. \A i \in DOMAIN objects : objects[i] \in Objects
    BY <2>2
  <2> QED
    BY <2>1, <2>3
<1> QED
  BY <1>1, <1>2, <1>3, <1>4 DEF ObjectsHold

\* unique_keys: of a plan that was accepted, the last object with a target's key is
\* the only one, it is printed, and it is not the blocker itself.
LEMMA UniqueOwner ==
  ASSUME ObjectsHold, TargetsResolve(objects), NEW i \in DOMAIN objects,
         NEW t \in DOMAIN objects[i].annotation.targets
  PROVE  LET o == UniqueKey(objects[i].annotation.targets[t])
         IN  /\ o \in DOMAIN objects /\ objects[o].annotation.role = "printable"
             /\ \A j \in DOMAIN objects :
                  j = o <=> objects[j].annotation.key = objects[i].annotation.targets[t]
<1> DEFINE key == objects[i].annotation.targets[t]
           owners == KeyOwners(objects, key)
<1>1. Cardinality(owners) = 1 /\ \A o \in owners : objects[o].annotation.role = "printable"
  BY DEF TargetsResolve
<1>2. owners \in SUBSET DOMAIN objects
  BY DEF KeyOwners
<1>3. IsFiniteSet(owners)
  <2>1. IsFiniteSet(1..Len(objects))
    BY ObjectFacts, FS_Interval
  <2> HIDE DEF owners
  <2> QED
    BY <1>2, <2>1, ObjectFacts, FS_Subset
<1>4. PICK o : owners = {o}
  BY <1>1, <1>3, FS_Singleton
<1>5. o \in Nat
  BY <1>2, <1>4, ObjectFacts
<1>6. UniqueKey(key) = o
  BY <1>4, <1>5 DEF UniqueKey
<1>7. \A j \in DOMAIN objects : j \in owners <=> objects[j].annotation.key = key
  BY DEF KeyOwners
<1> HIDE DEF owners, key
<1>8. /\ UniqueKey(key) \in DOMAIN objects /\ objects[UniqueKey(key)].annotation.role = "printable"
      /\ \A j \in DOMAIN objects : j = UniqueKey(key) <=> objects[j].annotation.key = key
  BY <1>1, <1>2, <1>4, <1>6, <1>7
<1> QED
  BY <1>8 DEF key

LEMMA LengthOfMap ==
  ASSUME NEW n \in Nat, NEW f, f = [i \in 1..n |-> f[i]]
  PROVE  Len(f) = n
  OBVIOUS

LEMMA IdentitiesDiffer ==
  /\ \A i, j : manifest_object_identity(i) = manifest_object_identity(j) => i = j
  /\ \A i, j : RetainedPath(i) = RetainedPath(j) => i = j
  /\ \A i \in 1..MaxObjects : manifest_object_identity(i) # None
  BY DocumentsAssumption DEF manifest_object_identity, RetainedPath

\* build_generator_settings: there is one entry for each blocker of the plan, and
\* its targets are the objects with the keys it names, in the order it names them.
LEMMA BlockersOfPlan ==
  ASSUME ObjectsHold, TargetsResolve(objects)
  PROVE  LET B == InOrder(Blocking)
         IN  /\ DOMAIN Blockers = DOMAIN B
             /\ \A b \in DOMAIN B : B[b] \in DOMAIN objects
                  /\ objects[B[b]].annotation.role = "supportBlocker"
             /\ \A b, c \in DOMAIN B : B[b] = B[c] => b = c
             /\ \A i \in DOMAIN objects : objects[i].annotation.role = "supportBlocker" =>
                  \E b \in DOMAIN B : B[b] = i
             /\ \A b \in DOMAIN B :
                  /\ Blockers[b].object_identity = manifest_object_identity(B[b])
                  /\ Blockers[b].targets =
                       [t \in DOMAIN objects[B[b]].annotation.targets |->
                          manifest_object_identity(UniqueKey(objects[B[b]].annotation.targets[t]))]
<1> DEFINE B == InOrder(Blocking)
<1>1. Blocking \in SUBSET (1..Len(objects)) /\ Len(objects) \in Nat
  BY ObjectFacts DEF Blocking
<1>2. /\ \A b \in DOMAIN B : B[b] \in Blocking
      /\ \A b, c \in DOMAIN B : B[b] = B[c] => b = c
      /\ \A i \in Blocking : \E b \in DOMAIN B : B[b] = i
  BY <1>1, InOrderEnumerates
<1>3. Blockers = [b \in DOMAIN B |->
         [object_identity |-> manifest_object_identity(B[b]),
          targets |-> [t \in DOMAIN objects[B[b]].annotation.targets |->
                         manifest_object_identity(UniqueKey(objects[B[b]].annotation.targets[t]))]]]
  BY DEF Blockers
<1> HIDE DEF B
<1>4. \A i : i \in Blocking <=> i \in DOMAIN objects /\ objects[i].annotation.role = "supportBlocker"
  BY DEF Blocking
<1>5. /\ DOMAIN Blockers = DOMAIN B
      /\ \A b \in DOMAIN B :
           /\ Blockers[b].object_identity = manifest_object_identity(B[b])
           /\ Blockers[b].targets =
                [t \in DOMAIN objects[B[b]].annotation.targets |->
                   manifest_object_identity(UniqueKey(objects[B[b]].annotation.targets[t]))]
  BY <1>3
<1>6. /\ \A b \in DOMAIN B : B[b] \in DOMAIN objects
           /\ objects[B[b]].annotation.role = "supportBlocker"
      /\ \A i \in DOMAIN objects : objects[i].annotation.role = "supportBlocker" =>
           \E b \in DOMAIN B : B[b] = i
  BY <1>2, <1>4
<1> QED
  BY <1>2, <1>5, <1>6 DEF B

\* The manifest of a plan satisfies InputManifest::validate, if something of the plan
\* is printed.
LEMMA ManifestIsValid ==
  ASSUME ObjectsHold, objects # <<>>,
         \E i \in DOMAIN objects : objects[i].annotation.role = "printable",
         NEW c, c <= MaxIdentityLength
  PROVE  validate_manifest(Manifest(c, ManifestObjects))
<1> DEFINE m == ManifestObjects
<1>1. /\ DOMAIN m = DOMAIN objects /\ Len(m) = Len(objects)
      /\ \A i \in DOMAIN m : /\ m[i].object_identity = manifest_object_identity(i)
                             /\ m[i].role = transport_role(objects[i].annotation.role)
                             /\ m[i].path = RetainedPath(i) /\ m[i].parent = None
  <2>1. /\ DOMAIN m = DOMAIN objects
        /\ \A i \in DOMAIN m : /\ m[i].object_identity = manifest_object_identity(i)
                               /\ m[i].role = transport_role(objects[i].annotation.role)
                               /\ m[i].path = RetainedPath(i) /\ m[i].parent = None
    BY DEF ManifestObjects
  <2>2. m = [i \in 1..Len(objects) |-> m[i]] /\ Len(objects) \in Nat
    BY ObjectFacts DEF ManifestObjects
  <2>3. Len(m) = Len(objects)
    BY <2>2, LengthOfMap
  <2> QED
    BY <2>1, <2>3
<1> HIDE DEF m
<1>2. Len(m) \in 1..MaxObjects
  <2>1. Len(objects) # 0 /\ Len(objects) \in Nat
    BY DEF ObjectsHold
  <2> QED
    BY <1>1, <2>1, DocumentsAssumption DEF ObjectsHold
<1>3. Distinct([i \in DOMAIN m |-> m[i].object_identity])
  BY <1>1, IdentitiesDiffer DEF Distinct
<1>4. Distinct([i \in DOMAIN m |-> m[i].path])
  BY <1>1, IdentitiesDiffer DEF Distinct
<1>5. \E i \in DOMAIN m : m[i].role = "rawGeometry"
  BY <1>1 DEF transport_role
<1>6. Acyclic(m)
  <2> SUFFICES ASSUME NEW C \in SUBSET {m[i].object_identity : i \in DOMAIN m}, C # {}
               PROVE  \E id \in C : \A i \in DOMAIN m : m[i].object_identity = id => m[i].parent \notin C
    BY DEF Acyclic
  <2>1. None \notin C
    BY <1>1, ObjectFacts, IdentitiesDiffer
  <2> QED
    BY <1>1, <2>1
<1>7. \A i \in DOMAIN m : m[i].parent \in {None} \cup {m[j].object_identity : j \in DOMAIN m}
  BY <1>1
<1>8. validate_manifest(Manifest(c, m))
  <2>1. /\ Manifest(c, m).configuration = c /\ Manifest(c, m).objects = m
        /\ Manifest(c, m).input_set_identity = m /\ Manifest(c, m).manifest_identity = <<c, m>>
    BY DEF Manifest
  <2> QED
    BY <1>2, <1>3, <1>4, <1>5, <1>6, <1>7, <2>1 DEF validate_manifest
<1> QED
  BY <1>8 DEF m

\* Something of an accepted plan is printed: a blocker has a target.
LEMMA SomethingIsPrinted ==
  ASSUME ObjectsHold, Plannable
  PROVE  \E i \in DOMAIN objects : objects[i].annotation.role = "printable"
<1>1. 1 \in DOMAIN objects
  BY ObjectFacts DEF ObjectsHold, Plannable
<1>2. CASE objects[1].annotation.role = "printable"
  BY <1>1, <1>2
<1>3. CASE objects[1].annotation.role = "supportBlocker"
  <2>1. 1 \in DOMAIN objects[1].annotation.targets
    BY <1>1, <1>3, ObjectFacts
  <2> QED
    BY <1>1, <2>1, UniqueOwner DEF Plannable
<1> QED
  BY <1>1, <1>2, <1>3, ObjectFacts

LEMMA PlacementsOfPlan ==
  ASSUME ObjectsHold
  PROVE  LET e == ExpectedPlacements p == Settings.placements
         IN  /\ DOMAIN e = DOMAIN objects /\ Len(e) = Len(objects)
             /\ DOMAIN p = DOMAIN objects /\ Len(p) = Len(objects)
             /\ \A i \in DOMAIN objects :
                  /\ e[i].object_identity = manifest_object_identity(i)
                  /\ e[i].role = transport_role(objects[i].annotation.role)
                  /\ p[i].object_identity = manifest_object_identity(i)
                  /\ p[i].matrix = normalize_matrix(e[i].matrix)
<1> DEFINE e == ExpectedPlacements
           p == Settings.placements
<1>1. /\ e = [i \in 1..Len(objects) |-> e[i]] /\ p = [i \in 1..Len(objects) |-> p[i]]
      /\ Len(objects) \in Nat /\ DOMAIN objects = 1..Len(objects)
  BY ObjectFacts DEF ExpectedPlacements, Settings
<1>2. Len(e) = Len(objects) /\ Len(p) = Len(objects)
  BY <1>1, LengthOfMap
<1>3. /\ DOMAIN e = DOMAIN objects /\ DOMAIN p = DOMAIN objects
      /\ \A i \in DOMAIN objects :
           /\ e[i].object_identity = manifest_object_identity(i)
           /\ e[i].role = transport_role(objects[i].annotation.role)
           /\ p[i].object_identity = manifest_object_identity(i)
           /\ p[i].matrix = normalize_matrix(e[i].matrix)
  BY DEF ExpectedPlacements, Settings
<1> QED
  BY <1>2, <1>3

\* generator_settings: what an accepted plan sets is well formed on its own.
LEMMA SettingsAreValid ==
  ASSUME ObjectsHold, TargetsResolve(objects)
  PROVE  validate_generator_settings(Settings)
<1> DEFINE B == InOrder(Blocking)
<1>1. /\ DOMAIN Blockers = DOMAIN B
      /\ \A b, c \in DOMAIN B : B[b] = B[c] => b = c
      /\ \A b \in DOMAIN B : Blockers[b].object_identity = manifest_object_identity(B[b])
  BY BlockersOfPlan
<1>2. Distinct([b \in DOMAIN Blockers |-> Blockers[b].object_identity])
  <2> HIDE DEF B
  <2> QED
    BY <1>1, IdentitiesDiffer DEF Distinct
<1>3. ASSUME NEW b \in DOMAIN Blockers
      PROVE  Len(Blockers[b].targets) \in 1..MaxDescriptionTargets /\ Distinct(Blockers[b].targets)
  <2> DEFINE i == B[b]
             named == objects[i].annotation.targets
             targets == Blockers[b].targets
  <2>1. /\ i \in DOMAIN objects /\ objects[i].annotation.role = "supportBlocker"
        /\ targets = [t \in DOMAIN named |-> manifest_object_identity(UniqueKey(named[t]))]
    BY <1>1, BlockersOfPlan
  <2> HIDE DEF i, B, targets
  <2>2. /\ Len(named) \in 0..MaxDescriptionTargets /\ Len(named) # 0
        /\ DOMAIN named = 1..Len(named) /\ Distinct(named)
    BY <2>1, ObjectFacts
  <2>3. \A t \in DOMAIN named : /\ UniqueKey(named[t]) \in DOMAIN objects
                                /\ objects[UniqueKey(named[t])].annotation.key = named[t]
    BY <2>1, UniqueOwner
  <2> HIDE DEF named
  <2>4. DOMAIN targets = DOMAIN named
        /\ \A t \in DOMAIN named : targets[t] = manifest_object_identity(UniqueKey(named[t]))
    BY <2>1
  <2>5. Distinct(targets)
    <3> SUFFICES ASSUME NEW t \in DOMAIN named, NEW u \in DOMAIN named, targets[t] = targets[u]
                 PROVE  t = u
      BY <2>4 DEF Distinct
    <3>1. UniqueKey(named[t]) = UniqueKey(named[u])
      BY <2>4, IdentitiesDiffer
    <3>2. named[t] = named[u]
      BY <2>3, <3>1
    <3> QED
      BY <2>2, <3>2 DEF Distinct
  <2>6. targets = [t \in 1..Len(named) |-> targets[t]]
    BY <2>1, <2>2
  <2>7. Len(targets) = Len(named)
    BY <2>2, <2>6, LengthOfMap
  <2> QED
    BY <2>2, <2>5, <2>7 DEF targets
<1>4. Distinct([q \in DOMAIN Settings.placements |-> Settings.placements[q].object_identity])
  BY PlacementsOfPlan, IdentitiesDiffer DEF Distinct
<1>5. Settings.blockers = Blockers
  BY DEF Settings
<1> QED
  BY <1>2, <1>3, <1>4, <1>5 DEF validate_generator_settings

\* The size of the manifest of a plan.
LEMMA BytesOfManifest ==
  ManifestBytes(Constructed.manifest) =
    lengths.configuration
      + TotalBytes([i \in DOMAIN objects |-> ObjectBytes + lengths.names[objects[i].part]])
<1> DEFINE m == Constructed.manifest
<1>1. m.configuration = lengths.configuration /\ m.objects = ManifestObjects
  BY DEF Constructed, Manifest
<1>2. /\ DOMAIN ManifestObjects = DOMAIN objects
      /\ \A i \in DOMAIN objects : ManifestObjects[i].display_name = lengths.names[objects[i].part]
  BY DEF ManifestObjects
<1> HIDE DEF m
<1>3. [i \in DOMAIN m.objects |-> ObjectBytes + m.objects[i].display_name]
        = [i \in DOMAIN objects |-> ObjectBytes + lengths.names[objects[i].part]]
  BY <1>1, <1>2
<1>4. ManifestBytes(m) = lengths.configuration
        + TotalBytes([i \in DOMAIN objects |-> ObjectBytes + lengths.names[objects[i].part]])
  BY <1>1, <1>3 DEF ManifestBytes
<1> QED
  BY <1>4 DEF m

\* The documents of an accepted plan satisfy the generator's own rules when the
\* protocol can represent them, and only then.
LEMMA ConstructedIsValid ==
  ASSUME ObjectsHold, Plannable
  PROVE  validate_construction(Constructed) <=> Representable
<1> DEFINE e == ExpectedPlacements
           s == Settings
           B == InOrder(Blocking)
           Of(role) == {e[i].object_identity : i \in {i \in DOMAIN e : e[i].role = role}}
<1>0. TargetsResolve(objects)
  BY DEF Plannable
<1>1. parse_input_manifest(Constructed.manifest) <=> Representable
  <2>1. Constructed.manifest = Manifest(lengths.configuration, ManifestObjects)
    BY DEF Constructed
  <2>2. lengths.configuration <= MaxIdentityLength => validate_manifest(Constructed.manifest)
    BY <2>1, ManifestIsValid, SomethingIsPrinted DEF Plannable
  <2>3. validate_manifest(Constructed.manifest) => lengths.configuration <= MaxIdentityLength
    BY <2>1 DEF validate_manifest, Manifest
  <2> QED
    BY <2>2, <2>3, BytesOfManifest DEF parse_input_manifest, Representable
<1>2. ExpectedFits(e, Manifest(lengths.configuration, ManifestObjects))
  <2>1. ManifestObjects = [i \in 1..Len(objects) |-> ManifestObjects[i]]
    BY ObjectFacts DEF ManifestObjects
  <2>2. Len(ManifestObjects) = Len(objects)
    BY <2>1, ObjectFacts, LengthOfMap
  <2>3. \A i \in DOMAIN objects :
          /\ ManifestObjects[i].object_identity = manifest_object_identity(i)
          /\ ManifestObjects[i].role = transport_role(objects[i].annotation.role)
    BY DEF ManifestObjects
  <2>4. Manifest(lengths.configuration, ManifestObjects).objects = ManifestObjects
    BY DEF Manifest
  <2> QED
    BY <2>2, <2>3, <2>4, PlacementsOfPlan DEF ExpectedFits
<1>3. validate_generator_settings(s)
  BY <1>0, SettingsAreValid
<1>4. /\ Len(s.placements) = Len(e)
      /\ \A i \in DOMAIN e : /\ s.placements[i].object_identity = e[i].object_identity
                             /\ s.placements[i].matrix = normalize_matrix(e[i].matrix)
  BY PlacementsOfPlan
<1>5. \A role : \A x : x \in Of(role) <=> \E i \in DOMAIN objects :
        x = manifest_object_identity(i) /\ transport_role(objects[i].annotation.role) = role
  <2>1. /\ DOMAIN e = DOMAIN objects
        /\ \A i \in DOMAIN objects : /\ e[i].object_identity = manifest_object_identity(i)
                                     /\ e[i].role = transport_role(objects[i].annotation.role)
    BY PlacementsOfPlan
  <2> HIDE DEF e
  <2> QED
    BY <2>1
<1> HIDE DEF Of
<1>6. /\ s.blockers = Blockers /\ DOMAIN Blockers = DOMAIN B
      /\ \A b \in DOMAIN B : B[b] \in DOMAIN objects
           /\ objects[B[b]].annotation.role = "supportBlocker"
      /\ \A i \in DOMAIN objects : objects[i].annotation.role = "supportBlocker" =>
           \E b \in DOMAIN B : B[b] = i
      /\ \A b \in DOMAIN B : Blockers[b].object_identity = manifest_object_identity(B[b])
  BY <1>0, BlockersOfPlan DEF Settings
<1>7. {s.blockers[b].object_identity : b \in DOMAIN s.blockers} = Of("auxiliaryGeometry")
  <2>1. \A i \in DOMAIN objects : transport_role(objects[i].annotation.role) = "auxiliaryGeometry"
          <=> objects[i].annotation.role = "supportBlocker"
    BY ObjectFacts DEF transport_role
  <2> HIDE DEF s, B
  <2>2. \A x : x \in Of("auxiliaryGeometry") <=> \E b \in DOMAIN B : x = manifest_object_identity(B[b])
    BY <1>5, <1>6, <2>1
  <2>3. \A x : x \in {s.blockers[b].object_identity : b \in DOMAIN s.blockers}
          <=> \E b \in DOMAIN B : x = manifest_object_identity(B[b])
    BY <1>6
  <2> QED
    BY <2>2, <2>3
<1>8. ASSUME NEW b \in DOMAIN s.blockers, NEW t \in DOMAIN s.blockers[b].targets
      PROVE  s.blockers[b].targets[t] \in Of("rawGeometry")
  <2> DEFINE i == B[b]
             named == objects[i].annotation.targets
  <2>1. b \in DOMAIN B /\ i \in DOMAIN objects
    BY <1>6, <1>8
  <2>2. Blockers[b].targets = [u \in DOMAIN named |-> manifest_object_identity(UniqueKey(named[u]))]
    BY <1>0, <2>1, BlockersOfPlan
  <2>3. t \in DOMAIN named /\ s.blockers[b].targets[t] = manifest_object_identity(UniqueKey(named[t]))
    BY <1>6, <1>8, <2>2
  <2>4. /\ UniqueKey(named[t]) \in DOMAIN objects
        /\ objects[UniqueKey(named[t])].annotation.role = "printable"
    BY <1>0, <2>1, <2>3, UniqueOwner
  <2> QED
    BY <1>5, <2>3, <2>4 DEF transport_role
<1>9. validate_settings_context(s, e)
  BY <1>3, <1>4, <1>7, <1>8 DEF validate_settings_context, Of
<1>10. /\ Constructed.manifest = Manifest(lengths.configuration, ManifestObjects)
       /\ Constructed.settings = s /\ Constructed.expected = e
  BY DEF Constructed
<1> QED
  BY <1>1, <1>2, <1>9, <1>10 DEF validate_construction

\* In the documents of an accepted plan each blocker has the targets its author
\* named, one for each key.
LEMMA ConstructedIsMeant ==
  ASSUME ObjectsHold, Plannable, bundle = Constructed
  PROVE  TargetsAreMeant
<1>0. TargetsResolve(objects)
  BY DEF Plannable
<1>1. bundle.settings.blockers = Blockers
  BY DEF Constructed, Settings
<1>2. \A j \in DOMAIN objects : bundle.manifest.objects[j].object_identity = manifest_object_identity(j)
  BY DEF Constructed, Manifest, ManifestObjects
<1> SUFFICES ASSUME NEW i \in DOMAIN objects, objects[i].annotation.role = "supportBlocker"
             PROVE  \E b \in DOMAIN Blockers :
                      /\ Blockers[b].object_identity = manifest_object_identity(i)
                      /\ Len(Blockers[b].targets) = Len(objects[i].annotation.targets)
                      /\ \A t \in DOMAIN objects[i].annotation.targets : \A j \in DOMAIN objects :
                           (Blockers[b].targets[t] = manifest_object_identity(j))
                             <=> objects[j].annotation.key = objects[i].annotation.targets[t]
  BY <1>1, <1>2 DEF TargetsAreMeant
<1> DEFINE named == objects[i].annotation.targets
<1>3. PICK b \in DOMAIN Blockers :
        /\ Blockers[b].object_identity = manifest_object_identity(i)
        /\ Blockers[b].targets = [t \in DOMAIN named |-> manifest_object_identity(UniqueKey(named[t]))]
  <2>1. PICK b \in DOMAIN InOrder(Blocking) : InOrder(Blocking)[b] = i
    BY <1>0, BlockersOfPlan
  <2> QED
    BY <1>0, <2>1, BlockersOfPlan
<1>4. Len(named) \in Nat /\ DOMAIN named = 1..Len(named)
  BY ObjectFacts
<1>5. \A t \in DOMAIN named : /\ UniqueKey(named[t]) \in DOMAIN objects
        /\ \A j \in DOMAIN objects : j = UniqueKey(named[t]) <=> objects[j].annotation.key = named[t]
  BY <1>0, UniqueOwner
<1> HIDE DEF named
<1>6. Blockers[b].targets = [t \in 1..Len(named) |-> Blockers[b].targets[t]]
  BY <1>3, <1>4
<1>7. Len(Blockers[b].targets) = Len(named)
  BY <1>4, <1>6, LengthOfMap
<1>8. ASSUME NEW t \in DOMAIN named, NEW j \in DOMAIN objects
      PROVE  (Blockers[b].targets[t] = manifest_object_identity(j)) <=> objects[j].annotation.key = named[t]
  <2>1. Blockers[b].targets[t] = manifest_object_identity(UniqueKey(named[t]))
    BY <1>3, <1>8
  <2>2. (Blockers[b].targets[t] = manifest_object_identity(j)) <=> j = UniqueKey(named[t])
    BY <2>1, IdentitiesDiffer
  <2> QED
    BY <1>5, <1>8, <2>2
<1> QED
  BY <1>3, <1>7, <1>8 DEF named

\* What parse_carriers gives is an annotation within the limits, whichever
\* carrier it was on.
LEMMA ParsedIsValid ==
  ASSUME NEW c \in CarrierPairs, CarriersAgree(c[1], c[2])
  PROVE  /\ parse_carriers(c[1], c[2]) \in Annotations
         /\ validate_annotation(parse_carriers(c[1], c[2]), MaxDescriptionTargets)
<1>1. Plain \in Annotations /\ validate_annotation(Plain, MaxDescriptionTargets)
  <2>1. <<>> \in [1..0 -> TargetKeys] /\ 0 \in 0..MaxDescriptionTargets
    BY AuthoringAssumption
  <2>2. <<>> \in TargetLists
    BY <2>1 DEF TargetLists
  <2>3. Plain \in Annotations
    BY <2>2 DEF Plain, Annotations
  <2> QED
    BY <2>3, AuthoringAssumption DEF Plain, validate_annotation, Distinct
<1>2. c[1] \in Carriers /\ c[2] \in Carriers
  BY <1>1 DEF CarrierPairs, Carriers
<1>3. CASE c[1] # None
  <2>1. c[1] \in Annotations /\ validate_annotation(c[1], MaxDescriptionTargets)
    BY <1>2, <1>3 DEF CarriersAgree, parse_annotation, Carriers
  <2> QED
    BY <1>3, <2>1 DEF parse_carriers
<1>4. CASE c[1] = None /\ c[2] # None
  <2>1. c[2] \in Annotations /\ validate_annotation(c[2], MaxNameTargets)
    BY <1>2, <1>4 DEF CarriersAgree, parse_annotation, Carriers
  <2>2. Len(c[2].targets) \in Nat
    <3>1. PICK n \in 0..MaxDescriptionTargets : c[2].targets \in [1..n -> TargetKeys]
      BY <2>1 DEF Annotations, TargetLists
    <3> QED
      BY <3>1, AuthoringAssumption
  <2>3. validate_annotation(c[2], MaxDescriptionTargets)
    <3>1. Len(c[2].targets) <= MaxDescriptionTargets
      BY <2>1, <2>2, AuthoringAssumption DEF validate_annotation
    <3> QED
      BY <2>1, <3>1 DEF validate_annotation
  <2> QED
    BY <1>4, <2>1, <2>3 DEF parse_carriers
<1>5. CASE c[1] = None /\ c[2] = None
  BY <1>1, <1>5 DEF parse_carriers
<1> QED
  BY <1>3, <1>4, <1>5

\* The authoring document has the annotations of the plan.
LEMMA AuthoringOfPlan ==
  ASSUME NEW t, validate_authoring_document(AuthoringObjects(t))
  PROVE  TargetsResolve(objects)
<1> DEFINE a == AuthoringObjects(t)
<1>1. DOMAIN a = DOMAIN objects /\ \A i \in DOMAIN objects : a[i].annotation = objects[i].annotation
  BY DEF AuthoringObjects
<1>2. TargetsResolve(a)
  BY DEF validate_authoring_document
<1> HIDE DEF a
<1>3. ASSUME NEW k PROVE KeyOwners(a, k) = KeyOwners(objects, k)
  BY <1>1 DEF KeyOwners
<1> SUFFICES ASSUME NEW i \in DOMAIN objects, NEW u \in DOMAIN objects[i].annotation.targets
             PROVE  LET owners == KeyOwners(objects, objects[i].annotation.targets[u])
                    IN  /\ Cardinality(owners) = 1
                        /\ \A o \in owners : o # i /\ objects[o].annotation.role = "printable"
  BY Zenon DEF TargetsResolve
<1> DEFINE k == objects[i].annotation.targets[u]
<1>4. /\ Cardinality(KeyOwners(a, k)) = 1
      /\ \A o \in KeyOwners(a, k) : o # i /\ a[o].annotation.role = "printable"
  BY <1>1, <1>2 DEF TargetsResolve
<1>5. KeyOwners(objects, k) \subseteq DOMAIN objects
  BY DEF KeyOwners
<1> QED
  BY <1>1, <1>3, <1>4, <1>5

LEMMA NoObjects == ASSUME objects = <<>> PROVE ObjectsHold
<1>1. <<>> \in Seq([annotation : Annotations, part : ConfiguredParts]) /\ Len(<<>>) = 0
      /\ DOMAIN <<>> = {}
  OBVIOUS
<1> QED
  BY <1>1, DocumentsAssumption DEF ObjectsHold

LEMMA PlanHoldsInit == DocumentsInit => PlanHolds
  BY NoObjects DEF DocumentsInit, PlanHolds

LEMMA PlanHoldsNext == PlanHolds /\ [DocumentsNext]_documentVars => PlanHolds'
<1> SUFFICES ASSUME PlanHolds, [DocumentsNext]_documentVars PROVE PlanHolds'
  OBVIOUS
<1> USE DEF PlanHolds
<1>1. ASSUME objects' = objects, lengths' = lengths
      PROVE  /\ ObjectsHold' /\ (Plannable' <=> Plannable) /\ Constructed' = Constructed
             /\ AuthoringObjects(lengths)' = AuthoringObjects(lengths)
             /\ (Representable' <=> Representable)
  <2>1. ObjectsHold' /\ (Plannable' <=> Plannable)
    BY <1>1 DEF ObjectsHold, Plannable
  <2>2. Constructed' = Constructed
    BY <1>1 DEF Constructed, Settings, Blockers, Blocking, UniqueKey, ManifestObjects, ExpectedPlacements
  <2>3. AuthoringObjects(lengths)' = AuthoringObjects(lengths) /\ (Representable' <=> Representable)
    BY <1>1 DEF AuthoringObjects, Representable
  <2> QED
    BY <2>1, <2>2, <2>3
<1>2. ASSUME objects' = <<>> PROVE ObjectsHold'
  <2>1. <<>> \in Seq([annotation : Annotations, part : ConfiguredParts]) /\ Len(<<>>) = 0
        /\ DOMAIN <<>> = {}
    OBVIOUS
  <2> QED
    BY <1>2, <2>1, DocumentsAssumption DEF ObjectsHold
<1>3. ASSUME NEW c \in CarrierPairs, NEW part \in ConfiguredParts, read_part(c, part)
      PROVE  PlanHolds'
  <2>1. dstep = "plan" /\ bundle = None /\ bundle' = None /\ Len(objects) < MaxObjects
    BY <1>3 DEF read_part
  <2>2. CASE CarriersAgree(c[1], c[2])
    <3> DEFINE o == [annotation |-> parse_carriers(c[1], c[2]), part |-> part]
               O == [annotation : Annotations, part : ConfiguredParts]
    <3>1. objects' = Append(objects, o) /\ dstep' = "plan"
      BY <1>3, <2>1, <2>2 DEF read_part
    <3>2. o \in O /\ o.annotation = parse_carriers(c[1], c[2])
      BY <2>2, ParsedIsValid
    <3>3. validate_annotation(o.annotation, MaxDescriptionTargets)
      BY <2>2, <3>2, ParsedIsValid
    <3>4. objects \in Seq(O) /\ Len(objects) \in Nat
      BY DEF ObjectsHold
    <3> HIDE DEF o, O
    <3>5. /\ Append(objects, o) \in Seq(O) /\ Len(Append(objects, o)) = Len(objects) + 1
          /\ DOMAIN Append(objects, o) = 1..(Len(objects) + 1) /\ DOMAIN objects = 1..Len(objects)
          /\ \A i \in DOMAIN Append(objects, o) :
               Append(objects, o)[i] = IF i \in DOMAIN objects THEN objects[i] ELSE o
      BY <3>2, <3>4
    <3>6. \A i \in DOMAIN objects' : validate_annotation(objects'[i].annotation, MaxDescriptionTargets)
      BY <3>1, <3>3, <3>5 DEF ObjectsHold
    <3>7. Len(objects') <= MaxObjects
      BY <2>1, <3>1, <3>4, <3>5, DocumentsAssumption
    <3>8. ObjectsHold'
      BY <3>1, <3>5, <3>6, <3>7 DEF ObjectsHold, O
    <3> QED
      BY <2>1, <3>1, <3>8
  <2>3. CASE ~ CarriersAgree(c[1], c[2])
    BY <1>2, <1>3, <2>1, <2>3 DEF read_part
  <2> QED
    BY <2>2, <2>3
<1>4. ASSUME NEW t \in TextLengths, finish_plan(t) PROVE PlanHolds'
  <2>1. dstep = "plan" /\ bundle = None /\ bundle' = None /\ objects # <<>>
    BY <1>4 DEF finish_plan
  <2>2. CASE validate_authoring_context(AuthoringObjects(t))
    <3>1. objects' = objects /\ lengths' = t /\ dstep' = "planned"
      BY <1>4, <2>2 DEF finish_plan
    <3>2. validate_authoring_document(AuthoringObjects(t))
      BY <2>2 DEF validate_authoring_context
    <3>3. AuthoringObjects(lengths)' = AuthoringObjects(t)
      BY <3>1 DEF AuthoringObjects
    <3>4. Plannable'
      BY <2>1, <3>1, <3>2, AuthoringOfPlan DEF Plannable
    <3>5. ObjectsHold'
      BY <3>1 DEF ObjectsHold
    <3> QED
      BY <2>1, <3>1, <3>2, <3>3, <3>4, <3>5
  <2>3. CASE ~ validate_authoring_context(AuthoringObjects(t))
    BY <1>2, <1>4, <2>1, <2>3 DEF finish_plan
  <2> QED
    BY <2>2, <2>3
<1>5. CASE construct_generator_inputs
  <2>1. dstep = "planned" /\ Plannable /\ objects' = objects /\ lengths' = lengths /\ bundle = None
    BY <1>5 DEF construct_generator_inputs
  <2>2. validate_construction(Constructed) <=> Representable
    BY <2>1, ConstructedIsValid
  <2>3. CASE Representable
    <3>1. bundle' = Constructed /\ dstep' = "constructed"
      BY <1>5, <2>1, <2>2, <2>3 DEF construct_generator_inputs
    <3> QED
      BY <1>1, <2>1, <2>3, <3>1
  <2>4. CASE ~ Representable
    <3>1. bundle' = None /\ dstep' = "unconstructed"
      BY <1>5, <2>1, <2>2, <2>4 DEF construct_generator_inputs
    <3> QED
      BY <1>1, <2>1, <2>4, <3>1
  <2> QED
    BY <2>3, <2>4
<1>6. ASSUME UNCHANGED <<objects, lengths, bundle>>, dstep' \in {dstep, "stored", "refused"} PROVE PlanHolds'
  BY <1>1, <1>6
<1>7. ASSUME NEW supported \in BOOLEAN, NEW matching \in BOOLEAN,
             prepare_generator_processing(supported, matching)
      PROVE  PlanHolds'
  BY <1>6, <1>7 DEF prepare_generator_processing
<1>8. CASE Damage
  BY <1>6, <1>8 DEF Damage
<1>9. CASE DeployOther
  BY <1>6, <1>9 DEF DeployOther
<1>10. CASE reopen_generator_processing
  BY <1>6, <1>10 DEF reopen_generator_processing
<1>11. ASSUME NEW r \in Results, AcceptResult(r) PROVE PlanHolds'
  BY <1>6, <1>11 DEF AcceptResult
<1>12. CASE NextDocuments
  BY <1>2, <1>12 DEF NextDocuments
<1>13. CASE UNCHANGED documentVars
  BY <1>6, <1>13 DEF documentVars
<1> QED
  BY <1>3, <1>4, <1>5, <1>7, <1>8, <1>9, <1>10, <1>11, <1>12, <1>13 DEF DocumentsNext

\* For any number of objects, keys and targets and any lengths of texts, a plan
\* that the authoring rules accept is turned into documents that the generator's
\* rules accept exactly when the protocol can represent it, and a blocker's
\* targets in them are the objects with the keys it names.
THEOREM DocumentsAreFaithful == DocumentsSpec => []DocumentsFollowPlan
<1>1. PlanHolds => DocumentsFollowPlan
  <2>1. PlanHolds => AcceptedPlanConstructs
    BY DEF PlanHolds, AcceptedPlanConstructs
  <2>2. PlanHolds => TargetsAreMeant
    BY ConstructedIsMeant DEF PlanHolds, TargetsAreMeant
  <2> QED
    BY <2>1, <2>2 DEF DocumentsFollowPlan
<1> QED
  BY <1>1, PlanHoldsInit, PlanHoldsNext, PTL DEF DocumentsSpec

=============================================================================
