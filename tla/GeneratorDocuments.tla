-------------------------- MODULE GeneratorDocuments --------------------------
(***************************************************************************)
(* The documents that carry a planned selection to the generator and back: *)
(* annotations read from the carriers of each part (onshape_annotation),   *)
(* the manifest and the settings (generator_inputs, generator_protocol),   *)
(* the recipe and its rows (generator_processing, db) and the result.      *)
(*                                                                         *)
(* Hashes are taken to be injective: an identity is the value it is of.    *)
(* Text is abstracted to what the checks tell apart: a carrier holds no    *)
(* marker, a malformed one, or an annotation; identities, paths and media  *)
(* types that the service composes itself are well formed.  Of the texts   *)
(* that come from the source, the configuration identity and the display   *)
(* names, the lengths are kept, which decide what fits into a document.    *)
(***************************************************************************)
EXTENDS Authoring

CONSTANTS
  Deployments,           \* static identities of deployed generators
  MaxObjects,            \* objects of a plan
  MatrixOf,              \* expected placement of each of them
  TextLengths,           \* of the texts that come from the source
  MaxIdentityLength, MaxManifestBytes,  \* limits of the protocol
  ObjectBytes            \* of a manifest object without its display name

Matrices == {"identity", "negative zero", "moved"}

\* Configured parts are numbered in the order a plan first meets them.
ConfiguredParts == 1..MaxObjects

ASSUME DocumentsAssumption ==
  /\ MaxObjects \in Nat /\ MatrixOf \in [1..MaxObjects -> Matrices]
  /\ \A i \in 1..MaxObjects : <<"object", i>> # None
  /\ TextLengths \subseteq [configuration : Nat, names : [ConfiguredParts -> Nat]]
  /\ MaxIdentityLength \in Nat /\ MaxManifestBytes \in Nat /\ ObjectBytes \in Nat

VARIABLES
  objects,     \* of the plan: annotation and configured part
  lengths,     \* of the texts of a finished plan, or None
  bundle,      \* constructed manifest, settings and expected placements, or None
  deployed,    \* the deployed generator
  recipeRow,   \* the stored recipe and its occurrences, or None
  reopened,    \* the recipe a worker reopened, or None
  acceptedResult, \* the generator result a worker accepted, or None
  dstep        \* last step of the documents, "refused" once one was refused

documentVars == <<objects, lengths, bundle, deployed, recipeRow, reopened, acceptedResult, dstep>>

DocumentsInit ==
  /\ objects = <<>> /\ lengths = None /\ bundle = None /\ deployed \in Deployments
  /\ recipeRow = None /\ reopened = None /\ acceptedResult = None
  /\ dstep = "plan"

-----------------------------------------------------------------------------
(* generator_inputs and generator_protocol *)

transport_role(role) == IF role = "printable" THEN "rawGeometry" ELSE "auxiliaryGeometry"

normalize_matrix(m) == IF m = "negative zero" THEN "identity" ELSE m

manifest_object_identity(i) == <<"object", i>>

\* allocate_retained_paths: position and identity.
RetainedPath(i) == <<"inputs", i, manifest_object_identity(i)>>

ManifestObjects ==
  [i \in DOMAIN objects |->
     [object_identity |-> manifest_object_identity(i),
      role |-> transport_role(objects[i].annotation.role),
      display_name |-> lengths.names[objects[i].part],
      path |-> RetainedPath(i), parent |-> None]]

\* Both identities of a manifest are computed from its ordered objects, one
\* also from the configuration.
Manifest(configuration, list) ==
  [configuration |-> configuration, objects |-> list, input_set_identity |-> list,
   manifest_identity |-> <<configuration, list>>]

ManifestBytes(m) ==
  m.configuration + TotalBytes([i \in DOMAIN m.objects |-> ObjectBytes + m.objects[i].display_name])

\* The walk to the parents meets no identity twice: of any set of identities,
\* one has its parent outside.
Acyclic(list) ==
  \A C \in SUBSET {list[i].object_identity : i \in DOMAIN list} : C # {} =>
    \E id \in C : \A i \in DOMAIN list : list[i].object_identity = id => list[i].parent \notin C

\* InputManifest::validate for an available manifest.
validate_manifest(m) ==
  /\ m.configuration <= MaxIdentityLength
  /\ Len(m.objects) \in 1..MaxObjects
  /\ Distinct([i \in DOMAIN m.objects |-> m.objects[i].object_identity])
  /\ Distinct([i \in DOMAIN m.objects |-> m.objects[i].path])
  /\ \E i \in DOMAIN m.objects : m.objects[i].role = "rawGeometry"
  /\ \A i \in DOMAIN m.objects :
       m.objects[i].parent \in {None} \cup {m.objects[j].object_identity : j \in DOMAIN m.objects}
  /\ Acyclic(m.objects)
  /\ m.input_set_identity = m.objects
  /\ m.manifest_identity = <<m.configuration, m.objects>>

parse_input_manifest(m) == ManifestBytes(m) <= MaxManifestBytes /\ validate_manifest(m)

\* build_generator_settings: unique_keys maps a key to the last object with it.
UniqueKey(key) == CHOOSE i \in KeyOwners(objects, key) : \A j \in KeyOwners(objects, key) : j <= i

\* Positions in the order of the plan.
InOrder(S) ==
  [n \in 1..Cardinality(S) |-> CHOOSE i \in S : Cardinality({j \in S : j <= i}) = n]

Blocking == {i \in DOMAIN objects : objects[i].annotation.role = "supportBlocker"}

\* Mutant: a blocker's targets are collected in the order of the plan.
BlockersInPlanOrder ==
  LET blocking == InOrder(Blocking)
  IN  [b \in DOMAIN blocking |->
         LET targets == objects[blocking[b]].annotation.targets
             hit == InOrder({UniqueKey(targets[t]) : t \in DOMAIN targets})
         IN  [object_identity |-> manifest_object_identity(blocking[b]),
              targets |-> [h \in DOMAIN hit |-> manifest_object_identity(hit[h])]]]

Blockers ==
  LET blocking == InOrder(Blocking)
  IN  [b \in DOMAIN blocking |->
         LET targets == objects[blocking[b]].annotation.targets
         IN  [object_identity |-> manifest_object_identity(blocking[b]),
              targets |-> [t \in DOMAIN targets |->
                             manifest_object_identity(UniqueKey(targets[t]))]]]

Settings ==
  [blockers |-> Blockers,
   placements |-> [i \in DOMAIN objects |->
                     [object_identity |-> manifest_object_identity(i),
                      matrix |-> normalize_matrix(MatrixOf[i])]]]

ExpectedPlacements ==
  [i \in DOMAIN objects |-> [object_identity |-> manifest_object_identity(i),
                             role |-> transport_role(objects[i].annotation.role),
                             matrix |-> MatrixOf[i]]]

\* Shape of the settings alone: generator_settings and its placements.
validate_generator_settings(s) ==
  /\ Distinct([b \in DOMAIN s.blockers |-> s.blockers[b].object_identity])
  /\ \A b \in DOMAIN s.blockers :
       /\ Len(s.blockers[b].targets) \in 1..MaxDescriptionTargets
       /\ Distinct(s.blockers[b].targets)
  /\ Distinct([p \in DOMAIN s.placements |-> s.placements[p].object_identity])

\* validate_settings_context_v2: blockers are the auxiliary objects, targets
\* raw ones, and placements are the expected ones in order.
validate_settings_context(s, expected) ==
  LET Of(role) == {expected[i].object_identity : i \in {i \in DOMAIN expected : expected[i].role = role}}
  IN  /\ validate_generator_settings(s)
      /\ Len(s.placements) = Len(expected)
      /\ {s.blockers[b].object_identity : b \in DOMAIN s.blockers} = Of("auxiliaryGeometry")
      /\ \A b \in DOMAIN s.blockers : \A t \in DOMAIN s.blockers[b].targets :
           s.blockers[b].targets[t] \in Of("rawGeometry")
      /\ \A i \in DOMAIN expected :
           /\ s.placements[i].object_identity = expected[i].object_identity
           /\ s.placements[i].matrix = normalize_matrix(expected[i].matrix)

ExpectedFits(expected, m) ==
  /\ Len(expected) = Len(m.objects)
  /\ \A i \in DOMAIN expected : /\ expected[i].object_identity = m.objects[i].object_identity
                                /\ expected[i].role = m.objects[i].role

validate_construction(b) ==
  /\ parse_input_manifest(b.manifest)
  /\ ExpectedFits(b.expected, b.manifest)
  /\ validate_settings_context(b.settings, b.expected)

-----------------------------------------------------------------------------
(* generator_processing *)

\* The invocation refers to the manifest, the settings and the generator.
InvocationOf(d, m, s) ==
  [generator |-> d, manifest_identity |-> m.manifest_identity,
   input_set_identity |-> m.input_set_identity, settings_identity |-> s, output |-> "declared",
   manifest_path |-> <<"inputs", "manifest">>, settings_path |-> <<"inputs", "settings">>]

\* GeneratorRequest::validate and validate_with_manifest.
validate_with_manifest(i, m) ==
  /\ i.manifest_path # i.settings_path
  /\ validate_manifest(m)
  /\ i.manifest_identity = m.manifest_identity /\ i.input_set_identity = m.input_set_identity
  /\ \A j \in DOMAIN m.objects : m.objects[j].path \notin {i.manifest_path, i.settings_path}

\* prepare_generator_processing: an unsupported combination is a decision of
\* the recipe, not an error.
Recipe(d, supported, m, s) ==
  [deployed |-> d, supported |-> supported, manifest |-> m, settings |-> s,
   invocation |-> InvocationOf(d, m, s)]

Preparable(m, s, expected) ==
  /\ validate_manifest(m)
  /\ ExpectedFits(expected, m)
  /\ validate_settings_context(s, expected)
  /\ validate_with_manifest(InvocationOf(deployed, m, s), m)

derive_occurrences(recipe) ==
  [i \in DOMAIN recipe.manifest.objects |->
     [order |-> i, object |-> recipe.manifest.objects[i], placement |-> recipe.settings.placements[i]]]

\* What reopen_generator_processing expects, from the stored documents alone.
StoredPlacements(recipe) ==
  [i \in DOMAIN recipe.settings.placements |->
     [object_identity |-> recipe.manifest.objects[i].object_identity,
      role |-> recipe.manifest.objects[i].role,
      matrix |-> recipe.settings.placements[i].matrix]]

\* Mutant: the documents are checked and the hash is not.
ReopenUnhashed(row) ==
  /\ row.recipe.deployed = deployed /\ row.recipe.supported
  /\ Len(row.recipe.manifest.objects) = Len(row.recipe.settings.placements)
  /\ Preparable(row.recipe.manifest, row.recipe.settings, StoredPlacements(row.recipe))

\* The recipe is prepared again for the current deployment, and must have the
\* hash it is stored under; verify_persisted_generator_recipe then compares
\* the occurrence rows.
reopens(row) ==
  /\ row.recipe.deployed = deployed /\ row.recipe.supported
  /\ Len(row.recipe.manifest.objects) = Len(row.recipe.settings.placements)
  /\ Preparable(row.recipe.manifest, row.recipe.settings, StoredPlacements(row.recipe))
  /\ Recipe(deployed, TRUE, row.recipe.manifest, row.recipe.settings) = row.hash
  /\ row.recipe = row.hash
  /\ row.occurrences = derive_occurrences(row.recipe)

-----------------------------------------------------------------------------
\* Marker texts: any description, with a name that has no marker, a malformed
\* one, a plain one or the same annotation; or any name alone.
CarrierPairs ==
  (Carriers \X {None, Malformed, Plain}) \cup ({None} \X Carriers)
    \cup {<<a, a>> : a \in Annotations}

\* normalize_authoring_object, for the next selected part; a refusal drops the
\* whole plan.
read_part(carriers, part) ==
  /\ dstep = "plan" /\ Len(objects) < MaxObjects
  /\ part <= 1 + Cardinality({objects[i].part : i \in DOMAIN objects})
  /\ IF CarriersAgree(carriers[1], carriers[2])
       THEN /\ objects' = Append(objects, [annotation |-> parse_carriers(carriers[1], carriers[2]),
                                           part |-> part])
            /\ dstep' = dstep
       ELSE dstep' = "refused" /\ objects' = <<>>
  /\ UNCHANGED <<lengths, bundle, deployed, recipeRow, reopened, acceptedResult>>

\* The authoring document repeats the configuration identity in each selector.
AuthoringObjects(texts) ==
  [i \in DOMAIN objects |-> [annotation |-> objects[i].annotation, part |-> objects[i].part,
                             bytes |-> texts.configuration + texts.names[objects[i].part]]]

\* The end of construct_plan, for texts of these lengths.
finish_plan(texts) ==
  /\ dstep = "plan" /\ objects # <<>>
  /\ IF validate_authoring_context(AuthoringObjects(texts))
       THEN dstep' = "planned" /\ objects' = objects /\ lengths' = texts
       ELSE dstep' = "refused" /\ objects' = <<>> /\ lengths' = None
  /\ UNCHANGED <<bundle, deployed, recipeRow, reopened, acceptedResult>>

Constructed == [manifest |-> Manifest(lengths.configuration, ManifestObjects), settings |-> Settings,
                expected |-> ExpectedPlacements]

construct_generator_inputs ==
  /\ dstep = "planned"
  /\ IF validate_authoring_document(AuthoringObjects(lengths)) /\ validate_construction(Constructed)
       THEN bundle' = Constructed /\ dstep' = "constructed"
       ELSE bundle' = bundle /\ dstep' = "unconstructed"
  /\ UNCHANGED <<objects, lengths, deployed, recipeRow, reopened, acceptedResult>>

\* prepare and insert_generator_processing_recipe; the input kind and schemas
\* may not be those of the compatibility request.
prepare_generator_processing(supported, matching) ==
  /\ dstep = "constructed"
  /\ IF matching /\ Preparable(bundle.manifest, bundle.settings, bundle.expected)
       THEN LET r == Recipe(deployed, supported, bundle.manifest, bundle.settings)
            IN  /\ recipeRow' = [hash |-> r, recipe |-> r, occurrences |-> derive_occurrences(r)]
                /\ dstep' = "stored"
       ELSE dstep' = "refused" /\ recipeRow' = recipeRow
  /\ UNCHANGED <<objects, lengths, bundle, deployed, reopened, acceptedResult>>

Reversed(s) == [i \in DOMAIN s |-> s[Len(s) + 1 - i]]

\* A stored recipe whose JSON or whose occurrence rows were altered.
Damage ==
  /\ dstep = "stored" /\ recipeRow.recipe = recipeRow.hash
  /\ recipeRow.occurrences = derive_occurrences(recipeRow.recipe)
  /\ recipeRow' \in
       {[recipeRow EXCEPT !.recipe.manifest.objects = Reversed(@)],
        [recipeRow EXCEPT !.recipe.manifest = Manifest(@.configuration, Reversed(@.objects)),
                          !.recipe.settings.placements = Reversed(@)],
        [recipeRow EXCEPT !.recipe.manifest = Manifest(@.configuration,
                                                 [@.objects EXCEPT ![1].parent = manifest_object_identity(1)])],
        [recipeRow EXCEPT !.recipe.settings.placements[1].matrix = "moved"],
        [recipeRow EXCEPT !.recipe.settings.blockers = <<>>],
        [recipeRow EXCEPT !.recipe.supported = ~ @],
        [recipeRow EXCEPT !.occurrences = Tail(@)]}
  /\ UNCHANGED <<objects, lengths, bundle, deployed, reopened, acceptedResult, dstep>>

DeployOther ==
  /\ dstep = "stored" /\ reopened = None
  /\ \E d \in Deployments : deployed' = d
  /\ UNCHANGED <<objects, lengths, bundle, recipeRow, reopened, acceptedResult, dstep>>

reopen_generator_processing ==
  /\ dstep = "stored" /\ reopened = None
  /\ reopens(recipeRow)
  /\ reopened' = recipeRow.recipe
  /\ UNCHANGED <<objects, lengths, bundle, deployed, recipeRow, acceptedResult, dstep>>

\* What a generator may write: the answer to this invocation or to another
\* one, with or without the identities a success must report.
Results ==
  LET other == [reopened.invocation EXCEPT !.settings_identity.placements = <<>>]
  IN  [status : {"success", "failure"}, invocation : {None, reopened.invocation, other},
       output : {None, "declared", "elsewhere"}, oversize : BOOLEAN, errors : BOOLEAN]

\* Mutant: the result is only checked on its own.
ResultShape(r) ==
  IF r.status = "success" THEN r.invocation # None /\ r.output # None /\ ~ r.errors
                          ELSE r.output = None /\ r.errors

\* GeneratorResult::validate and validate_against_request.
validate_against_request(r) ==
  /\ IF r.status = "success" THEN r.invocation # None /\ r.output # None /\ ~ r.errors
                             ELSE r.output = None /\ r.errors
  /\ r.invocation \in {None, reopened.invocation}
  /\ r.status = "success" => r.output = reopened.invocation.output /\ ~ r.oversize

AcceptResult(r) ==
  /\ reopened # None /\ acceptedResult = None
  /\ validate_against_request(r)
  /\ acceptedResult' = r
  /\ UNCHANGED <<objects, lengths, bundle, deployed, recipeRow, reopened, dstep>>

\* The next request of the service.
NextDocuments ==
  /\ \/ dstep \in {"refused", "unconstructed", "stored"}
     \/ dstep = "plan" /\ Len(objects) = MaxObjects
  /\ objects' = <<>> /\ lengths' = None /\ bundle' = None /\ recipeRow' = None
  /\ reopened' = None /\ acceptedResult' = None /\ dstep' = "plan"
  /\ UNCHANGED deployed

DocumentsNext ==
  \/ \E c \in CarrierPairs, part \in ConfiguredParts : read_part(c, part)
  \/ \E t \in TextLengths : finish_plan(t)
  \/ construct_generator_inputs
  \/ \E supported, matching \in BOOLEAN : prepare_generator_processing(supported, matching)
  \/ Damage
  \/ DeployOther
  \/ reopen_generator_processing
  \/ reopened # None /\ \E r \in Results : AcceptResult(r)
  \/ NextDocuments

DocumentsSpec == DocumentsInit /\ [][DocumentsNext]_documentVars

-----------------------------------------------------------------------------
\* The documents follow the plan: it stays within its limits, a bundle is there from
\* construct_generator_inputs on, and a recipe row only once one was prepared.
DocumentsTypeOK ==
  /\ Len(objects) <= MaxObjects
  /\ \A i \in DOMAIN objects :
       /\ objects[i].annotation \in Annotations
       /\ objects[i].part \in ConfiguredParts
  /\ lengths \in TextLengths \cup {None}
  /\ deployed \in Deployments
  /\ dstep \in {"plan", "planned", "constructed", "unconstructed", "stored", "refused"}
  /\ dstep \in {"constructed", "stored"} => bundle # None
  /\ recipeRow # None => dstep = "stored"

\* What the protocol can represent of a plan: a configuration identity of a
\* source may be longer than an identity of the protocol, and a manifest larger
\* than its limit.
Representable ==
  /\ lengths.configuration <= MaxIdentityLength
  /\ lengths.configuration
       + TotalBytes([i \in DOMAIN objects |-> ObjectBytes + lengths.names[objects[i].part]])
       <= MaxManifestBytes

\* construct_generator_inputs: "Protocol-representation bounds fail closed", and
\* nothing else does.  A plan that the authoring rules accept is turned into
\* documents that the generator's own rules accept, every blocker auxiliary
\* geometry, every target raw geometry and something to print, exactly when the
\* protocol can represent it.
AcceptedPlanConstructs ==
  /\ dstep = "unconstructed" => ~ Representable
  /\ bundle # None => Representable

\* build_generator_settings: a blocker's targets are the objects its author
\* meant, whatever the order of the objects and however often a part occurs.
TargetsAreMeant ==
  bundle # None =>
    \A i \in DOMAIN objects : objects[i].annotation.role = "supportBlocker" =>
      \E b \in DOMAIN bundle.settings.blockers :
        /\ bundle.settings.blockers[b].object_identity = bundle.manifest.objects[i].object_identity
        /\ Len(bundle.settings.blockers[b].targets) = Len(objects[i].annotation.targets)
        /\ \A t \in DOMAIN objects[i].annotation.targets : \A j \in DOMAIN objects :
             (bundle.settings.blockers[b].targets[t] = bundle.manifest.objects[j].object_identity)
               <=> objects[j].annotation.key = objects[i].annotation.targets[t]

\* The manifest and settings documents exist for every accepted plan within the
\* bounds of the protocol and say what its author meant.
DocumentsFollowPlan ==
  /\ AcceptedPlanConstructs
  /\ TargetsAreMeant

\* Database::reopen_generator_processing gives out only the recipe that was
\* prepared from the constructed documents for the deployment of that moment.
ReopenedIsPrepared ==
  reopened # None =>
    reopened = Recipe(deployed, TRUE, bundle.manifest, bundle.settings)

\* A result is accepted only as the answer to the reopened invocation; a
\* success names the declared output within its limit, and a failure none.
AcceptedAnswersInvocation ==
  acceptedResult # None =>
    /\ acceptedResult.status = "success" => /\ acceptedResult.invocation = reopened.invocation
                                      /\ acceptedResult.output = "declared" /\ ~ acceptedResult.oversize
    /\ acceptedResult.status = "failure" => acceptedResult.output = None
    /\ acceptedResult.invocation # None => acceptedResult.invocation.settings_identity = bundle.settings

\* From the prepared recipe through its stored row to the accepted result, one
\* invocation is meant.
ResultAnswersRecipe ==
  /\ ReopenedIsPrepared
  /\ AcceptedAnswersInvocation

=============================================================================
