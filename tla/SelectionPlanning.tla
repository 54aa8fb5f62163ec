--------------------------- MODULE SelectionPlanning ---------------------------
(***************************************************************************)
(* plan_selection (onshape_selection): the selected parts of a part studio *)
(* or occurrences of an assembly are resolved phase by phase against what  *)
(* Onshape answers, the annotations are read from the parts' carriers, and *)
(* one plan or one failure comes out.                                      *)
(*                                                                         *)
(* What a phase reads of an entry is chosen when it is read: it is         *)
(* malformed, well formed but not supported, or supported.  Positions      *)
(* count from 1, entries are read in their order, and the occurrences of   *)
(* an assembly carrier by carrier, in the order of their first positions.  *)
(***************************************************************************)
EXTENDS Authoring

CONSTANTS
  SelectionRequests,    \* [kind, selectors]; a selector of the other kind is None
  MaxSelectors,
  CarrierKeys, PartIds, \* configured part studios, and parts in them
  RootCarrier,          \* the selected part studio itself
  MarkerTexts,          \* what name and description of a part may say
  TransformOf,          \* transform of each assembly selector
  EntryBytes            \* of each selector, in the authoring document

Transforms == {"identity", "moved", "negative zero", "last row off"}

ApiFailures == {"transport", "authentication", "operational"}
Failures == [kind : {"invalid", "unavailable"} \cup ApiFailures, position : Nat \cup {None}]

ASSUME SelectionAssumption ==
  /\ MaxSelectors \in Nat \ {0}
  /\ RootCarrier \in CarrierKeys
  /\ MarkerTexts \subseteq Carriers
  /\ \A s \in DOMAIN TransformOf : TransformOf[s] \in Transforms
  /\ EntryBytes \in [PartIds \cup DOMAIN TransformOf -> Nat]
  /\ \A r \in SelectionRequests :
       /\ r.kind \in {"part studio", "assembly"}
       /\ r.selectors \in Seq((IF r.kind = "part studio" THEN PartIds
                               ELSE DOMAIN TransformOf) \cup {None})
  /\ None \notin SelectionRequests \cup Failures

Leaves == [carrier : CarrierKeys, part : PartIds]

VARIABLES
  selection,   \* the request being planned, or None
  gate,        \* number of the phase being resolved, 0 outside the phases
  seen,        \* verdict of the phase on each position it has read
  leaves,      \* configured leaf of each position, once projected
  pending,     \* positions of an assembly whose carriers are still to be read
  texts,       \* marker of each part whose carrier was read
  candidates,  \* marker committed for each position
  plan,        \* the plan, or None
  failure      \* [kind, position], or None

selectionVars == <<selection, gate, seen, leaves, pending, texts, candidates, plan, failure>>

SelectionInit ==
  /\ selection = None /\ gate = 0 /\ seen = <<>> /\ leaves = <<>> /\ pending = {}
  /\ texts = <<>> /\ candidates = <<>> /\ plan = None /\ failure = None

FailSelection(kind, position) ==
  /\ failure' = [kind |-> kind, position |-> position]
  /\ gate' = 0
  /\ UNCHANGED <<selection, seen, leaves, pending, texts, candidates, plan>>

Lowest(S) == CHOOSE p \in S : \A q \in S : p <= q

\* f with the value v at p.
Extend(f, p, v) == [q \in DOMAIN f \cup {p} |-> IF q = p THEN v ELSE f[q]]

-----------------------------------------------------------------------------
\* Positions that preflight rejects: the wrong kind, or one seen before.
Invalid(r) ==
  {p \in DOMAIN r.selectors : \/ r.selectors[p] = None
                              \/ \E q \in 1..(p - 1) : r.selectors[q] = r.selectors[p]}

preflight_selection(r) ==
  /\ selection = None
  /\ selection' = r
  /\ failure' = IF Len(r.selectors) \notin 1..MaxSelectors
                  THEN [kind |-> "invalid", position |-> None]
                  ELSE IF Invalid(r) # {} THEN [kind |-> "invalid", position |-> Lowest(Invalid(r))]
                  ELSE None
  /\ UNCHANGED <<gate, seen, leaves, pending, texts, candidates, plan>>

\* resolve_version, validate_handoff and the call for the root; a failure has
\* no position.
read_root(outcome) ==
  /\ selection # None /\ failure = None /\ plan = None /\ gate = 0 /\ pending = {}
  /\ candidates = <<>>
  /\ IF outcome \in ApiFailures
       THEN FailSelection(outcome, None)
       ELSE /\ gate' = 1
            /\ UNCHANGED <<selection, seen, leaves, pending, texts, candidates, plan, failure>>

-----------------------------------------------------------------------------
\* The phases in the order of resolve_part_studio, resolve_assembly and
\* resolve_carrier.
PartStudioGates == <<"index", "present", "identity", "configurations", "solid", "names">>
AssemblyGates == <<"index", "association", "excluded", "deleted", "type", "suppressed",
                   "hidden", "leaf", "transform", "part index", "join", "body">>
CarrierGates == <<"carrier index", "carrier join", "solid", "names">>

Gates == IF pending # {} THEN CarrierGates
         ELSE IF selection.kind = "part studio" THEN PartStudioGates ELSE AssemblyGates

\* Phases about the answer as a whole, and about every entry in turn.
WholeGates == {"index", "configurations", "part index", "carrier index"}
NeverMalformed == {"present", "excluded"}
NeverUnsupported == {"identity", "join", "carrier join", "names"}

\* The carrier group being read: the one with the first pending position.
Group == {p \in pending : leaves[p].carrier = leaves[Lowest(pending)].carrier}

Scope == IF pending # {} THEN Group ELSE DOMAIN selection.selectors

\* A failure without a position gets that of the group (position_if_missing).
WholePosition == IF pending # {} THEN Lowest(pending) ELSE None

CheckAnswer(wellFormed) ==
  /\ gate # 0 /\ Gates[gate] \in WholeGates
  /\ IF wellFormed
       THEN /\ gate' = gate + 1 /\ seen' = <<>>
            /\ UNCHANGED <<selection, leaves, pending, texts, candidates, plan, failure>>
       ELSE FailSelection("operational", WholePosition)

Verdicts == {"supported"}
            \cup (IF Gates[gate] \in NeverMalformed THEN {} ELSE {"malformed"})
            \cup (IF Gates[gate] \in NeverUnsupported THEN {} ELSE {"unsupported"})

\* Configured leaf of the entry at position p, read in the leaf phase; in a
\* part studio the selector is the part.
ReadLeaf(p, verdict) ==
  CASE Gates[gate] = "leaf" /\ verdict = "supported" -> \E l \in Leaves : leaves' = Extend(leaves, p, l)
    [] Gates[gate] = "identity" /\ verdict = "supported" ->
         leaves' = Extend(leaves, p, [carrier |-> RootCarrier, part |-> selection.selectors[p]])
    [] OTHER -> leaves' = leaves

\* One row per part: the marker of a part is the same however often it occurs.
ReadText(p, verdict) ==
  IF Gates[gate] = "names" /\ verdict = "supported" /\ leaves[p] \notin DOMAIN texts
    THEN \E t \in MarkerTexts : texts' = Extend(texts, leaves[p], t)
    ELSE texts' = texts

\* The entry the phase reads next.
NextEntry == Lowest(Scope \ DOMAIN seen)

\* Mutant: an unsupported entry ends the phase at once.
ProjectAndClassify(verdict) ==
  /\ gate # 0 /\ Gates[gate] \notin WholeGates /\ Scope \ DOMAIN seen # {}
  /\ IF verdict # "supported"
       THEN FailSelection(IF verdict = "malformed" THEN "operational" ELSE "unavailable", NextEntry)
       ELSE /\ seen' = Extend(seen, NextEntry, verdict)
            /\ ReadLeaf(NextEntry, verdict) /\ ReadText(NextEntry, verdict)
            /\ UNCHANGED <<selection, gate, pending, candidates, plan, failure>>

\* A phase reads every entry; a malformed one is an operational failure there.
Project(verdict) ==
  /\ gate # 0 /\ Gates[gate] \notin WholeGates /\ Scope \ DOMAIN seen # {}
  /\ verdict \in Verdicts
  /\ IF verdict = "malformed"
       THEN FailSelection("operational", NextEntry)
       ELSE /\ seen' = Extend(seen, NextEntry, verdict)
            /\ ReadLeaf(NextEntry, verdict) /\ ReadText(NextEntry, verdict)
            /\ UNCHANGED <<selection, gate, pending, candidates, plan, failure>>

\* Mutant: metadata goes to the candidate with the number of its row.
CommitByRow ==
  [p \in DOMAIN leaves |->
     IF p <= Cardinality(Group)
       THEN texts[leaves[CHOOSE q \in Group : Cardinality({g \in Group : g <= q}) = p]]
       ELSE candidates[p]]

\* resolve_carrier commits only after every row was projected.
Commit == [p \in DOMAIN leaves |-> IF p \in Group THEN texts[leaves[p]] ELSE candidates[p]]

\* The end of a phase: the lowest unsupported position, or the next phase.
Classify ==
  /\ gate # 0 /\ Gates[gate] \notin WholeGates /\ Scope \ DOMAIN seen = {}
  /\ LET unsupported == {p \in DOMAIN seen : seen[p] = "unsupported"}
     IN  IF unsupported # {}
           THEN FailSelection("unavailable", Lowest(unsupported))
           ELSE /\ seen' = <<>>
                /\ IF gate < Len(Gates)
                     THEN gate' = gate + 1 /\ UNCHANGED <<pending, candidates>>
                     ELSE /\ gate' = 0
                          /\ IF pending # {}
                               THEN candidates' = Commit /\ pending' = pending \ Group
                               ELSE IF selection.kind = "part studio"
                                 THEN candidates' = [p \in DOMAIN leaves |-> texts[leaves[p]]]
                                      /\ pending' = {}
                                 ELSE candidates' = [p \in DOMAIN leaves |-> None]
                                      /\ pending' = DOMAIN leaves
                /\ UNCHANGED <<selection, leaves, texts, plan, failure>>

\* The parts call of the next carrier group.
read_carrier(outcome) ==
  /\ gate = 0 /\ pending # {} /\ failure = None
  /\ IF outcome \in ApiFailures
       THEN FailSelection(outcome, Lowest(pending))
       ELSE /\ gate' = 1
            /\ UNCHANGED <<selection, seen, leaves, pending, texts, candidates, plan, failure>>

-----------------------------------------------------------------------------
(* construct_plan *)

Unreadable == {p \in DOMAIN candidates : ~ CarriersAgree(candidates[p], None)}

Authored == [p \in DOMAIN candidates |->
               [annotation |-> parse_carriers(candidates[p], None), part |-> leaves[p],
                bytes |-> EntryBytes[selection.selectors[p]]]]

\* document_failure_position: the first object with a target that is not one
\* other, printable object; a document is too large without one.
document_failure_position(objs) ==
  LET bad == {p \in DOMAIN objs : \E t \in DOMAIN objs[p].annotation.targets :
                LET owners == KeyOwners(objs, objs[p].annotation.targets[t])
                IN  \/ Cardinality(owners) # 1
                    \/ \E o \in owners : o = p \/ objs[o].annotation.role # "printable"}
  IN  IF bad = {} THEN None ELSE Lowest(bad)

\* Mutant: only one part with two annotations is located.
LocateLeavesOnly(objs) ==
  LET firsts == {f \in DOMAIN objs : \E p \in DOMAIN objs :
                   f < p /\ objs[f].part = objs[p].part /\ objs[f].annotation # objs[p].annotation}
  IN  IF firsts = {} THEN None ELSE Lowest(firsts)

\* first_by_leaf and first_by_key: the first object of the part, or with the
\* key, of the object at p.
FirstOfLeaf(objs, p) == Lowest({q \in 1..p : objs[q].part = objs[p].part})
FirstOfKey(objs, p) == Lowest({q \in 1..p : objs[q].annotation.key = objs[p].annotation.key})

\* context_failure_position: the lowest first position of a part or of a key
\* that conflicts with a later one.
context_failure_position(objs) ==
  LET byLeaf == {FirstOfLeaf(objs, p) : p \in
                   {p \in DOMAIN objs : objs[FirstOfLeaf(objs, p)].annotation # objs[p].annotation}}
      byKey == {FirstOfKey(objs, p) : p \in
                  {p \in DOMAIN objs :
                     /\ objs[p].annotation.key # None
                     /\ \/ objs[FirstOfKey(objs, p)].part # objs[p].part
                        \/ objs[FirstOfKey(objs, p)].annotation # objs[p].annotation}}
  IN  IF byLeaf \cup byKey = {} THEN None ELSE Lowest(byLeaf \cup byKey)

\* Mutant: the last row of a transform is kept as it came.
NormalizeZeros(m) == IF m = "negative zero" THEN "identity" ELSE m

\* normalize_matrix: no negative zero, and the last row made exact.
normalize_transform(m) == IF m \in {"negative zero", "last row off"} THEN "identity" ELSE m

PlanObjects ==
  [p \in DOMAIN candidates |->
     [identity |-> <<selection.selectors[p], leaves[p]>>,
      selector |-> selection.selectors[p], part |-> leaves[p],
      annotation |-> Authored[p].annotation, bytes |-> Authored[p].bytes,
      matrix |-> IF selection.kind = "part studio" THEN "identity"
                 ELSE normalize_transform(TransformOf[selection.selectors[p]])]]

construct_plan(overflow) ==
  /\ gate = 0 /\ pending = {} /\ candidates # <<>> /\ failure = None /\ plan = None
  /\ CASE Unreadable # {} -> FailSelection("unavailable", Lowest(Unreadable))
       [] Unreadable = {} /\ ~ validate_authoring_document(Authored) ->
            FailSelection("unavailable", document_failure_position(Authored))
       [] Unreadable = {} /\ validate_authoring_document(Authored)
            /\ ~ validate_authoring_context(Authored) ->
            FailSelection("unavailable", context_failure_position(Authored))
       [] OTHER ->
            IF overflow THEN FailSelection("unavailable", 1)
            ELSE /\ plan' = [kind |-> selection.kind, objects |-> PlanObjects]
                 /\ UNCHANGED <<selection, gate, seen, leaves, pending, texts, candidates, failure>>

\* validate_retained_plan: what a consumer asks of a plan it did not make.
validate_retained_plan(q) ==
  /\ Len(q.objects) \in 1..MaxSelectors
  /\ Distinct([p \in DOMAIN q.objects |-> q.objects[p].identity])
  /\ \A p \in DOMAIN q.objects :
       LET o == q.objects[p]
       IN  /\ o.matrix \in {"identity", "moved"}
           /\ o.identity = <<o.selector, o.part>>
           /\ q.kind = "part studio" => /\ o.part = [carrier |-> RootCarrier, part |-> o.selector]
                                        /\ o.matrix = "identity"
  /\ validate_authoring_context(q.objects)

\* The next request of the service.
NextSelection ==
  /\ plan # None \/ failure # None
  /\ selection' = None /\ gate' = 0 /\ seen' = <<>> /\ leaves' = <<>> /\ pending' = {}
  /\ texts' = <<>> /\ candidates' = <<>> /\ plan' = None /\ failure' = None

SelectionNext ==
  \/ \E r \in SelectionRequests : preflight_selection(r)
  \/ \E o \in ApiFailures \cup {"answered"} : read_root(o) \/ read_carrier(o)
  \/ \E wellFormed \in BOOLEAN : CheckAnswer(wellFormed)
  \/ \E v \in {"supported", "unsupported", "malformed"} : Project(v)
  \/ Classify
  \/ \E overflow \in BOOLEAN : construct_plan(overflow)
  \/ NextSelection

SelectionSpec == SelectionInit /\ [][SelectionNext]_selectionVars

-----------------------------------------------------------------------------
\* plan_selection keeps within its phases and the limit on selectors, and a failure
\* has one of the categories of the code and a position of the request.
SelectionTypeOK ==
  /\ selection \in SelectionRequests \cup {None}
  /\ gate \in 0..Len(AssemblyGates)
  /\ DOMAIN seen \subseteq 1..MaxSelectors /\ pending \subseteq DOMAIN leaves
  /\ \A p \in DOMAIN seen : seen[p] \in {"supported", "unsupported"}
  /\ \A p \in DOMAIN leaves : leaves[p] \in Leaves
  /\ \A p \in DOMAIN candidates : candidates[p] \in Carriers
  /\ failure # None =>
       /\ failure.kind \in {"invalid", "unavailable"} \cup ApiFailures
       /\ failure.position \in {None} \cup 1..(MaxSelectors + 1)

\* resolve_part_studio, resolve_assembly and resolve_carrier: an entry is
\* reported as not available only after every entry of its phase was read and
\* found well formed, and the lowest such position is reported.
MalformedWinsWithinPhase ==
  failure # None /\ failure.kind = "unavailable" /\ DOMAIN seen # {} =>
    /\ DOMAIN seen = Scope
    /\ failure.position \in Scope /\ seen[failure.position] = "unsupported"
    /\ \A p \in Scope : p < failure.position => seen[p] = "supported"

\* document_failure_position and context_failure_position repeat the rules of
\* the authoring validators: whenever those reject a plan for one of its
\* objects, the caller is told a position.  Only a plan whose annotations are
\* all in order, and whose document is too large, is rejected without one.
RejectionIsLocated ==
  failure # None /\ failure.kind = "unavailable" =>
    \/ failure.position \in DOMAIN selection.selectors
    \/ /\ failure.position = None /\ candidates # <<>> /\ pending = {}
       /\ Unreadable = {} /\ TargetsResolve(Authored) /\ ~ validate_serialized_size(Authored)

\* plan_selection: a plan has every selector of the request, in its order, each
\* with the marker of its own part, through however many carrier groups it was
\* read; a failure leaves no plan.
PlanAnswersRequest ==
  plan # None =>
    /\ failure = None
    /\ [p \in DOMAIN plan.objects |-> plan.objects[p].selector] = selection.selectors
    /\ \A p \in DOMAIN plan.objects :
         plan.objects[p].annotation = parse_carriers(texts[plan.objects[p].part], None)

\* validate_retained_plan accepts every plan construct_plan makes: what was
\* planned can be acquired later from its record.
PlansCanBeRetained == plan # None => validate_retained_plan(plan)

\* A rejection by plan_selection names the entry that is at fault, the first of
\* its phase, unless only the size of the whole is, and never blames a selector
\* for a malformed answer.
RejectionIsExact ==
  /\ MalformedWinsWithinPhase
  /\ RejectionIsLocated

\* A plan is the answer to its request, and stays usable from its record.
PlanIsFaithful ==
  /\ PlanAnswersRequest
  /\ PlansCanBeRetained

=============================================================================
