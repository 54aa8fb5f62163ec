------------------------- MODULE GeometryAcquisition -------------------------
(***************************************************************************)
(* Planning and acquisition of src/onshape_geometry.rs over the one-try    *)
(* client of src/onshape_api.rs.                                           *)
(*                                                                         *)
(* A planner resolves the encoding of a configuration, runs the selection  *)
(* planner and records plan and encoding together, once per plan identity. *)
(* The holder of the recorded handle then translates and downloads every   *)
(* distinct leaf of the plan under nested deadlines.                       *)
(*                                                                         *)
(* PlanOf[c] is the plan Onshape's answers lead to; the plan identity does *)
(* not cover the encoding, so configurations may share a plan.  Time is a  *)
(* count of ticks that any await may let pass.                             *)
(***************************************************************************)
EXTENDS Absence, Naturals, Sequences

CONSTANTS
  Planners,        \* jobs that plan
  Acquirers,       \* those that go on to acquire
  Configs,         \* typed parameter selections of one source
  EncodedIds,      \* encoded ids Onshape answers with
  PlanOf,          \* PlanOf[c]: sequence of leaves, one per selected object
  PlanTime, LeafTime, TranslationTime,  \* deadlines, in ticks
  MaxPolls,
  MaxResets        \* bound: resets of the generated state

Plans == {PlanOf[c] : c \in Configs}
PlannedLeaves == UNION {{p[i] : i \in DOMAIN p} : p \in Plans}

\* EncodingHandoff and ProvenanceRecord; the identities are their contents.
EncodingOf == [config : Configs, id : EncodedIds]
Provenance == [encoding : EncodingOf, plan : Plans]

ASSUME AcquisitionAssumption ==
  /\ Acquirers \subseteq Planners
  /\ \A p \in Plans : p \in Seq(PlannedLeaves) /\ p # <<>>
  /\ TranslationTime <= LeafTime /\ LeafTime <= PlanTime
  /\ {PlanTime, LeafTime, TranslationTime, MaxPolls, MaxResets} \subseteq Nat
  /\ None \notin Provenance

VARIABLES
  encodings,    \* configuration_encodings: the encoded id of a configuration
  provenance,   \* acquisition_plan_provenance: the record of a plan
  resets,
  pstep,        \* per planner
  request,      \* per planner: its handoff
  handle,       \* per planner: TrustedAcquisitionPlan
  acquisition   \* per acquirer: the acquisition in progress or its result

planning == <<pstep, request, handle>>
acquisitionVars == <<encodings, provenance, resets, planning, acquisition>>

Idle == [position |-> 0, elapsed |-> 0, leafElapsed |-> 0, polls |-> 0,
         state |-> None, got |-> <<>>, created |-> <<>>]

AcquisitionInit ==
  /\ encodings = [c \in Configs |-> None]
  /\ provenance = [p \in Plans |-> None]
  /\ resets = 0
  /\ pstep = [a \in Planners |-> "idle"]
  /\ request = [a \in Planners |-> None]
  /\ handle = [a \in Planners |-> None]
  /\ acquisition = [a \in Acquirers |-> Idle]

-----------------------------------------------------------------------------
(* plan_for_acquisition.                                                   *)

PlannerGoto(a, s) == pstep' = [pstep EXCEPT ![a] = s]

\* configuration_encoding::resolve: the stored encoding, or a new one that is
\* stored first.
resolve_encoding(a, c) ==
  /\ pstep[a] = "idle"
  /\ \E id \in IF encodings[c] = None THEN EncodedIds ELSE {encodings[c]} :
       /\ encodings' = [encodings EXCEPT ![c] = id]
       /\ request' = [request EXCEPT ![a] = [config |-> c, id |-> id]]
  /\ PlannerGoto(a, "plan")
  /\ UNCHANGED <<provenance, resets, handle, acquisition>>

\* validate_handoff against the table.
validate_encoding(e) == encodings[e.config] = e.id

\* record_planning_invocation up to the candidate record: the encoding row is
\* read, the version resolved, the selection planned and the projection
\* compared with the request.  An Onshape call may fail or name another source.
plan_selection(a) ==
  /\ pstep[a] = "plan"
  /\ \/ /\ validate_encoding(request[a])
        /\ PlannerGoto(a, "record")
     \/ PlannerGoto(a, "failed")
  /\ UNCHANGED <<encodings, provenance, resets, request, handle, acquisition>>

Candidate(a) == [encoding |-> request[a], plan |-> PlanOf[request[a].config]]

\* Mutant: a later record replaces the earlier one.
RecordLatest(a) ==
  /\ pstep[a] = "record"
  /\ provenance' = [provenance EXCEPT ![Candidate(a).plan] = Candidate(a)]
  /\ PlannerGoto(a, "reread")
  /\ UNCHANGED <<encodings, resets, request, handle, acquisition>>

\* The candidate is validated and inserted if absent; an unequal row that is
\* there already fails the transaction.
record_acquisition_provenance(a) ==
  /\ pstep[a] = "record"
  /\ LET c == Candidate(a)
         row == provenance[c.plan] IN
       IF validate_encoding(c.encoding) /\ row \in {None, c}
         THEN /\ provenance' = [provenance EXCEPT ![c.plan] = c]
              /\ PlannerGoto(a, "reread")
         ELSE /\ PlannerGoto(a, "failed")
              /\ provenance' = provenance
  /\ UNCHANGED <<encodings, resets, request, handle, acquisition>>

\* read_association: the row must be the one asked for and its encoding must
\* still be backed by the table.
read_association(r) == provenance[r.plan] = r /\ validate_encoding(r.encoding)

Reread(a) ==
  /\ pstep[a] = "reread"
  /\ IF read_association(Candidate(a))
       THEN /\ handle' = [handle EXCEPT ![a] = Candidate(a)]
            /\ PlannerGoto(a, "planned")
       ELSE PlannerGoto(a, "failed") /\ handle' = handle
  /\ UNCHANGED <<encodings, provenance, resets, request, acquisition>>

\* lookup_acquisition_plan: a later process takes up a recorded plan by its
\* identities; nothing is created or repaired.
lookup_acquisition_plan(a, p) ==
  /\ pstep[a] = "idle"
  /\ provenance[p] # None
  /\ IF read_association(provenance[p])
       THEN /\ handle' = [handle EXCEPT ![a] = provenance[p]]
            /\ PlannerGoto(a, "planned")
       ELSE PlannerGoto(a, "failed") /\ handle' = handle
  /\ UNCHANGED <<encodings, provenance, resets, request, acquisition>>

-----------------------------------------------------------------------------
(* acquire_geometry.                                                       *)

Update(a, r) == acquisition' = [acquisition EXCEPT ![a] = r]

Binding(a) == handle[a].plan[acquisition[a].position]

\* The leaf of an earlier position with the same leaf is used again.
Acquired(a, leaf) ==
  \E i \in DOMAIN acquisition[a].got : acquisition[a].got[i].leaf = leaf

InTime(q) == q.elapsed < PlanTime
TranslationInTime(q) == InTime(q) /\ q.leafElapsed < TranslationTime
LeafInTime(q) == InTime(q) /\ q.leafElapsed < LeafTime

\* An error returns and drops what was retained.
FailLeaf(a) ==
  /\ PlannerGoto(a, "failed")
  /\ Update(a, Idle)

\* The whole association is validated again and the version read once more
\* before the first translation is created; another microversion ends it.
acquire_with_timing(a) ==
  /\ pstep[a] = "planned" /\ a \in Acquirers
  /\ \/ /\ read_association(handle[a])
        /\ PlannerGoto(a, "leaf")
        /\ Update(a, [Idle EXCEPT !.position = 1])
     \/ FailLeaf(a)
  /\ UNCHANGED <<encodings, provenance, resets, request, handle>>

\* Mutant: every position is translated anew.
CreateAlways(a) ==
  /\ pstep[a] = "leaf"
  /\ \/ \E state \in {"ACTIVE", "DONE", "FAILED"} :
          /\ Update(a, [acquisition[a] EXCEPT
               !.leafElapsed = 0, !.polls = 0, !.state = state,
               !.created = Append(@, [leaf |-> Binding(a), config |-> handle[a].encoding])])
          /\ PlannerGoto(a, "translate")
     \/ FailLeaf(a)
  /\ UNCHANGED <<encodings, provenance, resets, request, handle>>

\* create_geometry_translation: one try, with the leaf and the configuration
\* of the record (the handoff's id; for an assembly the leaf's own).  The answer has a state, or the call
\* fails, is refused, or names another source.
create_geometry_translation(a) ==
  /\ pstep[a] = "leaf"
  /\ \/ /\ InTime(acquisition[a])
        /\ ~ Acquired(a, Binding(a))
        /\ \E state \in {"ACTIVE", "DONE", "FAILED"} :
             Update(a, [acquisition[a] EXCEPT
               !.leafElapsed = 0, !.polls = 0, !.state = state,
               !.created = Append(@, [leaf |-> Binding(a), config |-> handle[a].encoding])])
        /\ PlannerGoto(a, "translate")
     \/ /\ InTime(acquisition[a])
        /\ Acquired(a, Binding(a))
        /\ PlannerGoto(a, "bind")
        /\ Update(a, acquisition[a])
     \/ FailLeaf(a)
  /\ UNCHANGED <<encodings, provenance, resets, request, handle>>

\* Mutant: the count of polls starts again and the time is not looked at.
PollForEver(a) ==
  /\ pstep[a] = "translate"
  /\ \/ /\ acquisition[a].state = "ACTIVE"
        /\ \E state \in {"ACTIVE", "DONE", "FAILED"} :
             Update(a, [acquisition[a] EXCEPT !.state = state,
                          !.polls = IF @ < MaxPolls THEN @ + 1 ELSE 0])
        /\ pstep' = pstep
     \/ acquisition[a].state = "DONE" /\ PlannerGoto(a, "download") /\ Update(a, acquisition[a])
     \/ acquisition[a].state = "FAILED" /\ FailLeaf(a)
  /\ UNCHANGED <<encodings, provenance, resets, request, handle>>

\* The poll loop.  Every answer must carry the id of the create answer and
\* echo the source; DONE must name exactly one external data id.
poll_geometry_translation(a) ==
  /\ pstep[a] = "translate"
  /\ \/ /\ acquisition[a].state = "ACTIVE"
        /\ acquisition[a].polls < MaxPolls /\ TranslationInTime(acquisition[a])
        /\ \E state \in {"ACTIVE", "DONE", "FAILED"} :
             Update(a, [acquisition[a] EXCEPT !.polls = @ + 1, !.state = state])
        /\ pstep' = pstep
     \/ /\ acquisition[a].state = "DONE"
        /\ TranslationInTime(acquisition[a])
        /\ PlannerGoto(a, "download")
        /\ Update(a, acquisition[a])
     \/ FailLeaf(a)
  /\ UNCHANGED <<encodings, provenance, resets, request, handle>>

\* download_geometry and the copy into an anonymous file.
download_geometry(a) ==
  /\ pstep[a] = "download"
  /\ \/ LeafInTime(acquisition[a]) /\ PlannerGoto(a, "bind") /\ Update(a, acquisition[a])
     \/ FailLeaf(a)
  /\ UNCHANGED <<encodings, provenance, resets, request, handle>>

\* The translation a position is bound to: its own, or that of the first
\* position with its leaf.
TranslationOf(q, leaf) ==
  CHOOSE i \in DOMAIN q.created : q.created[i].leaf = leaf

\* Mutant: the bytes of the last download are bound.
BindLast(a) ==
  /\ pstep[a] = "bind"
  /\ LET q == acquisition[a]
         g == [leaf |-> Binding(a), translation |-> Len(q.created)] IN
       /\ Update(a, [q EXCEPT !.got = Append(@, g), !.position = @ + 1])
       /\ PlannerGoto(a, IF q.position = Len(handle[a].plan) THEN "acquired" ELSE "leaf")
  /\ UNCHANGED <<encodings, provenance, resets, request, handle>>

\* A position gets payload and evidence of its leaf.  After the last one the
\* result is checked against the record and the deadline.
Bind(a) ==
  /\ pstep[a] = "bind"
  /\ LET q == acquisition[a]
         g == [leaf |-> Binding(a), translation |-> TranslationOf(q, Binding(a))] IN
       \/ /\ InTime(q)
          /\ Update(a, [q EXCEPT !.got = Append(@, g), !.position = @ + 1])
          /\ PlannerGoto(a, IF q.position = Len(handle[a].plan) THEN "acquired" ELSE "leaf")
       \/ ~ InTime(q) /\ FailLeaf(a)
  /\ UNCHANGED <<encodings, provenance, resets, request, handle>>

-----------------------------------------------------------------------------
(* The environment.                                                        *)

Tick(a) ==
  /\ pstep[a] \in {"leaf", "translate", "download", "bind"}
  /\ acquisition[a].elapsed < PlanTime
  /\ Update(a, [acquisition[a] EXCEPT !.elapsed = @ + 1, !.leafElapsed = @ + 1])
  /\ UNCHANGED <<encodings, provenance, resets, planning>>

\* The job ends, is cancelled or dies with its process: the retained files
\* are anonymous and go with it.
EndPlanner(a) ==
  /\ pstep[a] # "idle"
  /\ PlannerGoto(a, "idle")
  /\ request' = [request EXCEPT ![a] = None]
  /\ handle' = [handle EXCEPT ![a] = None]
  /\ acquisition' = [b \in Acquirers |-> IF b = a THEN Idle ELSE acquisition[b]]
  /\ UNCHANGED <<encodings, provenance, resets>>

\* clear_generated_state deletes the encodings and keeps the provenance.
ResetEncodings ==
  /\ resets < MaxResets
  /\ resets' = resets + 1
  /\ encodings' = [c \in Configs |-> None]
  /\ UNCHANGED <<provenance, planning, acquisition>>

AcquisitionStep(a) ==
  \/ acquire_with_timing(a) \/ create_geometry_translation(a)
  \/ poll_geometry_translation(a) \/ download_geometry(a) \/ Bind(a)

AcquisitionNext ==
  \/ \E a \in Planners :
       \/ \E c \in Configs : resolve_encoding(a, c)
       \/ plan_selection(a) \/ record_acquisition_provenance(a) \/ Reread(a)
       \/ \E p \in Plans : lookup_acquisition_plan(a, p)
       \/ AcquisitionStep(a)
       \/ EndPlanner(a)
  \/ \E a \in Acquirers : Tick(a)
  \/ ResetEncodings

AcquisitionSpec == AcquisitionInit /\ [][AcquisitionNext]_acquisitionVars

\* The task of a job is polled until it is done.
AcquisitionFairness == \A a \in Acquirers : WF_acquisitionVars(AcquisitionStep(a))

-----------------------------------------------------------------------------
\* acquire_with_timing counts within its deadlines and its poll limit, and every record
\* is of a plan and an encoding that were made.
AcquisitionTypeOK ==
  /\ encodings \in [Configs -> EncodedIds \cup {None}]
  /\ provenance \in [Plans -> Provenance \cup {None}]
  /\ resets \in 0..MaxResets
  /\ pstep \in [Planners -> {"idle", "plan", "record", "reread", "planned", "leaf",
                             "translate", "download", "bind", "acquired", "failed"}]
  /\ request \in [Planners -> EncodingOf \cup {None}]
  /\ handle \in [Planners -> Provenance \cup {None}]
  /\ \A a \in Acquirers :
       /\ acquisition[a].elapsed \in 0..PlanTime
       /\ acquisition[a].leafElapsed \in 0..PlanTime
       /\ acquisition[a].polls \in 0..MaxPolls
       /\ acquisition[a].state \in {None, "ACTIVE", "DONE", "FAILED"}

\* "Conflicting producers cannot both obtain a successful association": every
\* handle that is out is the recorded one, so two jobs that hold a plan agree
\* on the encoding it was made with, though planners race on one plan identity
\* and the encodings are reset in between.
HandleIsRecorded ==
  \A a \in Planners : handle[a] # None => provenance[handle[a].plan] = handle[a]

\* A finished acquisition has a payload for every object of the plan in its
\* order, and each comes from a translation of that object's leaf with the
\* recorded configuration, also where objects share a leaf.
AcquiredIsBound ==
  \A a \in Acquirers :
    pstep[a] = "acquired" =>
      LET q == acquisition[a] IN
      /\ Len(q.got) = Len(handle[a].plan)
      /\ \A i \in DOMAIN q.got :
           LET t == q.created[q.got[i].translation] IN
           /\ q.got[i].leaf = handle[a].plan[i]
           /\ t.leaf = handle[a].plan[i]
           /\ t.config = handle[a].encoding

\* Creation is never repeated: one translation per distinct leaf.
OneTranslationPerLeaf ==
  \A a \in Acquirers :
    \A i, j \in DOMAIN acquisition[a].created :
      acquisition[a].created[i].leaf = acquisition[a].created[j].leaf => i = j

\* From the handle to the payloads an acquisition is bound to one recorded plan:
\* nothing of another encoding or another leaf, nothing translated twice.
AcquisitionIsBound ==
  /\ HandleIsRecorded
  /\ AcquiredIsBound
  /\ OneTranslationPerLeaf

\* An acquisition ends, also when Onshape keeps a translation active for ever.
AcquisitionEnds ==
  \A a \in Acquirers :
    pstep[a] = "leaf" ~> pstep[a] \in {"acquired", "failed", "idle"}

\* docs/src/project/onshape-geometry-acquisition.md:274: "Retain successful
\* associations with their exact encoding/typed-value evidence for as long as
\* they may be consumed or audited."
EvidenceIsRetained ==
  \A p \in Plans : provenance[p] # None => validate_encoding(provenance[p].encoding)

=============================================================================
