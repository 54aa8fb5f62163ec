------------------------------- MODULE Authoring -------------------------------
(***************************************************************************)
(* The authoring rules of onshape_annotation: what an annotation on the    *)
(* name or the description of a part may say, and when the annotations of  *)
(* the objects of one plan are consistent.  An object is [annotation,      *)
(* part, bytes]: part is its configured part, bytes the size of its entry  *)
(* in the authoring document, with its selector, name and annotation.      *)
(*                                                                         *)
(* The text of a marker is abstracted: a carrier holds no marker (None), a *)
(* malformed one, or an annotation.                                        *)
(***************************************************************************)
EXTENDS Absence, Naturals, Sequences, FiniteSets
LOCAL INSTANCE Functions

CONSTANTS
  MaxDocumentBytes,      \* size of an authoring document
  TargetKeys,            \* annotation keys
  MaxDescriptionTargets, MaxNameTargets,
  Malformed              \* a carrier with a marker that does not parse

ASSUME AuthoringAssumption ==
  /\ MaxDescriptionTargets \in Nat /\ MaxNameTargets \in Nat
  /\ MaxNameTargets <= MaxDescriptionTargets
  /\ MaxDocumentBytes \in Nat

TargetLists == UNION {[1..n -> TargetKeys] : n \in 0..MaxDescriptionTargets}
Annotations == [role : {"printable", "supportBlocker"}, key : TargetKeys \cup {None},
                targets : TargetLists]
Carriers == Annotations \cup {None, Malformed}

Distinct(s) == \A i, j \in DOMAIN s : s[i] = s[j] => i = j

validate_annotation(a, limit) ==
  /\ Len(a.targets) <= limit
  /\ Distinct(a.targets)
  /\ (a.role = "printable") = (a.targets = <<>>)

Plain == [role |-> "printable", key |-> None, targets |-> <<>>]

\* Each carrier on its own, with its own limit of targets.
parse_annotation(carrier, limit) ==
  carrier = None \/ (carrier # Malformed /\ validate_annotation(carrier, limit))

\* parse_carriers: both carriers must parse and agree; none means printable.
CarriersAgree(description, name) ==
  /\ parse_annotation(description, MaxDescriptionTargets)
  /\ parse_annotation(name, MaxNameTargets)
  /\ description # None /\ name # None => description = name

parse_carriers(description, name) ==
  IF description # None THEN description ELSE IF name # None THEN name ELSE Plain

KeyOwners(objects, key) == {i \in DOMAIN objects : objects[i].annotation.key = key}

\* Bytes of a list with entries of these sizes.
TotalBytes(sizes) == SumFunction(sizes)

validate_serialized_size(objects) ==
  TotalBytes([i \in DOMAIN objects |-> objects[i].bytes]) <= MaxDocumentBytes

\* Mutant: a target only has to exist.
TargetsExist(objects) ==
  /\ validate_serialized_size(objects)
  /\ \A i \in DOMAIN objects : \A t \in DOMAIN objects[i].annotation.targets :
       KeyOwners(objects, objects[i].annotation.targets[t]) # {}

\* Every target names one other, printable object.
TargetsResolve(objects) ==
  \A i \in DOMAIN objects : \A t \in DOMAIN objects[i].annotation.targets :
    LET owners == KeyOwners(objects, objects[i].annotation.targets[t])
    IN  /\ Cardinality(owners) = 1
        /\ \A o \in owners : o # i /\ objects[o].annotation.role = "printable"

\* The size comes first, and is no object's fault.
validate_authoring_document(objects) ==
  /\ validate_serialized_size(objects)
  /\ TargetsResolve(objects)

\* validate_authoring_context: one configured part has one annotation, and a
\* key that occurs twice is one configured part placed twice.
validate_authoring_context(objects) ==
  /\ validate_authoring_document(objects)
  /\ \A i, j \in DOMAIN objects :
       LET a == objects[i] b == objects[j]
       IN  /\ a.part = b.part => a.annotation = b.annotation
           /\ a.annotation.key # None /\ a.annotation.key = b.annotation.key
                => a.part = b.part /\ a.annotation = b.annotation

=============================================================================
