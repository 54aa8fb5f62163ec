------------------------- MODULE MCParameterMetadata -------------------------
(***************************************************************************)
(* Small instances of ParameterMetadata: two models of two sources, and    *)
(* overrides that may name a parameter Onshape does not have.              *)
(***************************************************************************)
EXTENDS ParameterMetadata, TLC

CONSTANTS m1, m2, s1, s2

TwoSources == m1 :> s1 @@ m2 :> s2
BothInOrder == <<m1, m2>>
AnyOverrides == [Models -> SUBSET OverrideIds]

\* No override, or one of either model, of a parameter that exists or does not.
NoOverrides == [m \in Models |-> {}]
OneOverride ==
  {NoOverrides} \cup {[NoOverrides EXCEPT ![m] = {i}] : m \in Models, i \in OverrideIds}

=============================================================================
