------------------------ MODULE MCGeometryAcquisition ------------------------
(***************************************************************************)
(* A small instance of GeometryAcquisition: one selection of parameters    *)
(* with a plan of two objects of one leaf.                                 *)
(***************************************************************************)
EXTENDS GeometryAcquisition

CONSTANT l1

OneLeafTwice == [c \in Configs |-> <<l1, l1>>]

=============================================================================
