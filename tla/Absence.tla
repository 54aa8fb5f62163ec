------------------------------- MODULE Absence -------------------------------
(***************************************************************************)
(* The value of an optional field that is not there: a NULL column, a      *)
(* missing row, Rust's Option::None.                                       *)
(***************************************************************************)
CONSTANT None

=============================================================================
