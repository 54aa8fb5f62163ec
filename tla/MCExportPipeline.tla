-------------------------- MODULE MCExportPipeline --------------------------
(***************************************************************************)
(* Small instances of ExportPipeline.                                      *)
(***************************************************************************)
EXTENDS ExportPipeline, TLC

CONSTANT o1            \* the operator that acts at any time

\* Translation ids are interchangeable, and payloads when all fit.
IdSymmetry == Permutations(Tids) \cup Permutations(Payloads)

\* Other operators act while executors have not overlapped: what two commands
\* at once can do to a set is about such behaviours (SupersededIsRestaged).
MCNext ==
  /\ Next
  /\ \A o \in Operators \ {o1} : command'[o] # command[o] => overlaps = 0

MCSpec == Init /\ [][MCNext]_vars

=============================================================================
