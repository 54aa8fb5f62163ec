-------------------------- MODULE MCExportRequests --------------------------
(***************************************************************************)
(* Small instances of ExportRequests.                                      *)
(***************************************************************************)
EXTENDS ExportRequests

=============================================================================
