----------------------------- MODULE MCJobQueue -----------------------------
(***************************************************************************)
(* Small instances of JobQueue: a project, a parameter refresh, an export  *)
(* and a legacy export row, with time scaled so that the order of the      *)
(* deadlines is the one of the code.                                       *)
(***************************************************************************)
EXTENDS JobQueue, TLC

CONSTANTS project, params, export, legacy

MCKind == [k \in Keys |-> CASE k = project -> "bambu_project"
                            [] k = params -> "parameter_refresh"
                            [] k = export -> "preview_export"
                            [] k = legacy -> "download_export"]

MCV2Keys == Keys \cap {export}

\* A project is asked for only beside a legacy row that failed and has no
\* payload, which nothing queues again: the run has the export together with
\* the legacy row in every state of it, and together with the project, but not
\* the product of all three.
LegacyAtRest == status[legacy] = "failed" /\ payload[legacy] = "empty"

MCNext == Next /\ (LegacyAtRest \/ status'[project] = "absent")

MCSpec == Init /\ [][MCNext]_vars /\ Fairness

=============================================================================
