------------------------------ MODULE Maintenance ------------------------------
(***************************************************************************)
(* ops deploy-maintenance, src/main.rs: the backup, the optional wipes of  *)
(* the database file, the catalog and the generated state, and the check   *)
(* that the server may start again.  The deployment stops the server first *)
(* and starts it afterwards, also when an invocation failed or was cut     *)
(* short; each invocation has a backup label of its own.                   *)
(*                                                                         *)
(* The database is what a wipe can destroy: a catalog and generated rows.  *)
(* A row refers to the object of the same name, under one of the prefixes. *)
(***************************************************************************)
EXTENDS Absence, Naturals, FiniteSets

CONSTANTS
  Rows,          \* generated rows, and the objects they refer to
  PrefixOf,      \* index of the object prefix of each of them
  Prefixes,      \* number of GENERATED_OBJECT_PREFIXES
  Invocations    \* bound: invocations, and their backup labels

Contents == [catalog : {"empty", "live", "seed"}, rows : SUBSET Rows]
Options == [reset_generated_state : BOOLEAN, reset_catalog_from_seed : BOOLEAN,
            fresh_database : BOOLEAN]

ASSUME MaintenanceAssumption ==
  /\ IsFiniteSet(Rows) /\ Prefixes \in Nat \ {0} /\ Invocations \in Nat
  /\ PrefixOf \in [Rows -> 1..Prefixes]
  /\ None \notin Contents /\ None \notin Options

VARIABLES
  database,   \* Contents, or None while there is no database file
  stored,     \* generated objects in the bucket
  backups,    \* Contents uploaded under each label, or None
  serving,    \* the server runs
  options,    \* of the invocation in progress, or None
  mstep,      \* its next step
  prefix,     \* the object prefix it deletes
  label,      \* number of the last invocation
  before,     \* ghost: the database when the invocation in progress began
  torn        \* ghost: a reset was cut short and not finished since

maintenanceVars ==
  <<database, stored, backups, serving, options, mstep, prefix, label, before, torn>>

MaintenanceInit ==
  /\ database \in {None, [catalog |-> "live", rows |-> {}]}
  /\ stored = {}
  /\ backups = [l \in 1..Invocations |-> None]
  /\ serving = (database # None)
  /\ options = None /\ mstep = "done" /\ prefix = 0 /\ label = 0
  /\ before = None /\ torn = FALSE

-----------------------------------------------------------------------------
\* The server and its workers: the object is stored before its row.
StoreObject(r) ==
  /\ serving /\ r \notin stored
  /\ stored' = stored \cup {r}
  /\ UNCHANGED <<database, backups, serving, options, mstep, prefix, label, before, torn>>

\* Mutant: the row is written whether or not the object is there.
WriteRowFirst(r) ==
  /\ serving /\ r \notin database.rows
  /\ database' = [database EXCEPT !.rows = @ \cup {r}]
  /\ UNCHANGED <<stored, backups, serving, options, mstep, prefix, label, before, torn>>

WriteRow(r) ==
  /\ serving /\ r \in stored /\ r \notin database.rows
  /\ database' = [database EXCEPT !.rows = @ \cup {r}]
  /\ UNCHANGED <<stored, backups, serving, options, mstep, prefix, label, before, torn>>

\* artifacts invalidate and prune take the row out of service and leave the object.
SupersedeRow(r) ==
  /\ serving /\ r \in database.rows
  /\ database' = [database EXCEPT !.rows = @ \ {r}]
  /\ UNCHANGED <<stored, backups, serving, options, mstep, prefix, label, before, torn>>

Goto(s) == mstep' = s

Destructive(o) == o.reset_generated_state \/ o.reset_catalog_from_seed \/ o.fresh_database

\* ensure_destructive_options_confirmed comes before everything else.
run_deploy_maintenance(o, confirmed) ==
  /\ mstep \in {"done", "failed"} /\ label < Invocations
  /\ serving' = FALSE
  /\ options' = o /\ label' = label + 1 /\ before' = database
  /\ Goto(IF Destructive(o) /\ ~ confirmed THEN "failed" ELSE "backup")
  /\ UNCHANGED <<database, stored, backups, prefix, torn>>

\* Mutant: the database file goes first.
BackupAfterWipe ==
  /\ mstep = "backup"
  /\ database' = IF options.fresh_database THEN None ELSE database
  /\ Goto("wipe")
  /\ backups' = IF database' # None THEN [backups EXCEPT ![label] = database] ELSE backups
  /\ UNCHANGED <<stored, serving, options, prefix, label, before, torn>>

\* No database yet means no backup; an incomplete backup configuration or a
\* failed upload ends the invocation.
backup_database_to_private_storage ==
  /\ mstep = "backup"
  /\ \/ /\ Goto("wipe")
        /\ backups' = IF database # None THEN [backups EXCEPT ![label] = database] ELSE backups
     \/ Goto("failed") /\ backups' = backups
  /\ UNCHANGED <<database, stored, serving, options, prefix, label, before, torn>>

\* The database file, its log and its index.
remove_sqlite_database_files ==
  /\ mstep = "wipe"
  /\ database' = IF options.fresh_database THEN None ELSE database
  /\ Goto("connect")
  /\ UNCHANGED <<stored, backups, serving, options, prefix, label, before, torn>>

\* Database::connect creates and migrates a database that has no file.
Connected == IF database = None THEN [catalog |-> "empty", rows |-> {}] ELSE database

connect_after_preparation ==
  /\ mstep = "connect"
  /\ database' = Connected
  /\ Goto("import")
  /\ UNCHANGED <<stored, backups, serving, options, prefix, label, before, torn>>

\* A seed that does not load leaves the catalog as it is.
import_catalog_seed ==
  /\ mstep = "import"
  /\ LET next == IF options.reset_generated_state THEN "objects" ELSE "ready"
     IN  \/ /\ options.fresh_database \/ options.reset_catalog_from_seed
            /\ \/ database' = [database EXCEPT !.catalog = "seed"] /\ Goto(next)
               \/ database' = database /\ Goto("failed")
         \/ /\ ~ (options.fresh_database \/ options.reset_catalog_from_seed)
            /\ database' = database /\ Goto(next)
  /\ prefix' = 1
  /\ UNCHANGED <<stored, backups, serving, options, label, before, torn>>

NextPrefix == IF prefix < Prefixes THEN prefix + 1 ELSE prefix

\* Mutant: the first page of a listing is taken for all of it.
DeleteFirstPage ==
  /\ mstep = "objects"
  /\ torn' = TRUE
  /\ \E page \in SUBSET {r \in stored : PrefixOf[r] = prefix} :
       /\ stored' = stored \ page
       /\ Cardinality(page) <= 1
       /\ prefix' = NextPrefix
       /\ Goto(IF prefix < Prefixes THEN "objects" ELSE "rows")
  /\ UNCHANGED <<database, backups, serving, options, label, before>>

\* reset_generated_objects, delete_prefix: page by page, one prefix after the
\* other; an error of a page, which may have deleted part of it, ends all.
delete_prefix ==
  /\ mstep = "objects"
  /\ torn' = TRUE
  /\ \E page \in SUBSET {r \in stored : PrefixOf[r] = prefix} :
       /\ stored' = stored \ page
       /\ \/ \E r \in stored' : PrefixOf[r] = prefix /\ page # {} /\ UNCHANGED <<mstep, prefix>>
          \/ /\ \A r \in stored' : PrefixOf[r] # prefix
             /\ prefix' = NextPrefix
             /\ Goto(IF prefix < Prefixes THEN "objects" ELSE "rows")
          \/ Goto("failed") /\ prefix' = prefix
  /\ UNCHANGED <<database, backups, serving, options, label, before>>

\* clear_generated_state: every generated table in one transaction.
clear_generated_state ==
  /\ mstep = "rows"
  /\ \/ /\ database' = [database EXCEPT !.rows = {}]
        /\ torn' = FALSE /\ Goto("ready")
     \/ UNCHANGED <<database, torn>> /\ Goto("failed")
  /\ UNCHANGED <<stored, backups, serving, options, prefix, label, before>>

ensure_database_ready_for_serve ==
  /\ mstep = "ready"
  /\ Goto(IF database.catalog # "empty" THEN "done" ELSE "failed")
  /\ UNCHANGED <<database, stored, backups, serving, options, prefix, label, before, torn>>

\* The invocation is killed between two steps.
CutShort ==
  /\ mstep \notin {"done", "failed"}
  /\ Goto("failed")
  /\ UNCHANGED <<database, stored, backups, serving, options, prefix, label, before, torn>>

\* The deployment starts the server again: the new image after a successful
\* invocation, the previous one after a failed one.  Nothing is left of the
\* invocation.
RestartServer ==
  /\ ~ serving /\ mstep \in {"done", "failed"}
  /\ serving' = TRUE /\ database' = Connected
  /\ options' = None /\ mstep' = "done" /\ prefix' = 0 /\ before' = None
  /\ UNCHANGED <<stored, backups, label, torn>>

MaintenanceNext ==
  \/ \E r \in Rows : StoreObject(r) \/ WriteRow(r) \/ SupersedeRow(r)
  \/ \E o \in Options, confirmed \in BOOLEAN : run_deploy_maintenance(o, confirmed)
  \/ backup_database_to_private_storage
  \/ remove_sqlite_database_files
  \/ connect_after_preparation
  \/ import_catalog_seed
  \/ delete_prefix
  \/ clear_generated_state
  \/ ensure_database_ready_for_serve
  \/ CutShort
  \/ RestartServer

MaintenanceSpec == MaintenanceInit /\ [][MaintenanceNext]_maintenanceVars

-----------------------------------------------------------------------------
\* The state of run_deploy_maintenance: the server runs on a database only, and the
\* loop over GENERATED_OBJECT_PREFIXES stays within them.
MaintenanceTypeOK ==
  /\ database \in Contents \cup {None} /\ stored \subseteq Rows
  /\ backups \in [1..Invocations -> Contents \cup {None}]
  /\ serving \in BOOLEAN /\ (serving => database # None)
  /\ options \in Options \cup {None}
  /\ mstep \in {"backup", "wipe", "connect", "import", "objects", "rows", "ready", "done", "failed"}
  /\ prefix \in 0..Prefixes /\ label \in 0..Invocations
  /\ before \in Contents \cup {None} /\ torn \in BOOLEAN

\* run_deploy_maintenance: as soon as an invocation has changed the database,
\* or may have deleted an object, the database it found is in the backup
\* bucket under its own label, however the invocation ends.
WipedIsBackedUp ==
  (~ serving /\ label > 0 /\ before # None /\ (database # before \/ mstep \in {"objects", "rows"}))
    => backups[label] = before

\* A reset that ended well left no generated row and no generated object.
ResetIsComplete ==
  (mstep = "done" /\ ~ serving /\ options # None /\ options.reset_generated_state)
    => database.rows = {} /\ stored = {}

\* reset_generated_objects deletes objects before their rows, so an interrupted
\* reset leaves rows that name nothing; that is the only way to such a row, and
\* the next reset that ends removes it.
DanglingOnlyWhenTorn ==
  (serving /\ ~ torn) => database.rows \subseteq stored

\* However often deploy maintenance is interrupted and started again: nothing is
\* destroyed without its backup, a reset that ends is complete, and only a torn
\* one leaves rows without objects.
ResetIsSafe ==
  /\ WipedIsBackedUp
  /\ ResetIsComplete
  /\ DanglingOnlyWhenTorn

=============================================================================
