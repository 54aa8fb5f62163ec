----------------------------- MODULE StoreProofs -----------------------------
(***************************************************************************)
(* Proofs about what the service keeps beside its jobs: what deploy        *)
(* maintenance may destroy (Maintenance), the schema cache that requests,  *)
(* refresh jobs and the scheduled loop share (ParameterMetadata), the      *)
(* visibility conditions of the parameters (ParameterValues), and the      *)
(* catalog that imports replace while it is read (Catalog).                *)
(***************************************************************************)
EXTENDS Maintenance, ParameterMetadata, ParameterValues, Catalog, FiniteSetTheorems, TLAPS

-----------------------------------------------------------------------------
(* Maintenance.                                                            *)

Invoked == {"backup", "wipe", "connect", "import", "objects", "rows", "ready"}

\* An invocation in progress has options and a label of its own and keeps the
\* server stopped; after connect there is a database.
InvocationHolds ==
  /\ mstep \in Invoked => ~ serving /\ label > 0 /\ options \in Options
  /\ mstep \in {"import", "objects", "rows", "ready"} => database # None

\* The database of the start is untouched until it is in the backup bucket.
BackedUpFirst ==
  /\ mstep = "backup" => database = before
  /\ (~ serving /\ label > 0 /\ before # None) =>
       \/ backups[label] = before
       \/ mstep \in {"backup", "failed"} /\ database = before

\* The loop over the prefixes has emptied those before its own; after it
\* nothing is stored, and nothing is stored again before the server runs.
PrefixesEmptied ==
  /\ mstep = "objects" => prefix \in 1..Prefixes /\ \A r \in stored : PrefixOf[r] >= prefix
  /\ mstep = "rows" => stored = {}
  /\ (mstep \in {"objects", "rows"}) => options.reset_generated_state = TRUE
  /\ (mstep \in {"ready", "done"} /\ ~ serving /\ options # None
        /\ options.reset_generated_state = TRUE)
       => database # None /\ database.rows = {} /\ stored = {}

\* Rows and objects agree whether or not the server runs.
RowsHaveObjects == (~ torn /\ database # None) => database.rows \subseteq stored

MaintenanceInv ==
  /\ MaintenanceTypeOK
  /\ InvocationHolds
  /\ BackedUpFirst
  /\ PrefixesEmptied
  /\ RowsHaveObjects

LEMMA MaintenanceInvInit == MaintenanceInit => MaintenanceInv
<1> SUFFICES ASSUME MaintenanceInit PROVE MaintenanceInv
  OBVIOUS
<1> USE MaintenanceAssumption
<1>1. database \in Contents \cup {None}
  BY DEF MaintenanceInit, Contents
<1>2. serving \in BOOLEAN /\ (serving => database # None)
  BY DEF MaintenanceInit
<1>3. MaintenanceTypeOK
  <2>1. torn \in BOOLEAN
    BY DEF MaintenanceInit
  <2>2. prefix \in 0..Prefixes /\ label \in 0..Invocations
    BY DEF MaintenanceInit
  <2>3. backups \in [1..Invocations -> Contents \cup {None}]
    BY DEF MaintenanceInit
  <2> QED
    BY <1>1, <1>2, <2>1, <2>2, <2>3 DEF MaintenanceInit, MaintenanceTypeOK
<1>4. InvocationHolds /\ BackedUpFirst /\ PrefixesEmptied
  BY DEF MaintenanceInit, InvocationHolds, BackedUpFirst, PrefixesEmptied, Invoked
<1>5. RowsHaveObjects
  BY DEF MaintenanceInit, RowsHaveObjects
<1> QED
  BY <1>3, <1>4, <1>5 DEF MaintenanceInv

LEMMA MaintenanceInvNext == MaintenanceInv /\ [MaintenanceNext]_maintenanceVars => MaintenanceInv'
<1> SUFFICES ASSUME MaintenanceInv, [MaintenanceNext]_maintenanceVars PROVE MaintenanceInv'
  OBVIOUS
<1> USE MaintenanceAssumption
    DEF MaintenanceInv, MaintenanceTypeOK, InvocationHolds, BackedUpFirst, PrefixesEmptied,
        RowsHaveObjects, Invoked, Goto
<1>1. ASSUME NEW r \in Rows, StoreObject(r) PROVE MaintenanceInv'
  BY <1>1 DEF StoreObject
<1>2. ASSUME NEW r \in Rows, WriteRow(r) PROVE MaintenanceInv'
  BY <1>2 DEF WriteRow, Contents
<1>3. ASSUME NEW r \in Rows, SupersedeRow(r) PROVE MaintenanceInv'
  BY <1>3 DEF SupersedeRow, Contents
<1>4. ASSUME NEW o \in Options, NEW confirmed \in BOOLEAN, run_deploy_maintenance(o, confirmed)
      PROVE  MaintenanceInv'
  <2>1. /\ mstep \in {"done", "failed"} /\ label < Invocations /\ serving' = FALSE
        /\ options' = o /\ label' = label + 1 /\ before' = database
        /\ mstep' \in {"failed", "backup"}
        /\ UNCHANGED <<database, stored, backups, prefix, torn>>
    BY <1>4 DEF run_deploy_maintenance
  <2>2. MaintenanceTypeOK'
    <3>1. label' \in 0..Invocations
      BY <2>1
    <3>2. serving' \in BOOLEAN /\ (serving' => database' # None)
      BY <2>1
    <3> QED
      BY <2>1, <3>1, <3>2
  <2>3. InvocationHolds' /\ BackedUpFirst' /\ PrefixesEmptied' /\ RowsHaveObjects'
    BY <2>1
  <2> QED
    BY <2>2, <2>3
<1>5. CASE backup_database_to_private_storage
  <2>1. /\ mstep = "backup" /\ mstep' \in {"wipe", "failed"}
        /\ UNCHANGED <<database, stored, serving, options, prefix, label, before, torn>>
    BY <1>5 DEF backup_database_to_private_storage
  <2>2. ~ serving /\ label \in 1..Invocations /\ options \in Options
    BY <2>1
  <2>3. backups' \in [1..Invocations -> Contents \cup {None}]
    BY <1>5, <2>2 DEF backup_database_to_private_storage
  <2>4. BackedUpFirst'
    <3>1. CASE backups' = [backups EXCEPT ![label] = database]
      BY <2>1, <2>2, <3>1
    <3>2. CASE backups' = backups /\ mstep' = "failed"
      BY <2>1, <2>2, <3>2
    <3>3. CASE database = None
      BY <2>1, <2>2, <3>3
    <3> QED
      BY <1>5, <3>1, <3>2, <3>3 DEF backup_database_to_private_storage
  <2>5. MaintenanceTypeOK' /\ InvocationHolds'
    BY <2>1, <2>2, <2>3
  <2>6. PrefixesEmptied' /\ RowsHaveObjects'
    BY <2>1
  <2> QED
    BY <2>4, <2>5, <2>6
<1>6. CASE remove_sqlite_database_files
  BY <1>6 DEF remove_sqlite_database_files
<1>7. CASE connect_after_preparation
  BY <1>7 DEF connect_after_preparation, Connected, Contents
<1>8. CASE import_catalog_seed
  BY <1>8 DEF import_catalog_seed, Contents
<1>9. CASE delete_prefix
  BY <1>9 DEF delete_prefix, NextPrefix
<1>10. CASE clear_generated_state
  <2>1. /\ mstep = "rows" /\ mstep' \in {"ready", "failed"} /\ database \in Contents
        /\ UNCHANGED <<stored, backups, serving, options, prefix, label, before>>
    BY <1>10 DEF clear_generated_state
  <2>2. CASE database' = [database EXCEPT !.rows = {}] /\ torn' = FALSE
    <3>1. database' \in Contents /\ database'.rows = {}
      BY <2>1, <2>2 DEF Contents
    <3> QED
      BY <2>1, <2>2, <3>1
  <2>3. CASE UNCHANGED <<database, torn>> /\ mstep' = "failed"
    BY <2>1, <2>3
  <2> QED
    BY <1>10, <2>2, <2>3 DEF clear_generated_state
<1>11. CASE ensure_database_ready_for_serve
  BY <1>11 DEF ensure_database_ready_for_serve
<1>12. CASE CutShort
  BY <1>12 DEF CutShort
<1>13. CASE RestartServer
  BY <1>13 DEF RestartServer, Connected, Contents
<1>14. CASE UNCHANGED maintenanceVars
  BY <1>14 DEF maintenanceVars
<1> QED
  BY <1>1, <1>2, <1>3, <1>4, <1>5, <1>6, <1>7, <1>8, <1>9, <1>10, <1>11, <1>12, <1>13, <1>14
     DEF MaintenanceNext

\* run_deploy_maintenance: wherever an invocation is cut short and however
\* often it is started again, nothing is destroyed that is not in the backup
\* bucket, a reset that ends well leaves neither rows nor objects, and only a
\* torn one leaves rows without objects.
THEOREM ResetsAreSafe == MaintenanceSpec => []ResetIsSafe
<1>1. MaintenanceInv => ResetIsSafe
  BY MaintenanceAssumption DEF MaintenanceInv, MaintenanceTypeOK, InvocationHolds, BackedUpFirst, PrefixesEmptied,
     RowsHaveObjects, ResetIsSafe, WipedIsBackedUp, ResetIsComplete, DanglingOnlyWhenTorn
<1> QED
  BY <1>1, MaintenanceInvInit, MaintenanceInvNext, PTL DEF MaintenanceSpec

-----------------------------------------------------------------------------
(* ParameterMetadata.                                                      *)

\* What a request or a worker holds at each step.  A schema it is about to
\* store is of the running release, has the overrides it read and no others
\* than of parameters that exist; the objects it is about to name are stored.
ActorSound(a) ==
  /\ actorPc[a] # "idle" => model[a] \in Models
  /\ actorPc[a] = "schema" => held[a] \in Schema /\ held[a].hidden \subseteq Params
  /\ actorPc[a] \in {"putraw", "put", "upsert"} =>
       /\ held[a] \in Schema /\ held[a].hidden \subseteq Params
       /\ held[a].version = release /\ want[a] \subseteq held[a].hidden
  /\ actorPc[a] \in {"put", "upsert"} => source(a) \in raw \/ <<source(a), None>> \in lost
  /\ actorPc[a] = "upsert" => <<source(a), held[a]>> \in norm \cup lost

ActorsSound == \A a \in Actors : ActorSound(a)

RowsValid == \A s \in Sources : record[s] # None => record[s].hidden \subseteq Params

JobsHaveModels ==
  \A s \in Sources :
    job[s].status # "absent" \/ job[s].lease # None => job[s].model \in Models

MetadataInv ==
  /\ MetadataTypeOK
  /\ ActorsSound
  /\ RowNamesStoredObjects
  /\ RowsValid
  /\ ServedSchemaIsCurrent
  /\ JobsHaveModels

\* Only the bucket takes an object away, and then it is among the lost.
StoredKept ==
  /\ \A s \in Sources, h \in Schema : <<s, h>> \in norm \cup lost => <<s, h>> \in norm' \cup lost'
  /\ \A s \in Sources : (s \in raw \/ <<s, None>> \in lost) => (s \in raw' \/ <<s, None>> \in lost')

Responses == [kind : {"served", "pending", "error"}, schema : Schema \cup {None},
              want : SUBSET OverrideIds]

ActorsTyped ==
  /\ actorPc \in [Actors -> {"idle", "resolve", "record", "schema", "raw", "enqueue",
                        "fetch", "putraw", "put", "upsert", "settle"}]
  /\ model \in [Actors -> Models \cup {None}]
  /\ want \in [Actors -> SUBSET OverrideIds]
  /\ held \in [Actors -> Schema \cup {None}]
  /\ answer \in [Requests -> Responses \cup {None}]

StoreTyped ==
  /\ record \in [Sources -> Schema \cup {None}]
  /\ raw \subseteq Sources
  /\ norm \subseteq Sources \X Schema
  /\ lost \subseteq Sources \X (Schema \cup {None})

JobsTyped ==
  job \in [Sources -> [status : {"absent", "queued", "running", "ready", "failed"},
                       model : Models \cup {None}, lease : Workers \cup {None}]]

LoopTyped ==
  /\ tick \in 0..Len(Order) /\ phase \in {"force", "defaults"}
  /\ swant \in [Models -> SUBSET OverrideIds]

CatalogTyped ==
  /\ release \in 1..MaxVersion
  /\ overrides \in [Models -> SUBSET OverrideIds]
  /\ alias \subseteq Models
  /\ events \in 0..MaxEvents

LEMMA MetadataTypes ==
  /\ MetadataTypeOK <=> ActorsTyped /\ StoreTyped /\ JobsTyped /\ LoopTyped /\ CatalogTyped
  /\ MetadataTypeOK' <=>
       ActorsTyped' /\ StoreTyped' /\ JobsTyped' /\ LoopTyped' /\ CatalogTyped'
  BY DEF MetadataTypeOK, ActorsTyped, StoreTyped, JobsTyped, LoopTyped, CatalogTyped, Responses

LEMMA MetadataInvInit == MetadataInit => MetadataInv
<1> SUFFICES ASSUME MetadataInit PROVE MetadataInv
  OBVIOUS
<1> USE MetadataAssumption DEF MetadataInit
<1>1. ActorsTyped /\ StoreTyped
  BY DEF ActorsTyped, StoreTyped
<1>2. JobsTyped
  BY DEF JobsTyped
<1>3. LoopTyped
  BY DEF LoopTyped, NoCatalog
<1>4. CatalogTyped
  BY DEF CatalogTyped
<1>5. ActorsSound
  BY DEF ActorsSound, ActorSound
<1>6. RowNamesStoredObjects /\ RowsValid /\ ServedSchemaIsCurrent
  BY DEF RowNamesStoredObjects, RowsValid, ServedSchemaIsCurrent
<1>7. JobsHaveModels
  BY DEF JobsHaveModels
<1> QED
  BY <1>1, <1>2, <1>3, <1>4, <1>5, <1>6, <1>7, MetadataTypes DEF MetadataInv

\* One actor steps, the others hold what they held.
LEMMA OneActorSteps ==
  ASSUME MetadataInv, NEW a \in Actors, StoredKept, release' = release, ActorSound(a)',
         \A b \in Actors \ {a} : /\ actorPc'[b] = actorPc[b] /\ model'[b] = model[b]
                                 /\ want'[b] = want[b] /\ held'[b] = held[b]
  PROVE  ActorsSound'
<1> SUFFICES ASSUME NEW b \in Actors \ {a} PROVE ActorSound(b)'
  BY DEF ActorsSound
<1>1. ActorSound(b)
  BY DEF MetadataInv, ActorsSound
<1>2. model[b] \in Models => source(b) \in Sources
  BY DEF source, Sources
<1>3. source(b)' = source(b)
  BY DEF source
<1> QED
  BY <1>1, <1>2, <1>3 DEF ActorSound, StoredKept

\* No actor steps.
LEMMA NoActorSteps ==
  ASSUME MetadataInv, StoredKept, release' = release, UNCHANGED actors
  PROVE  ActorsSound'
<1> SUFFICES ASSUME NEW b \in Actors PROVE ActorSound(b)'
  BY DEF ActorsSound
<1>1. ActorSound(b)
  BY DEF MetadataInv, ActorsSound
<1>2. model[b] \in Models => source(b) \in Sources
  BY DEF source, Sources
<1>3. source(b)' = source(b)
  BY DEF source, actors
<1> QED
  BY <1>1, <1>2, <1>3 DEF ActorSound, StoredKept, actors

\* The rows are as they were and what they name is kept.
LEMMA RowsKept ==
  ASSUME MetadataInv, record' = record, StoredKept
  PROVE  RowNamesStoredObjects' /\ RowsValid'
  BY DEF MetadataInv, MetadataTypeOK, RowNamesStoredObjects, RowsValid, StoredKept

LEMMA AnswersKept ==
  ASSUME MetadataInv, answer' = answer, release' = release
  PROVE  ServedSchemaIsCurrent'
  BY DEF MetadataInv, ServedSchemaIsCurrent

\* A handler answers: what it serves is current.
LEMMA RequestAnswers ==
  ASSUME MetadataInv, NEW r \in Requests, NEW kind \in {"served", "pending", "error"},
         NEW schema \in Schema \cup {None}, Answer(r, kind, schema), release' = release,
         StoredKept,
         kind = "served" => /\ schema \in Schema /\ schema.version = release
                            /\ want[r] \subseteq schema.hidden /\ schema.hidden \subseteq Params
  PROVE  ActorsTyped' /\ ServedSchemaIsCurrent' /\ ActorsSound'
<1> DEFINE new == [kind |-> kind, schema |-> schema, want |-> want[r]]
<1>1. r \in Actors /\ ActorsTyped
  BY MetadataTypes DEF Actors, MetadataInv
<1>2. new \in Responses /\ new.kind = kind /\ new.schema = schema /\ new.want = want[r]
  BY <1>1 DEF Responses, ActorsTyped
<1> HIDE DEF new
<1>3. answer' = [answer EXCEPT ![r] = new] /\ Finish(r)
  BY DEF Answer, new
<1>4. ActorsTyped'
  BY <1>1, <1>2, <1>3 DEF ActorsTyped, Finish, ActorGoto
<1>5. ServedSchemaIsCurrent'
  BY <1>1, <1>2, <1>3 DEF ActorsTyped, MetadataInv, ServedSchemaIsCurrent
<1>6. ActorSound(r)'
  BY <1>1, <1>3 DEF ActorSound, Finish, ActorGoto, ActorsTyped
<1>7. \A b \in Actors \ {r} : /\ actorPc'[b] = actorPc[b] /\ model'[b] = model[b]
                              /\ want'[b] = want[b] /\ held'[b] = held[b]
  BY <1>1, <1>3 DEF Finish, ActorGoto, ActorsTyped
<1> QED
  BY <1>1, <1>4, <1>5, <1>6, <1>7, OneActorSteps

\* A worker is done with its job, which it settles if it still has the lease.
LEMMA WorkerSettles ==
  ASSUME MetadataInv, NEW w \in Workers, actorPc[w] # "idle",
         NEW statuses \in SUBSET {"queued", "ready", "failed"}, SettleRefresh(w, statuses),
         StoredKept
  PROVE  ActorsTyped' /\ ServedSchemaIsCurrent' /\ ActorsSound' /\ JobsTyped' /\ JobsHaveModels'
<1>1. w \in Actors /\ ActorsTyped /\ JobsTyped
  BY MetadataTypes DEF Actors, MetadataInv
<1>2. Finish(w) /\ answer' = answer /\ release' = release
  BY DEF SettleRefresh
<1>3. ActorsTyped'
  BY <1>1, <1>2 DEF ActorsTyped, Finish, ActorGoto
<1>4. ActorSound(w)'
  BY <1>1, <1>2 DEF ActorSound, Finish, ActorGoto, ActorsTyped
<1>5. \A b \in Actors \ {w} : /\ actorPc'[b] = actorPc[b] /\ model'[b] = model[b]
                              /\ want'[b] = want[b] /\ held'[b] = held[b]
  BY <1>1, <1>2 DEF Finish, ActorGoto, ActorsTyped
<1>6. source(w) \in Sources
  BY <1>1 DEF MetadataInv, ActorsSound, ActorSound, source, Sources
<1>7. JobsTyped' /\ JobsHaveModels'
  <2>1. CASE job' = job
    BY <1>1, <2>1 DEF JobsTyped, JobsHaveModels, MetadataInv
  <2>2. CASE job[source(w)].lease = w
    <3>1. PICK st \in statuses :
            job' = [job EXCEPT ![source(w)].status = st, ![source(w)].lease = None]
      BY <2>2 DEF SettleRefresh
    <3>2. JobsTyped'
      BY <1>1, <1>6, <3>1 DEF JobsTyped
    <3>3. job[source(w)].model \in Models
      BY <1>6, <2>2, MetadataAssumption DEF JobsHaveModels, MetadataInv
    <3> QED
      BY <1>1, <1>6, <3>1, <3>2, <3>3 DEF JobsTyped, JobsHaveModels, MetadataInv
  <2> QED
    BY <2>1, <2>2 DEF SettleRefresh
<1> QED
  BY <1>1, <1>2, <1>3, <1>4, <1>5, <1>7, OneActorSteps, AnswersKept

\* A row of the queue is made with the model of the caller.
LEMMA RefreshQueued ==
  ASSUME MetadataInv, NEW s \in Sources, NEW m \in Models, NEW force \in BOOLEAN,
         enqueue_parameter_refresh_with_force(s, m, force)
  PROVE  JobsTyped' /\ JobsHaveModels'
<1> DEFINE new == [status |-> "queued", model |-> m, lease |-> None]
<1>1. JobsTyped /\ JobsHaveModels
  BY MetadataTypes DEF MetadataInv
<1>2. job' = job \/ job' = [job EXCEPT ![s] = new]
  BY DEF enqueue_parameter_refresh_with_force
<1>3. /\ new \in [status : {"absent", "queued", "running", "ready", "failed"},
                  model : Models \cup {None}, lease : Workers \cup {None}]
      /\ new.model = m
  OBVIOUS
<1> HIDE DEF new
<1> QED
  BY <1>1, <1>2, <1>3 DEF JobsTyped, JobsHaveModels

\* The schema made from the configuration is current and carries the overrides.
LEMMA NormalizedIsCurrent ==
  ASSUME MetadataInv, NEW names \in SUBSET OverrideIds, validate_parameter_overrides(names)
  PROVE  LET h == apply_overrides(normalize_configuration, names)
         IN  h \in Schema /\ h.version = release /\ h.hidden \subseteq Params /\ names \subseteq h.hidden
<1>1. release \in 1..MaxVersion
  BY DEF MetadataInv, MetadataTypeOK
<1>2. apply_overrides(normalize_configuration, names) = [version |-> release, hidden |-> names]
  BY DEF apply_overrides, normalize_configuration
<1> QED
  BY <1>1, <1>2 DEF Schema, validate_parameter_overrides

LEMMA MetadataInvNext == MetadataInv /\ [MetadataNext]_metadataVars => MetadataInv'
<1> SUFFICES ASSUME MetadataInv, [MetadataNext]_metadataVars PROVE MetadataInv'
  OBVIOUS
<1>0. ActorsTyped /\ StoreTyped /\ JobsTyped /\ LoopTyped /\ CatalogTyped
  BY MetadataTypes DEF MetadataInv
<1>00. \A a \in Actors : model[a] \in Models => source(a) \in Sources
  BY DEF source, Sources
<1>01. Requests \subseteq Actors /\ Workers \subseteq Actors
  BY DEF Actors
<1> USE MetadataAssumption, <1>0, <1>01
<1>1. ASSUME NEW r \in Requests, NEW m \in Models, BeginRequest(r, m) PROVE MetadataInv'
  <2> USE <1>1 DEF BeginRequest, ActorGoto
  <2>1. StoredKept
    BY DEF StoredKept, metadataStore
  <2>2. ActorsTyped'
    BY DEF ActorsTyped, CatalogTyped
  <2>3. ActorSound(r)'
    BY DEF ActorSound, ActorsTyped
  <2>4. ActorsSound'
    BY <2>1, <2>3, OneActorSteps DEF ActorsTyped
  <2>5. ServedSchemaIsCurrent'
    BY DEF ServedSchemaIsCurrent, MetadataInv, ActorsTyped
  <2>6. StoreTyped' /\ JobsTyped' /\ LoopTyped' /\ CatalogTyped' /\ JobsHaveModels'
    BY DEF StoreTyped, JobsTyped, LoopTyped, CatalogTyped, JobsHaveModels, MetadataInv,
       metadataStore, loop, budget
  <2>7. record' = record
    BY DEF metadataStore
  <2> QED
    BY <2>1, <2>2, <2>4, <2>5, <2>6, <2>7, RowsKept, MetadataTypes DEF MetadataInv
<1>2. ASSUME NEW a \in Actors, resolve_source_hash(a) PROVE MetadataInv'
  <2> USE <1>2 DEF resolve_source_hash, ActorGoto
  <2>1. StoredKept
    BY DEF StoredKept, metadataStore
  <2>2. model[a] \in Models
    BY DEF MetadataInv, ActorsSound, ActorSound
  <2>3. ActorsTyped'
    BY DEF ActorsTyped
  <2>4. ActorSound(a)'
    BY <2>2 DEF ActorSound, ActorsTyped
  <2>5. ActorsSound'
    BY <2>1, <2>4, OneActorSteps DEF ActorsTyped
  <2>6. StoreTyped' /\ JobsTyped' /\ LoopTyped' /\ CatalogTyped' /\ JobsHaveModels'
    BY <2>2 DEF StoreTyped, JobsTyped, LoopTyped, CatalogTyped, JobsHaveModels, MetadataInv,
       metadataStore, loop, budget
  <2>7. record' = record
    BY DEF metadataStore
  <2> QED
    BY <2>1, <2>3, <2>5, <2>6, <2>7, RowsKept, AnswersKept, MetadataTypes DEF MetadataInv
<1>3. ASSUME NEW r \in Requests, ReadRecord(r) PROVE MetadataInv'
  <2> USE <1>3 DEF ReadRecord, ActorGoto
  <2>1. StoredKept
    BY DEF StoredKept, metadataStore
  <2>2. model[r] \in Models /\ source(r) \in Sources
    BY <1>00 DEF MetadataInv, ActorsSound, ActorSound
  <2>3. ActorsTyped'
    BY <2>2 DEF ActorsTyped, StoreTyped
  <2>4. ActorSound(r)'
    BY <2>2 DEF ActorSound, ActorsTyped, StoreTyped, RowsValid, MetadataInv
  <2>5. ActorsSound'
    BY <2>1, <2>4, OneActorSteps DEF ActorsTyped
  <2>6. StoreTyped' /\ JobsTyped' /\ LoopTyped' /\ CatalogTyped' /\ JobsHaveModels'
    BY DEF StoreTyped, JobsTyped, LoopTyped, CatalogTyped, JobsHaveModels, MetadataInv,
       metadataStore, loop, budget
  <2>7. record' = record
    BY DEF metadataStore
  <2> QED
    BY <2>1, <2>3, <2>5, <2>6, <2>7, RowsKept, AnswersKept, MetadataTypes DEF MetadataInv
<1>4. ASSUME NEW r \in Requests, ReadSchema(r) PROVE MetadataInv'
  <2>1. /\ StoredKept /\ record' = record /\ release' = release
        /\ StoreTyped' /\ JobsTyped' /\ LoopTyped' /\ CatalogTyped' /\ JobsHaveModels'
    BY <1>4 DEF ReadSchema, StoredKept, StoreTyped, JobsTyped, LoopTyped, CatalogTyped,
       JobsHaveModels, MetadataInv, metadataStore, loop, budget
  <2>2. /\ model[r] \in Models /\ held[r] \in Schema /\ held[r].hidden \subseteq Params
        /\ want[r] \subseteq OverrideIds
    BY <1>4 DEF ReadSchema, MetadataInv, ActorsSound, ActorSound, ActorsTyped
  <2>3. ActorsTyped' /\ ActorsSound' /\ ServedSchemaIsCurrent'
    <3>1. CASE Answer(r, "error", None)
      BY <2>1, <3>1, RequestAnswers
    <3>2. CASE ActorGoto(r, "raw") /\ UNCHANGED <<model, want, held, answer>>
      <4>1. ActorsTyped'
        BY <3>2 DEF ActorsTyped, ActorGoto
      <4>2. ActorSound(r)'
        BY <2>2, <3>2 DEF ActorSound, ActorsTyped, ActorGoto
      <4> QED
        BY <2>1, <3>2, <4>1, <4>2, OneActorSteps, AnswersKept DEF ActorsTyped, ActorGoto
    <3>3. CASE /\ parameter_schema_is_current(held[r]) /\ validate_parameter_overrides(want[r])
               /\ Answer(r, "served", apply_overrides(held[r], want[r]))
      <4> DEFINE h == apply_overrides(held[r], want[r])
      <4>1. /\ h \in Schema /\ h.version = held[r].version
            /\ h.hidden = held[r].hidden \cup want[r]
        <5> DEFINE g == held[r].hidden \cup want[r]
        <5>1. h = [held[r] EXCEPT !.hidden = g] /\ g \in SUBSET OverrideIds
          BY <2>2 DEF apply_overrides, Schema
        <5> HIDE DEF g, h
        <5>2. h \in Schema /\ h.version = held[r].version /\ h.hidden = g
          BY <2>2, <5>1 DEF Schema
        <5> QED
          BY <5>2 DEF g
      <4>2. h \in Schema /\ h.version = release /\ want[r] \subseteq h.hidden /\ h.hidden \subseteq Params
        BY <2>2, <3>3, <4>1
           DEF Schema, parameter_schema_is_current, validate_parameter_overrides
      <4> HIDE DEF h
      <4>3. Answer(r, "served", h)
        BY <3>3 DEF h
      <4> QED
        BY <2>1, <4>2, <4>3, RequestAnswers
    <3> QED
      BY <1>4, <3>1, <3>2, <3>3 DEF ReadSchema
  <2> QED
    BY <2>1, <2>3, RowsKept, MetadataTypes DEF MetadataInv
<1>5. ASSUME NEW r \in Requests, RebuildFromRaw(r) PROVE MetadataInv'
  <2>1. /\ StoredKept /\ record' = record /\ release' = release
        /\ StoreTyped' /\ JobsTyped' /\ LoopTyped' /\ CatalogTyped' /\ JobsHaveModels'
    BY <1>5 DEF RebuildFromRaw, StoredKept, StoreTyped, JobsTyped, LoopTyped, CatalogTyped,
       JobsHaveModels, MetadataInv, metadataStore, loop, budget
  <2>2. model[r] \in Models /\ want[r] \in SUBSET OverrideIds
    BY <1>5 DEF RebuildFromRaw, MetadataInv, ActorsSound, ActorSound, ActorsTyped
  <2>3. ActorsTyped' /\ ActorsSound' /\ ServedSchemaIsCurrent'
    <3>1. CASE Answer(r, "error", None)
      BY <2>1, <3>1, RequestAnswers
    <3>2. CASE ActorGoto(r, "enqueue") /\ UNCHANGED <<model, want, held, answer>>
      <4>1. ActorsTyped'
        BY <3>2 DEF ActorsTyped, ActorGoto
      <4>2. ActorSound(r)'
        BY <2>2, <3>2 DEF ActorSound, ActorsTyped, ActorGoto
      <4> QED
        BY <2>1, <3>2, <4>1, <4>2, OneActorSteps, AnswersKept DEF ActorsTyped, ActorGoto
    <3>3. CASE /\ source(r) \in raw /\ validate_parameter_overrides(want[r])
               /\ held' = [held EXCEPT ![r] = apply_overrides(normalize_configuration, want[r])]
               /\ ActorGoto(r, "put") /\ UNCHANGED <<model, want, answer>>
      <4> DEFINE h == apply_overrides(normalize_configuration, want[r])
      <4>1. h \in Schema /\ h.version = release /\ want[r] \subseteq h.hidden /\ h.hidden \subseteq Params
        BY <2>2, <3>3, NormalizedIsCurrent
      <4> HIDE DEF h
      <4>2. held' = [held EXCEPT ![r] = h]
        BY <3>3 DEF h
      <4>3. ActorsTyped'
        BY <3>3, <4>1, <4>2 DEF ActorsTyped, ActorGoto
      <4>4. raw' = raw
        BY <1>5 DEF RebuildFromRaw, metadataStore
      <4>5. ActorSound(r)'
        BY <2>1, <2>2, <3>3, <4>1, <4>2, <4>4 DEF ActorSound, ActorsTyped, ActorGoto, source
      <4> QED
        BY <2>1, <3>3, <4>2, <4>3, <4>5, OneActorSteps, AnswersKept DEF ActorsTyped, ActorGoto
    <3> QED
      BY <1>5, <3>1, <3>2, <3>3 DEF RebuildFromRaw
  <2> QED
    BY <2>1, <2>3, RowsKept, MetadataTypes DEF MetadataInv
<1>6. ASSUME NEW r \in Requests, enqueue_parameter_refresh(r) PROVE MetadataInv'
  <2>1. /\ StoredKept /\ record' = record /\ release' = release
        /\ StoreTyped' /\ LoopTyped' /\ CatalogTyped'
    BY <1>6 DEF enqueue_parameter_refresh, StoredKept, StoreTyped, LoopTyped, CatalogTyped,
       metadataStore, loop, budget
  <2>2. model[r] \in Models /\ source(r) \in Sources
    BY <1>6, <1>00 DEF enqueue_parameter_refresh, MetadataInv, ActorsSound, ActorSound
  <2>3. JobsTyped' /\ JobsHaveModels'
    BY <1>6, <2>2, RefreshQueued DEF enqueue_parameter_refresh
  <2>4. ActorsTyped' /\ ActorsSound' /\ ServedSchemaIsCurrent'
    BY <1>6, <2>1, RequestAnswers DEF enqueue_parameter_refresh
  <2> QED
    BY <2>1, <2>3, <2>4, RowsKept, MetadataTypes DEF MetadataInv
<1>7. ASSUME NEW w \in Workers, NEW s \in Sources, ClaimRefresh(w, s) PROVE MetadataInv'
  <2>1. /\ StoredKept /\ record' = record /\ release' = release /\ answer' = answer
        /\ StoreTyped' /\ LoopTyped' /\ CatalogTyped'
    BY <1>7 DEF ClaimRefresh, StoredKept, StoreTyped, LoopTyped, CatalogTyped,
       metadataStore, loop, budget
  <2>2. job[s].model \in Models
    BY <1>7 DEF ClaimRefresh, MetadataInv, JobsHaveModels
  <2>3. JobsTyped' /\ JobsHaveModels'
    BY <1>7, <2>2 DEF ClaimRefresh, JobsTyped, JobsHaveModels, MetadataInv
  <2>4. ActorsTyped'
    BY <1>7, <2>2 DEF ClaimRefresh, ActorGoto, ActorsTyped, CatalogTyped
  <2>5. ActorSound(w)'
    BY <1>7, <2>2 DEF ClaimRefresh, ActorGoto, ActorsTyped, ActorSound
  <2>6. ActorsSound'
    BY <1>7, <2>1, <2>5, OneActorSteps DEF ClaimRefresh, ActorGoto, ActorsTyped
  <2> QED
    BY <2>1, <2>3, <2>4, <2>6, RowsKept, AnswersKept, MetadataTypes DEF MetadataInv
<1>8. ASSUME NEW w \in Workers, fetch_configuration(w) PROVE MetadataInv'
  <2>1. StoredKept /\ record' = record /\ StoreTyped' /\ actorPc[w] = "fetch"
    BY <1>8 DEF fetch_configuration, StoredKept, StoreTyped, metadataStore
  <2>2. model[w] \in Models /\ want[w] \in SUBSET OverrideIds
    BY <1>8 DEF fetch_configuration, MetadataInv, ActorsSound, ActorSound, ActorsTyped
  <2>3. CASE SettleRefresh(w, {"queued", "failed"})
    <3>1. LoopTyped' /\ CatalogTyped'
      BY <1>8, <2>3 DEF fetch_configuration, SettleRefresh, loop, budget, LoopTyped, CatalogTyped
    <3>2. /\ ActorsTyped' /\ ServedSchemaIsCurrent' /\ ActorsSound' /\ JobsTyped'
          /\ JobsHaveModels'
      BY <2>1, <2>3, WorkerSettles
    <3> QED
      BY <2>1, <3>1, <3>2, RowsKept, MetadataTypes DEF MetadataInv
  <2>4. CASE /\ validate_parameter_overrides(want[w])
             /\ held' = [held EXCEPT ![w] = apply_overrides(normalize_configuration, want[w])]
             /\ ActorGoto(w, "putraw")
             /\ UNCHANGED <<release, overrides, alias, job, model, want, answer, loop>>
    <3> DEFINE h == apply_overrides(normalize_configuration, want[w])
    <3>1. h \in Schema /\ h.version = release /\ want[w] \subseteq h.hidden /\ h.hidden \subseteq Params
      BY <2>2, <2>4, NormalizedIsCurrent
    <3> HIDE DEF h
    <3>2. held' = [held EXCEPT ![w] = h]
      BY <2>4 DEF h
    <3>3. ActorsTyped'
      BY <2>4, <3>1, <3>2 DEF ActorsTyped, ActorGoto
    <3>4. ActorSound(w)'
      BY <2>2, <2>4, <3>1, <3>2 DEF ActorSound, ActorsTyped, ActorGoto
    <3>5. ActorsSound' /\ ServedSchemaIsCurrent'
      BY <2>1, <2>4, <3>2, <3>3, <3>4, OneActorSteps, AnswersKept DEF ActorsTyped, ActorGoto
    <3>6. JobsTyped' /\ LoopTyped' /\ CatalogTyped' /\ JobsHaveModels'
      BY <1>8, <2>4 DEF fetch_configuration, JobsTyped, LoopTyped, CatalogTyped, JobsHaveModels,
         MetadataInv, loop, budget
    <3> QED
      BY <2>1, <3>3, <3>5, <3>6, RowsKept, MetadataTypes DEF MetadataInv
  <2> QED
    BY <1>8, <2>3, <2>4 DEF fetch_configuration
<1>9. ASSUME NEW w \in Workers, put_raw(w) PROVE MetadataInv'
  <2> USE <1>9 DEF put_raw, ActorGoto
  <2>1. model[w] \in Models /\ source(w) \in Sources
    BY <1>00 DEF MetadataInv, ActorsSound, ActorSound
  <2>2. StoredKept
    BY <2>1 DEF StoredKept
  <2>3. StoreTyped' /\ ActorsTyped'
    BY <2>1 DEF StoreTyped, ActorsTyped
  <2>4. ActorSound(w)'
    BY <2>1 DEF ActorSound, ActorsSound, ActorsTyped, MetadataInv, source
  <2>5. ActorsSound'
    BY <2>2, <2>4, OneActorSteps DEF ActorsTyped
  <2>6. JobsTyped' /\ LoopTyped' /\ CatalogTyped' /\ JobsHaveModels'
    BY DEF JobsTyped, LoopTyped, CatalogTyped, JobsHaveModels, MetadataInv, loop, budget
  <2> QED
    BY <2>2, <2>3, <2>5, <2>6, RowsKept, AnswersKept, MetadataTypes DEF MetadataInv
<1>10. ASSUME NEW a \in Actors, put_normalized(a) PROVE MetadataInv'
  <2> USE <1>10 DEF put_normalized, ActorGoto
  <2>1. model[a] \in Models /\ source(a) \in Sources /\ held[a] \in Schema
    BY <1>00 DEF MetadataInv, ActorsSound, ActorSound
  <2>2. StoredKept
    BY <2>1 DEF StoredKept
  <2>3. StoreTyped' /\ ActorsTyped'
    BY <2>1 DEF StoreTyped, ActorsTyped
  <2>4. ActorSound(a)'
    <3>1. ActorSound(a) /\ source(a)' = source(a)
      BY DEF MetadataInv, ActorsSound, source
    <3>2. source(a) \in raw' \/ <<source(a), None>> \in lost'
      BY <2>1, <2>2, <3>1 DEF ActorSound, StoredKept
    <3>3. <<source(a), held[a]>> \in norm' /\ actorPc'[a] = "upsert"
      BY DEF ActorsTyped
    <3> QED
      BY <2>1, <3>1, <3>2, <3>3 DEF ActorSound
  <2>5. ActorsSound'
    BY <2>2, <2>4, OneActorSteps DEF ActorsTyped
  <2>6. JobsTyped' /\ LoopTyped' /\ CatalogTyped' /\ JobsHaveModels'
    BY DEF JobsTyped, LoopTyped, CatalogTyped, JobsHaveModels, MetadataInv, loop, budget
  <2> QED
    BY <2>2, <2>3, <2>5, <2>6, RowsKept, AnswersKept, MetadataTypes DEF MetadataInv
<1>11. ASSUME NEW a \in Actors, upsert_parameter_metadata(a) PROVE MetadataInv'
  <2>1. /\ record' = [record EXCEPT ![source(a)] = held[a]]
        /\ UNCHANGED <<release, overrides, alias, raw, norm, lost, loop, budget, job>>
        /\ actorPc[a] = "upsert"
    BY <1>11 DEF upsert_parameter_metadata
  <2>2. /\ model[a] \in Models /\ source(a) \in Sources /\ held[a] \in Schema
        /\ held[a].hidden \subseteq Params /\ held[a].version = release
        /\ want[a] \subseteq held[a].hidden
        /\ source(a) \in raw \/ <<source(a), None>> \in lost
        /\ <<source(a), held[a]>> \in norm \cup lost
    BY <1>00, <2>1 DEF MetadataInv, ActorsSound, ActorSound
  <2>3. StoredKept /\ StoreTyped'
    BY <2>1, <2>2 DEF StoredKept, StoreTyped
  <2>4. RowNamesStoredObjects'
    BY <2>1, <2>2 DEF RowNamesStoredObjects, MetadataInv, StoreTyped
  <2>5. RowsValid'
    BY <2>1, <2>2 DEF RowsValid, MetadataInv, StoreTyped
  <2>6. JobsTyped' /\ LoopTyped' /\ CatalogTyped' /\ JobsHaveModels'
    BY <2>1 DEF JobsTyped, LoopTyped, CatalogTyped, JobsHaveModels, MetadataInv, loop, budget
  <2>7. ActorsTyped' /\ ActorsSound' /\ ServedSchemaIsCurrent'
    <3>1. CASE a \in Requests
      <4>1. Answer(a, "served", held[a])
        BY <1>11, <3>1 DEF upsert_parameter_metadata
      <4> QED
        BY <2>1, <2>2, <2>3, <3>1, <4>1, RequestAnswers
    <3>2. CASE a \notin Requests
      <4>1. ActorGoto(a, "settle") /\ UNCHANGED <<model, want, held, answer>>
        BY <1>11, <3>2 DEF upsert_parameter_metadata
      <4>2. ActorsTyped'
        BY <4>1 DEF ActorsTyped, ActorGoto
      <4>3. ActorSound(a)'
        BY <2>2, <4>1 DEF ActorSound, ActorsTyped, ActorGoto
      <4> QED
        BY <2>1, <2>3, <4>1, <4>2, <4>3, OneActorSteps, AnswersKept DEF ActorsTyped, ActorGoto
    <3> QED
      BY <3>1, <3>2
  <2> QED
    BY <2>3, <2>4, <2>5, <2>6, <2>7, MetadataTypes DEF MetadataInv
<1>12. ASSUME NEW w \in Workers, complete_refresh(w) \/ RefreshFails(w) PROVE MetadataInv'
  <2>1. PICK statuses \in SUBSET {"queued", "ready", "failed"} : SettleRefresh(w, statuses)
    BY <1>12 DEF complete_refresh, RefreshFails
  <2>2. /\ StoredKept /\ record' = record /\ StoreTyped' /\ actorPc[w] # "idle"
        /\ events' \in 0..MaxEvents
    BY <1>12 DEF complete_refresh, RefreshFails, StoredKept, StoreTyped, metadataStore, budget,
       Event, CatalogTyped
  <2>3. LoopTyped' /\ CatalogTyped'
    BY <2>1, <2>2 DEF SettleRefresh, loop, LoopTyped, CatalogTyped
  <2>4. /\ ActorsTyped' /\ ServedSchemaIsCurrent' /\ ActorsSound' /\ JobsTyped'
        /\ JobsHaveModels'
    BY <2>1, <2>2, WorkerSettles
  <2> QED
    BY <2>2, <2>3, <2>4, RowsKept, MetadataTypes DEF MetadataInv
<1>13. ASSUME NEW r \in Requests, RequestFails(r) PROVE MetadataInv'
  <2>1. /\ StoredKept /\ record' = record /\ release' = release
        /\ StoreTyped' /\ JobsTyped' /\ LoopTyped' /\ CatalogTyped' /\ JobsHaveModels'
    BY <1>13 DEF RequestFails, Event, StoredKept, StoreTyped, JobsTyped, LoopTyped, CatalogTyped,
       JobsHaveModels, MetadataInv, metadataStore, loop
  <2>2. ActorsTyped' /\ ActorsSound' /\ ServedSchemaIsCurrent'
    BY <1>13, <2>1, RequestAnswers DEF RequestFails
  <2> QED
    BY <2>1, <2>2, RowsKept, MetadataTypes DEF MetadataInv
<1>14. ASSUME tick # 0 PROVE Order[tick] \in Models /\ SourceHash[Order[tick]] \in Sources
  BY <1>14 DEF LoopTyped, Sources
<1>15. CASE LoopStep \/ ScheduleFails
  <2>1. StoredKept /\ record' = record /\ release' = release /\ UNCHANGED actors
    BY <1>15 DEF LoopStep, BeginTick, ScheduleRefresh, ScheduleDefaults, ScheduleFails,
       metadataStore, StoredKept
  <2>2. ActorsTyped' /\ StoreTyped'
    BY <1>15 DEF LoopStep, BeginTick, ScheduleRefresh, ScheduleDefaults, ScheduleFails,
       metadataStore, actors, ActorsTyped, StoreTyped
  <2>3. LoopTyped'
    <3>1. Len(Order) \in Nat /\ (Order # <<>> => 1 \in 0..Len(Order))
      OBVIOUS
    <3>2. EndTick => LoopTyped'
      BY <3>1 DEF EndTick, NoCatalog, LoopTyped
    <3>3. CASE BeginTick
      BY <3>1, <3>3 DEF BeginTick, LoopTyped, CatalogTyped
    <3>4. CASE ScheduleRefresh
      BY <3>4 DEF ScheduleRefresh, LoopTyped
    <3>5. CASE ScheduleDefaults
      <4>1. CASE tick' = tick + 1 /\ phase' = "force" /\ swant' = swant /\ tick # Len(Order)
        BY <3>1, <4>1 DEF LoopTyped
      <4> QED
        BY <3>2, <3>5, <4>1 DEF ScheduleDefaults, NextModel
    <3> QED
      BY <1>15, <3>2, <3>3, <3>4, <3>5 DEF LoopStep, ScheduleFails
  <2>4. CatalogTyped'
    <3>1. release' = release /\ overrides' = overrides
      BY <1>15 DEF LoopStep, BeginTick, ScheduleRefresh, ScheduleDefaults, ScheduleFails
    <3>2. alias' \subseteq Models
      <4>1. alias \subseteq Models
        BY DEF CatalogTyped
      <4>2. \/ alias' = alias
            \/ tick # 0 /\ alias' = alias \cup {Order[tick]}
        BY <1>15 DEF LoopStep, BeginTick, ScheduleRefresh, ScheduleDefaults, ScheduleFails
      <4> QED
        BY <1>14, <4>1, <4>2
    <3>3. events' \in 0..MaxEvents
      <4>1. CASE LoopStep
        BY <4>1 DEF LoopStep, BeginTick, ScheduleRefresh, ScheduleDefaults, budget, CatalogTyped
      <4>2. CASE ScheduleFails
        BY <4>2 DEF ScheduleFails, Event, CatalogTyped
      <4> QED
        BY <1>15, <4>1, <4>2
    <3> QED
      BY <3>1, <3>2, <3>3 DEF CatalogTyped
  <2>5. JobsTyped' /\ JobsHaveModels'
    <3>1. CASE job' = job
      BY <3>1 DEF JobsTyped, JobsHaveModels, MetadataInv
    <3>2. CASE ScheduleRefresh /\ job' # job
      <4>1. /\ tick # 0
            /\ enqueue_parameter_refresh_with_force(SourceHash[Order[tick]], Order[tick], TRUE)
        BY <3>2 DEF ScheduleRefresh
      <4> QED
        BY <1>14, <4>1, RefreshQueued
    <3> QED
      BY <1>15, <3>1, <3>2 DEF LoopStep, BeginTick, ScheduleDefaults, ScheduleFails
  <2>6. ActorsSound' /\ ServedSchemaIsCurrent'
    BY <2>1, NoActorSteps, AnswersKept DEF actors
  <2> QED
    BY <2>1, <2>2, <2>3, <2>4, <2>5, <2>6, RowsKept, MetadataTypes DEF MetadataInv
<1>16. ASSUME NEW s \in Sources, LeaseLapses(s) PROVE MetadataInv'
  <2>1. StoredKept /\ record' = record /\ release' = release /\ UNCHANGED actors
    BY <1>16 DEF LeaseLapses, metadataStore, StoredKept
  <2>2. ActorsTyped' /\ StoreTyped' /\ LoopTyped' /\ CatalogTyped'
    BY <1>16 DEF LeaseLapses, Event, metadataStore, actors, loop, ActorsTyped, StoreTyped,
       LoopTyped, CatalogTyped
  <2>3. JobsTyped' /\ JobsHaveModels'
    BY <1>16 DEF LeaseLapses, JobsTyped, JobsHaveModels, MetadataInv
  <2>4. ActorsSound' /\ ServedSchemaIsCurrent'
    BY <2>1, NoActorSteps, AnswersKept DEF actors
  <2> QED
    BY <2>1, <2>2, <2>3, <2>4, RowsKept, MetadataTypes DEF MetadataInv
<1>17. ASSUME NEW s \in Sources, LoseObject(s) PROVE MetadataInv'
  <2>1. StoredKept
    BY <1>17 DEF LoseObject, StoredKept, StoreTyped
  <2>2. record' = record /\ release' = release /\ UNCHANGED actors
    BY <1>17 DEF LoseObject
  <2>3. StoreTyped'
    BY <1>17 DEF LoseObject, StoreTyped
  <2>4. ActorsTyped' /\ LoopTyped' /\ CatalogTyped' /\ JobsTyped' /\ JobsHaveModels'
    BY <1>17 DEF LoseObject, Event, actors, loop, ActorsTyped, LoopTyped, CatalogTyped,
       JobsTyped, JobsHaveModels, MetadataInv
  <2>5. ActorsSound' /\ ServedSchemaIsCurrent'
    BY <2>1, <2>2, NoActorSteps, AnswersKept DEF actors
  <2> QED
    BY <2>1, <2>2, <2>3, <2>4, <2>5, RowsKept, MetadataTypes DEF MetadataInv
<1>18. CASE replace_catalog
  <2>1. StoredKept /\ record' = record /\ release' = release /\ UNCHANGED actors
    BY <1>18 DEF replace_catalog, metadataStore, StoredKept
  <2>2. /\ ActorsTyped' /\ StoreTyped' /\ LoopTyped' /\ CatalogTyped' /\ JobsTyped'
        /\ JobsHaveModels'
    BY <1>18 DEF replace_catalog, Event, metadataStore, actors, loop, ActorsTyped, StoreTyped,
       LoopTyped, CatalogTyped, JobsTyped, JobsHaveModels, MetadataInv
  <2>3. ActorsSound' /\ ServedSchemaIsCurrent'
    BY <2>1, NoActorSteps, AnswersKept DEF actors
  <2> QED
    BY <2>1, <2>2, <2>3, RowsKept, MetadataTypes DEF MetadataInv
<1>19. CASE Deploy
  <2>1. StoredKept /\ record' = record
    BY <1>19 DEF Deploy, metadataStore, StoredKept
  <2>2. ActorsTyped' /\ StoreTyped' /\ CatalogTyped'
    BY <1>19 DEF Deploy, metadataStore, budget, ActorsTyped, StoreTyped, CatalogTyped
  <2>3. LoopTyped'
    BY <1>19 DEF Deploy, EndTick, NoCatalog, LoopTyped
  <2>4. JobsTyped' /\ JobsHaveModels'
    BY <1>19 DEF Deploy, JobsTyped, JobsHaveModels, MetadataInv
  <2>5. ActorsSound' /\ ServedSchemaIsCurrent'
    BY <1>19 DEF Deploy, ActorsSound, ActorSound, ServedSchemaIsCurrent
  <2> QED
    BY <2>1, <2>2, <2>3, <2>4, <2>5, RowsKept, MetadataTypes DEF MetadataInv
<1>20. CASE UNCHANGED metadataVars
  <2>1. StoredKept /\ record' = record /\ release' = release /\ UNCHANGED actors
    BY <1>20 DEF metadataVars, metadataStore, StoredKept
  <2>2. /\ ActorsTyped' /\ StoreTyped' /\ LoopTyped' /\ CatalogTyped' /\ JobsTyped'
        /\ JobsHaveModels'
    BY <1>20 DEF metadataVars, metadataStore, actors, loop, budget, ActorsTyped, StoreTyped,
       LoopTyped, CatalogTyped, JobsTyped, JobsHaveModels, MetadataInv
  <2>3. ActorsSound' /\ ServedSchemaIsCurrent'
    BY <2>1, NoActorSteps, AnswersKept DEF actors
  <2> QED
    BY <2>1, <2>2, <2>3, RowsKept, MetadataTypes DEF MetadataInv
<1> QED
  BY <1>1, <1>2, <1>3, <1>4, <1>5, <1>6, <1>7, <1>8, <1>9, <1>10, <1>11, <1>12, <1>13, <1>15,
     <1>16, <1>17, <1>18, <1>19, <1>20 DEF MetadataNext, RequestStep, RefreshStep

\* load_or_refresh_parameters and refresh_parameters: however requests, refresh
\* jobs, imports, losses and releases interleave, a parameter_metadata row names
\* objects that were stored before it, and a schema a visitor gets is of the
\* running release with the overrides of the catalog the handler read.
THEOREM SchemaCacheStaysSound == MetadataSpec => []SchemaCacheIsSound
<1>1. MetadataInv => SchemaCacheIsSound
  BY DEF MetadataInv, SchemaCacheIsSound
<1> QED
  BY <1>1, MetadataInvInit, MetadataInvNext, PTL DEF MetadataSpec

-----------------------------------------------------------------------------
(* Catalog.                                                                *)

\* One row for each of the orders 1 to n: the places a query sorts by.
Places(rs, n) ==
  /\ \A r \in rs : r.display_order \in 1..n
  /\ \A i \in 1..n : \E r \in rs : r.display_order = i
  /\ \A a, b \in rs : a.display_order = b.display_order => a = b

\* There are as many rows as places.
LEMMA PlacesCount ==
  ASSUME NEW rs, NEW n \in Nat, Places(rs, n)
  PROVE  IsFiniteSet(rs) /\ Cardinality(rs) = n
<1> DEFINE f == [i \in 1..n |-> CHOOSE r \in rs : r.display_order = i]
<1>1. \A i \in 1..n : f[i] \in rs /\ f[i].display_order = i
  BY DEF Places
<1>2. f \in [1..n -> rs]
  BY <1>1
<1>3. \A a, b \in 1..n : f[a] = f[b] => a = b
  BY <1>1
<1>4. \A r \in rs : \E i \in 1..n : f[i] = r
  BY <1>1 DEF Places
<1> HIDE DEF f
<1>5. f \in Bijection(1..n, rs)
  BY <1>2, <1>3, <1>4 DEF Bijection, Injection, Surjection, IsInjective
<1>6. IsFiniteSet(1..n) /\ Cardinality(1..n) = n
  BY FS_Interval
<1> QED
  BY <1>5, <1>6, FS_Bijection DEF ExistsBijection

\* ORDER BY display_order puts each row at the place it was given.
LEMMA ByOrderIsPlace ==
  ASSUME NEW rs, NEW n \in Nat, Places(rs, n)
  PROVE  /\ ByOrder(rs) \in Seq(rs) /\ Len(ByOrder(rs)) = n
         /\ \A i \in 1..n : ByOrder(rs)[i] \in rs /\ ByOrder(rs)[i].display_order = i
<1> DEFINE UpTo(r) == {q \in rs : q.display_order <= r.display_order}
<1>1. \A r \in rs : Cardinality(UpTo(r)) = r.display_order
  <2> SUFFICES ASSUME NEW r \in rs PROVE Cardinality(UpTo(r)) = r.display_order
    OBVIOUS
  <2>1. r.display_order \in Nat /\ r.display_order \in 1..n
    BY DEF Places
  <2>2. Places(UpTo(r), r.display_order)
    <3>1. \A q \in UpTo(r) : q.display_order \in 1..r.display_order
      BY <2>1 DEF Places
    <3>2. \A i \in 1..r.display_order : \E q \in UpTo(r) : q.display_order = i
      <4> TAKE i \in 1..r.display_order
      <4>1. i \in 1..n /\ i <= r.display_order
        BY <2>1
      <4>2. PICK q \in rs : q.display_order = i
        BY <4>1 DEF Places
      <4> QED
        BY <4>1, <4>2
    <3>3. \A a, b \in UpTo(r) : a.display_order = b.display_order => a = b
      BY DEF Places
    <3> HIDE DEF UpTo
    <3> QED
      BY <3>1, <3>2, <3>3 DEF Places
  <2> QED
    BY <2>1, <2>2, PlacesCount
<1>2. Cardinality(rs) = n
  BY PlacesCount
<1>3. \A i \in 1..n : \E r \in rs : Cardinality(UpTo(r)) = i
  BY <1>1 DEF Places
<1> DEFINE At(i) == CHOOSE r \in rs : Cardinality(UpTo(r)) = i
<1>4. ByOrder(rs) = [i \in 1..n |-> At(i)]
  BY <1>2 DEF ByOrder
<1> HIDE DEF UpTo
<1>5. \A i \in 1..n : At(i) \in rs /\ Cardinality(UpTo(At(i))) = i
  BY <1>3
<1> HIDE DEF At
<1>6. \A i \in 1..n : At(i).display_order = i
  BY <1>1, <1>5
<1> QED
  BY <1>4, <1>5, <1>6

\* A query with no row and one with a single row, whatever its order.
LEMMA ByOrderOfFew ==
  ASSUME NEW rs
  PROVE  /\ rs = {} => ByOrder(rs) = <<>>
         /\ \A r : (rs = {r} /\ r.display_order \in Nat) => ByOrder(rs) = <<r>>
<1>1. rs = {} => ByOrder(rs) = <<>>
  BY FS_EmptySet DEF ByOrder
<1>2. ASSUME NEW r, rs = {r}, r.display_order \in Nat PROVE ByOrder(rs) = <<r>>
  <2>1. {q \in rs : q.display_order <= r.display_order} = {r}
    BY <1>2
  <2>2. Cardinality({r}) = 1
    BY FS_Singleton
  <2>3. (CHOOSE x \in rs : Cardinality({q \in rs : q.display_order <= x.display_order}) = 1) = r
    BY <1>2, <2>1, <2>2
  <2>4. ByOrder(rs) = [i \in 1..1 |-> CHOOSE x \in rs : Cardinality({q \in rs : q.display_order <= x.display_order}) = i]
    BY <1>2, <2>2 DEF ByOrder
  <2>5. \A i \in 1..1 : ByOrder(rs)[i] = r
    BY <2>3, <2>4
  <2>6. ByOrder(rs) = [i \in 1..1 |-> r]
    BY <2>4, <2>5
  <2>7. [i \in 1..1 |-> r] = <<r>>
    OBVIOUS
  <2> QED
    BY <2>6, <2>7
<1> QED
  BY <1>1, <1>2

-----------------------------------------------------------------------------
\* The rows of the catalog's models are those of the first n models of c.
ModelRows(t, c, n) ==
  /\ t.lastModel \in Nat /\ Places(t.models, n)
  /\ \A row \in t.models : row.model = c[row.display_order] /\ row.id \in 1..t.lastModel
  /\ \A a, b \in t.models : a.id = b.id => a = b

\* The overrides of a model are its rows of overrides, one for each parameter.
OverrideRows(t) ==
  /\ \A o \in t.overrides :
       \E row \in t.models : /\ o.model_id = row.id
                             /\ o.parameter \in DOMAIN row.model.overrides
                             /\ o.override = row.model.overrides[o.parameter]
  /\ \A row \in t.models : \A p \in DOMAIN row.model.overrides :
       \E o \in t.overrides : o.model_id = row.id /\ o.parameter = p
  /\ \A a, b \in t.overrides : a.model_id = b.model_id /\ a.parameter = b.parameter => a = b

\* A model's presets are its rows of presets, in their order.
PresetRows(t) ==
  /\ t.lastPreset \in Nat
  /\ \A p \in t.presets :
       /\ p.id \in 1..t.lastPreset
       /\ \E row \in t.models : /\ p.model_id = row.id
                                /\ p.display_order \in 1..Len(row.model.presets)
                                /\ p.slug = row.model.presets[p.display_order].slug
                                /\ p.name = row.model.presets[p.display_order].name
  /\ \A row \in t.models : \A i \in 1..Len(row.model.presets) :
       \E p \in t.presets : p.model_id = row.id /\ p.display_order = i
  /\ \A a, b \in t.presets :
       a.id = b.id \/ (a.model_id = b.model_id /\ a.display_order = b.display_order) => a = b

\* The values of a preset are its rows of values, one for each parameter.
ValuesIn(p, row) == row.model.presets[p.display_order].values
ValueRows(t) ==
  /\ \A v \in t.values :
       \E p \in t.presets, row \in t.models :
          /\ v.preset_id = p.id /\ p.model_id = row.id
          /\ v.parameter \in DOMAIN ValuesIn(p, row)
          /\ v.value = ValuesIn(p, row)[v.parameter]
  /\ \A p \in t.presets, row \in t.models : p.model_id = row.id =>
       \A q \in DOMAIN ValuesIn(p, row) :
          \E v \in t.values : v.preset_id = p.id /\ v.parameter = q
  /\ \A a, b \in t.values : a.preset_id = b.preset_id /\ a.parameter = b.parameter => a = b

\* The tables hold the first n models of c, and nothing else.
Holds(t, c, n) ==
  /\ ModelRows(t, c, n)
  /\ OverrideRows(t)
  /\ PresetRows(t)
  /\ ValueRows(t)

\* Empty tables hold no model, whatever their counters.
LEMMA ClearedHolds ==
  ASSUME NEW t, t.lastModel \in Nat, t.lastPreset \in Nat, NEW c
  PROVE  Holds(Cleared(t), c, 0)
<1> DEFINE e == Cleared(t)
<1>1. /\ e.models = {} /\ e.overrides = {} /\ e.presets = {} /\ e.values = {}
      /\ e.lastModel = t.lastModel /\ e.lastPreset = t.lastPreset
  BY DEF Cleared, EmptyTables
<1> HIDE DEF e
<1>2. ModelRows(e, c, 0)
  BY <1>1 DEF ModelRows, Places
<1>3. OverrideRows(e)
  BY <1>1 DEF OverrideRows
<1>4. PresetRows(e)
  BY <1>1 DEF PresetRows
<1>5. ValueRows(e)
  BY <1>1 DEF ValueRows
<1> QED
  BY <1>2, <1>3, <1>4, <1>5 DEF Holds, e

\* The INSERTs of a model add its rows and disturb no other model's: its id and
\* the ids of its presets are new.
LEMMA WithModelHolds ==
  ASSUME NEW t, NEW c, NEW n \in Nat, Holds(t, c, n), ParsedModel(c[n + 1])
  PROVE  Holds(WithModel(t, c[n + 1], n + 1), c, n + 1)
<1> DEFINE m == c[n + 1]
           u == WithModel(t, m, n + 1)
           id == t.lastModel + 1
           New == [id |-> id, display_order |-> n + 1, model |-> m]
           NewOverride(p) == [model_id |-> id, parameter |-> p, override |-> m.overrides[p]]
           NewPreset(i) == [id |-> t.lastPreset + i, model_id |-> id, display_order |-> i,
                            slug |-> m.presets[i].slug, name |-> m.presets[i].name]
           NewValue(i, p) == [preset_id |-> t.lastPreset + i, parameter |-> p,
                              value |-> m.presets[i].values[p]]
<1> USE DEF Holds
<1>1. /\ u.models = t.models \cup {New}
      /\ u.lastModel = id /\ u.lastPreset = t.lastPreset + Len(m.presets)
  BY DEF WithModel
<1>2. u.overrides = t.overrides \cup {NewOverride(p) : p \in DOMAIN m.overrides}
  BY DEF WithModel
<1>3. u.presets = t.presets \cup {NewPreset(i) : i \in DOMAIN m.presets}
  BY DEF WithModel
<1>4. u.values = t.values \cup UNION {{NewValue(i, p) : p \in DOMAIN m.presets[i].values} :
                                        i \in DOMAIN m.presets}
  BY DEF WithModel
<1>5. DOMAIN m.presets = 1..Len(m.presets) /\ Len(m.presets) \in Nat
  BY DEF ParsedModel, IsList
<1>6. t.lastModel \in Nat /\ t.lastPreset \in Nat
  BY DEF ModelRows, PresetRows
<1>7. \A row \in t.models : row.id \in 1..t.lastModel /\ row.id # id
  BY <1>6 DEF ModelRows
<1>8. New.id = id /\ New.display_order = n + 1 /\ New.model = m
  OBVIOUS
<1>9. /\ \A o \in u.overrides : o \in t.overrides \/ \E p \in DOMAIN m.overrides : o = NewOverride(p)
      /\ t.overrides \subseteq u.overrides /\ \A p \in DOMAIN m.overrides : NewOverride(p) \in u.overrides
  BY <1>2
<1>10. /\ \A p \in u.presets : p \in t.presets \/ \E i \in DOMAIN m.presets : p = NewPreset(i)
       /\ t.presets \subseteq u.presets /\ \A i \in DOMAIN m.presets : NewPreset(i) \in u.presets
  BY <1>3
<1>11. /\ \A v \in u.values : v \in t.values
            \/ \E i \in DOMAIN m.presets : \E p \in DOMAIN m.presets[i].values : v = NewValue(i, p)
       /\ t.values \subseteq u.values
       /\ \A i \in DOMAIN m.presets : \A p \in DOMAIN m.presets[i].values : NewValue(i, p) \in u.values
  BY <1>4
<1>12. /\ \A p : /\ NewOverride(p).model_id = id /\ NewOverride(p).parameter = p
                 /\ NewOverride(p).override = m.overrides[p]
       /\ \A i : /\ NewPreset(i).id = t.lastPreset + i /\ NewPreset(i).model_id = id
                 /\ NewPreset(i).display_order = i /\ NewPreset(i).slug = m.presets[i].slug
                 /\ NewPreset(i).name = m.presets[i].name
       /\ \A i, p : /\ NewValue(i, p).preset_id = t.lastPreset + i /\ NewValue(i, p).parameter = p
                    /\ NewValue(i, p).value = m.presets[i].values[p]
  OBVIOUS
<1> HIDE DEF u, New, NewOverride, NewPreset, NewValue, m
<1>13. ModelRows(u, c, n + 1)
  <2>1. Places(u.models, n + 1)
    <3>1. \A r \in u.models : r.display_order \in 1..n + 1
      BY <1>1, <1>8 DEF ModelRows, Places
    <3>2. \A i \in 1..n + 1 : \E r \in u.models : r.display_order = i
      <4> TAKE i \in 1..n + 1
      <4>1. CASE i = n + 1
        BY <4>1, <1>1, <1>8
      <4>2. CASE i \in 1..n
        BY <4>2, <1>1 DEF ModelRows, Places
      <4> QED
        BY <4>1, <4>2
    <3>3. \A a, b \in u.models : a.display_order = b.display_order => a = b
      BY <1>1, <1>8 DEF ModelRows, Places
    <3> QED
      BY <3>1, <3>2, <3>3 DEF Places
  <2>2. \A row \in u.models : row.model = c[row.display_order] /\ row.id \in 1..u.lastModel
    BY <1>1, <1>6, <1>8 DEF ModelRows, m
  <2>3. \A a, b \in u.models : a.id = b.id => a = b
    BY <1>1, <1>7, <1>8 DEF ModelRows
  <2> QED
    BY <1>1, <1>6, <2>1, <2>2, <2>3 DEF ModelRows
<1>14. OverrideRows(u)
  <2>1. \A o \in t.overrides : o.model_id # id
    BY <1>7 DEF OverrideRows
  <2>2. \A o \in u.overrides :
          \E row \in u.models : /\ o.model_id = row.id
                                /\ o.parameter \in DOMAIN row.model.overrides
                                /\ o.override = row.model.overrides[o.parameter]
    BY <1>1, <1>8, <1>9, <1>12 DEF OverrideRows
  <2>3. \A row \in u.models : \A p \in DOMAIN row.model.overrides :
          \E o \in u.overrides : o.model_id = row.id /\ o.parameter = p
    BY <1>1, <1>8, <1>9, <1>12 DEF OverrideRows
  <2>4. \A a, b \in u.overrides : a.model_id = b.model_id /\ a.parameter = b.parameter => a = b
    BY <1>9, <1>12, <2>1 DEF OverrideRows
  <2> QED
    BY <2>2, <2>3, <2>4 DEF OverrideRows
<1>15. PresetRows(u)
  <2>1. \A p \in t.presets : p.model_id # id /\ p.id \in 1..t.lastPreset
    BY <1>7 DEF PresetRows
  <2>2. \A p \in u.presets : p.id \in 1..u.lastPreset
    BY <1>1, <1>5, <1>6, <1>10, <1>12, <2>1
  <2>3. \A p \in u.presets :
          \E row \in u.models : /\ p.model_id = row.id
                                /\ p.display_order \in 1..Len(row.model.presets)
                                /\ p.slug = row.model.presets[p.display_order].slug
                                /\ p.name = row.model.presets[p.display_order].name
    BY <1>1, <1>5, <1>8, <1>10, <1>12 DEF PresetRows
  <2>4. \A row \in u.models : \A i \in 1..Len(row.model.presets) :
          \E p \in u.presets : p.model_id = row.id /\ p.display_order = i
    <3>1. \A row \in t.models : \A i \in 1..Len(row.model.presets) :
            \E p \in u.presets : p.model_id = row.id /\ p.display_order = i
      BY <1>10 DEF PresetRows
    <3>2. \A i \in 1..Len(m.presets) : NewPreset(i) \in u.presets
      BY <1>5, <1>10
    <3>3. \A i \in 1..Len(New.model.presets) : \E p \in u.presets : p.model_id = New.id /\ p.display_order = i
      BY <3>2, <1>8, <1>12
    <3> QED
      BY <3>1, <3>3, <1>1
  <2>5. \A a, b \in u.presets :
          a.id = b.id \/ (a.model_id = b.model_id /\ a.display_order = b.display_order) => a = b
    <3> SUFFICES ASSUME NEW a \in u.presets, NEW b \in u.presets,
                        a.id = b.id \/ (a.model_id = b.model_id /\ a.display_order = b.display_order)
                 PROVE  a = b
      OBVIOUS
    <3>1. CASE a \in t.presets /\ b \in t.presets
      BY <3>1 DEF PresetRows
    <3>2. ASSUME NEW i \in DOMAIN m.presets, a = NewPreset(i), b \in t.presets PROVE FALSE
      BY <3>2, <1>5, <1>6, <1>12, <2>1
    <3>3. ASSUME NEW i \in DOMAIN m.presets, b = NewPreset(i), a \in t.presets PROVE FALSE
      BY <3>3, <1>5, <1>6, <1>12, <2>1
    <3>4. ASSUME NEW i \in DOMAIN m.presets, NEW j \in DOMAIN m.presets,
                 a = NewPreset(i), b = NewPreset(j)
          PROVE  a = b
      <4>1. i = j
        BY <3>4, <1>5, <1>6, <1>12
      <4> QED
        BY <3>4, <4>1
    <3> QED
      BY <1>10, <3>1, <3>2, <3>3, <3>4
  <2> QED
    BY <1>1, <1>5, <1>6, <2>2, <2>3, <2>4, <2>5 DEF PresetRows
<1>16. ValueRows(u)
  <2>1. /\ \A p \in t.presets : p.model_id # id /\ p.id \in 1..t.lastPreset
        /\ \A v \in t.values : v.preset_id \in 1..t.lastPreset
    BY <1>7 DEF PresetRows, ValueRows
  <2>2. \A v \in u.values :
          \E p \in u.presets, row \in u.models :
             /\ v.preset_id = p.id /\ p.model_id = row.id
             /\ v.parameter \in DOMAIN ValuesIn(p, row)
             /\ v.value = ValuesIn(p, row)[v.parameter]
    <3> TAKE v \in u.values
    <3>1. CASE v \in t.values
      BY <3>1, <1>1, <1>10 DEF ValueRows, ValuesIn
    <3>2. ASSUME NEW i \in DOMAIN m.presets, NEW p \in DOMAIN m.presets[i].values, v = NewValue(i, p)
          PROVE  /\ NewPreset(i) \in u.presets /\ New \in u.models
                 /\ v.preset_id = NewPreset(i).id /\ NewPreset(i).model_id = New.id
                 /\ v.parameter \in DOMAIN ValuesIn(NewPreset(i), New)
                 /\ v.value = ValuesIn(NewPreset(i), New)[v.parameter]
      BY <3>2, <1>1, <1>8, <1>10, <1>12 DEF ValuesIn
    <3> QED
      BY <1>11, <3>1, <3>2
  <2>3. ASSUME NEW p \in u.presets, NEW row \in u.models, p.model_id = row.id,
               NEW q \in DOMAIN ValuesIn(p, row)
        PROVE  \E v \in u.values : v.preset_id = p.id /\ v.parameter = q
    <3>1. CASE p \in t.presets
      <4>1. row \in t.models
        BY <3>1, <2>1, <2>3, <1>1, <1>8
      <4> QED
        BY <3>1, <4>1, <2>3, <1>11 DEF ValueRows, ValuesIn
    <3>2. ASSUME NEW i \in DOMAIN m.presets, p = NewPreset(i)
          PROVE  NewValue(i, q) \in u.values /\ NewValue(i, q).preset_id = p.id /\ NewValue(i, q).parameter = q
      <4>1. row = New
        BY <3>2, <2>3, <1>1, <1>7, <1>12
      <4>2. q \in DOMAIN m.presets[i].values
        BY <3>2, <4>1, <2>3, <1>8, <1>12 DEF ValuesIn
      <4> QED
        BY <3>2, <4>2, <1>11, <1>12
    <3> QED
      BY <1>10, <3>1, <3>2
  <2>4. ASSUME NEW a \in u.values, NEW b \in u.values,
               a.preset_id = b.preset_id, a.parameter = b.parameter
        PROVE  a = b
    <3>1. CASE a \in t.values /\ b \in t.values
      BY <2>4, <3>1 DEF ValueRows
    <3>2. ASSUME NEW i \in DOMAIN m.presets, NEW p \in DOMAIN m.presets[i].values, a = NewValue(i, p), b \in t.values
          PROVE  FALSE
      BY <2>4, <3>2, <1>5, <1>6, <1>12, <2>1
    <3>3. ASSUME NEW i \in DOMAIN m.presets, NEW p \in DOMAIN m.presets[i].values, b = NewValue(i, p), a \in t.values
          PROVE  FALSE
      BY <2>4, <3>3, <1>5, <1>6, <1>12, <2>1
    <3>4. ASSUME NEW i \in DOMAIN m.presets, NEW p \in DOMAIN m.presets[i].values,
                 NEW j \in DOMAIN m.presets, NEW q \in DOMAIN m.presets[j].values,
                 a = NewValue(i, p), b = NewValue(j, q)
          PROVE  a = b
      <4>1. i = j /\ p = q
        BY <2>4, <3>4, <1>5, <1>6, <1>12
      <4> QED
        BY <3>4, <4>1
    <3> QED
      BY <1>11, <3>1, <3>2, <3>3, <3>4
  <2> QED
    BY <2>2, <2>3, <2>4 DEF ValueRows
<1> QED
  BY <1>13, <1>14, <1>15, <1>16 DEF u, m

\* What the further queries of a read put together is the model that was imported.
LEMMA ReadBack ==
  ASSUME NEW t, NEW c, NEW n \in Nat, Holds(t, c, n), NEW row \in t.models, ParsedModel(row.model)
  PROVE  [row.model EXCEPT !.overrides = catalog_parameter_overrides(t, row.id),
                           !.presets = catalog_parameter_presets(t, row.id)] = row.model
<1> DEFINE m == row.model
<1>1. IsMap(m.overrides) /\ IsList(m.presets) /\ IsMap(m)
  BY DEF ParsedModel
<1>2. \A r \in t.models : r.id = row.id => r = row
  BY DEF Holds, ModelRows
<1>3. catalog_parameter_overrides(t, row.id) = m.overrides
  <2> DEFINE found == {o \in t.overrides : o.model_id = row.id}
  <2>1. \A o \in found : o.parameter \in DOMAIN m.overrides /\ o.override = m.overrides[o.parameter]
    BY <1>2 DEF Holds, OverrideRows
  <2>2. \A p \in DOMAIN m.overrides : \E o \in found : o.parameter = p
    BY DEF Holds, OverrideRows
  <2> HIDE DEF found
  <2>3. {o.parameter : o \in found} = DOMAIN m.overrides
    BY <2>1, <2>2
  <2>4. \A p \in DOMAIN m.overrides : (CHOOSE o \in found : o.parameter = p).override = m.overrides[p]
    BY <2>1, <2>2
  <2>5. [p \in {o.parameter : o \in found} |-> (CHOOSE o \in found : o.parameter = p).override]
          = [p \in DOMAIN m.overrides |-> m.overrides[p]]
    BY <2>3, <2>4
  <2> QED
    BY <2>5, <1>1 DEF catalog_parameter_overrides, IsMap, found
<1>4. catalog_parameter_presets(t, row.id) = m.presets
  <2> DEFINE rows == {p \in t.presets : p.model_id = row.id}
             found == ByOrder(rows)
             RowsOf(preset) == {v \in t.values : v.preset_id = preset.id}
             Map(preset) == [p \in {v.parameter : v \in RowsOf(preset)} |->
                               (CHOOSE v \in RowsOf(preset) : v.parameter = p).value]
  <2>1. Len(m.presets) \in Nat /\ DOMAIN m.presets = 1..Len(m.presets)
    BY <1>1 DEF IsList
  <2>2. Places(rows, Len(m.presets))
    <3>1. \A p \in rows : p.display_order \in 1..Len(m.presets)
      BY <1>2 DEF Holds, PresetRows
    <3>2. \A i \in 1..Len(m.presets) : \E p \in rows : p.display_order = i
      BY DEF Holds, PresetRows
    <3>3. \A a, b \in rows : a.display_order = b.display_order => a = b
      BY DEF Holds, PresetRows
    <3> HIDE DEF rows
    <3> QED
      BY <3>1, <3>2, <3>3 DEF Places
  <2>3. /\ found \in Seq(rows) /\ Len(found) = Len(m.presets)
        /\ \A i \in 1..Len(m.presets) : found[i] \in rows /\ found[i].display_order = i
    BY <2>1, <2>2, ByOrderIsPlace
  <2>4. DOMAIN found = 1..Len(m.presets)
    BY <2>3
  <2>5. ASSUME NEW i \in 1..Len(m.presets)
        PROVE  [slug |-> found[i].slug, name |-> found[i].name, values |-> Map(found[i])] = m.presets[i]
    <3> DEFINE f == found[i]
               q == m.presets[i]
    <3>1. f \in t.presets /\ f.model_id = row.id /\ f.display_order = i
      BY <2>3
    <3>2. q = [slug |-> q.slug, name |-> q.name, values |-> q.values] /\ IsMap(q.values)
      BY <2>1 DEF ParsedModel
    <3>3. f.slug = q.slug /\ f.name = q.name
      BY <3>1, <1>2 DEF Holds, PresetRows
    <3> HIDE DEF found, f
    <3>4. Map(f) = q.values
      <4>1. \A p \in t.presets : p.id = f.id => p = f
        BY <3>1 DEF Holds, PresetRows
      <4>2. \A v \in RowsOf(f) : v.parameter \in DOMAIN q.values /\ v.value = q.values[v.parameter]
        BY <3>1, <4>1, <1>2 DEF Holds, ValueRows, ValuesIn
      <4>3. \A p \in DOMAIN q.values : \E v \in RowsOf(f) : v.parameter = p
        BY <3>1 DEF Holds, ValueRows, ValuesIn
      <4> DEFINE vs == RowsOf(f)
      <4> HIDE DEF q, vs
      <4>4. \A v \in vs : v.parameter \in DOMAIN q.values /\ v.value = q.values[v.parameter]
        BY <4>2 DEF vs
      <4>5. \A p \in DOMAIN q.values : \E v \in vs : v.parameter = p
        BY <4>3 DEF vs
      <4>6. {v.parameter : v \in vs} = DOMAIN q.values
        BY <4>4, <4>5
      <4>7. \A p \in DOMAIN q.values : (CHOOSE v \in vs : v.parameter = p).value = q.values[p]
        BY <4>4, <4>5
      <4>8. [p \in {v.parameter : v \in vs} |-> (CHOOSE v \in vs : v.parameter = p).value]
              = [p \in DOMAIN q.values |-> q.values[p]]
        BY <4>6, <4>7
      <4> QED
        BY <4>8, <3>2 DEF vs, IsMap
    <3> HIDE DEF q, Map
    <3> QED
      BY <3>2, <3>3, <3>4 DEF f, q
  <2>6. catalog_parameter_presets(t, row.id)
          = [i \in DOMAIN found |-> [slug |-> found[i].slug, name |-> found[i].name, values |-> Map(found[i])]]
    BY DEF catalog_parameter_presets
  <2> HIDE DEF found, Map
  <2> QED
    BY <2>4, <2>5, <2>6, <1>1, <2>1 DEF IsList
<1> HIDE DEF m
<1>5. [m EXCEPT !.overrides = m.overrides, !.presets = m.presets] = m
  BY <1>1 DEF IsMap
<1> QED
  BY <1>3, <1>4, <1>5 DEF m

-----------------------------------------------------------------------------
\* A catalog that load_catalog has let through.
AcceptedCatalog(c) == IsList(c) /\ (\A i \in DOMAIN c : ParsedModel(c[i])) /\ validate(c)

\* The committed tables hold the models of the last import, and the counters of
\* the command are what they may be.
CommittedHolds ==
  /\ AcceptedCatalog(inForce) /\ Holds(tables, inForce, Len(inForce))
  /\ replacements \in 0..MaxReplacements
  /\ importExit \in {None, "refused", "failed", "imported"}

\* The import's transaction holds the models it has come to.
DraftHolds ==
  draft # None =>
    /\ draft = [tables |-> draft.tables, models |-> draft.models, next |-> draft.next]
    /\ AcceptedCatalog(draft.models) /\ draft.next \in 1..Len(draft.models) + 1
    /\ Holds(draft.tables, draft.models, draft.next - 1)
    /\ replacements < MaxReplacements

\* The models of c a query asks for.
Asked(c, wanted) == {k \in 1..Len(c) : wanted = None \/ (c[k].slug = wanted /\ c[k].published)}

\* A read has put together the models of c at the places e up to some point, and
\* has the rows of the others left, all of them from tables that hold c.
ReadsOf(q, c, e) ==
  /\ AcceptedCatalog(c) /\ Holds(q.tables, c, Len(c))
  /\ q.left \in Seq(q.tables.models) /\ q.models \in Seq({c[i] : i \in 1..Len(c)})
  /\ \A i \in 1..Len(q.models) : q.models[i] = c[e[i]]
  /\ \A j \in 1..Len(q.left) : q.left[j].display_order = e[Len(q.models) + j]
  /\ {e[i] : i \in DOMAIN e} = Asked(c, q.wanted)
  /\ IF q.wanted = None THEN Len(q.models) + Len(q.left) = Len(c) /\ \A i \in DOMAIN e : e[i] = i
                        ELSE Len(q.models) + Len(q.left) <= 1

ReaderHolds(q) ==
  /\ q = [tables |-> q.tables, wanted |-> q.wanted, left |-> q.left, models |-> q.models, seen |-> q.seen]
  /\ \E c \in q.seen : \E e \in [1..Len(q.models) + Len(q.left) -> 1..Len(c)] : ReadsOf(q, c, e)

ReadersHold ==
  /\ reading = [r \in CatalogReaders |-> reading[r]]
  /\ \A r \in CatalogReaders : reading[r] # None => ReaderHolds(reading[r])

\* What a reader has got.
ServedWhole(a) ==
  /\ a.result \in {"catalog", "model"}
  /\ a.result = "catalog" => a.models \in a.seen
  /\ a.result = "model" =>
       \E c \in a.seen :
         LET found == {c[i] : i \in {i \in DOMAIN c : c[i].slug = a.slug /\ c[i].published}}
         IN  IF found = {} THEN a.models = <<>>
                           ELSE \E m \in found : found = {m} /\ a.models = <<m>>

ServedHolds ==
  /\ served = [r \in CatalogReaders |-> served[r]]
  /\ \A r \in CatalogReaders : served[r] # None => ServedWhole(served[r])

CatalogInv ==
  /\ CommittedHolds
  /\ DraftHolds
  /\ ReadersHold
  /\ ServedHolds

\* A file that loads gives a catalog that is accepted.
LEMMA LoadedIsAccepted ==
  ASSUME NEW file \in CatalogFiles, load_catalog(file)
  PROVE  AcceptedCatalog(LoadedModels(file))
<1> DEFINE refs == file.references
           c == LoadedModels(file)
<1>1. IsList(refs) /\ DOMAIN refs = 1..Len(refs) /\ Len(refs) \in Nat
  BY CatalogAssumption DEF IsList
<1>2. c = [i \in 1..Len(refs) |-> refs[i].model]
  BY <1>1 DEF LoadedModels
<1>3. Len(c) = Len(refs) /\ IsList(c)
  BY <1>1, <1>2 DEF IsList
<1>4. \A i \in 1..Len(refs) : ParsedModel(refs[i].model)
  <2> TAKE i \in 1..Len(refs)
  <2>1. Loads(refs[i])
    BY <1>1 DEF load_catalog
  <2>2. IF refs[i].model = None THEN refs[i].kind = "index" ELSE ParsedModel(refs[i].model)
    BY <1>1, CatalogAssumption
  <2> QED
    BY <2>1, <2>2 DEF Loads
<1>5. \A i \in DOMAIN c : ParsedModel(c[i])
  BY <1>2, <1>4
<1> QED
  BY <1>3, <1>5 DEF AcceptedCatalog, load_catalog

\* Tables that hold models of an accepted catalog satisfy their constraints.
LEMMA HoldsIsConsistent ==
  ASSUME NEW t, NEW c, NEW n \in Nat, Holds(t, c, n), AcceptedCatalog(c), n <= Len(c)
  PROVE  Consistent(t)
<1>1. Len(c) \in Nat /\ DOMAIN c = 1..Len(c)
  BY DEF AcceptedCatalog, IsList
<1>2. \A i, j \in 1..Len(c) : c[i].slug = c[j].slug \/ c[i].source = c[j].source => i = j
  BY <1>1 DEF AcceptedCatalog, validate, ensure_unique
<1>3. \A row \in t.models : row.display_order \in 1..Len(c) /\ row.model = c[row.display_order]
  BY <1>1 DEF Holds, ModelRows, Places
<1>4. \A a, b \in t.models : a.display_order = b.display_order \/ a.id = b.id => a = b
  BY DEF Holds, ModelRows, Places
<1>5. \A a, b \in t.models : a.id = b.id \/ a.model.slug = b.model.slug
                                \/ a.model.source = b.model.source => a = b
  BY <1>2, <1>3, <1>4
<1>6. \A row \in t.models : ValidPresets(row.model.presets) /\ IsList(row.model.presets)
  BY <1>1, <1>3 DEF AcceptedCatalog, validate, ValidModel, ParsedModel
<1>7. \A row \in t.models : \A i, j \in 1..Len(row.model.presets) :
         row.model.presets[i].slug = row.model.presets[j].slug => i = j
  <2> TAKE row \in t.models
  <2>1. DOMAIN row.model.presets = 1..Len(row.model.presets)
    BY <1>6 DEF IsList
  <2> QED
    BY <1>6, <2>1 DEF ValidPresets, ensure_unique
<1>8. ASSUME NEW a \in t.presets, NEW b \in t.presets, a.id = b.id \/ (a.model_id = b.model_id /\ a.slug = b.slug)
      PROVE  a = b
  <2>1. CASE a.id = b.id
    BY <2>1 DEF Holds, PresetRows
  <2>2. CASE a.model_id = b.model_id /\ a.slug = b.slug
    <3>1. PICK row \in t.models : /\ a.model_id = row.id
                                  /\ a.display_order \in 1..Len(row.model.presets)
                                  /\ a.slug = row.model.presets[a.display_order].slug
      BY DEF Holds, PresetRows
    <3>2. PICK other \in t.models : /\ b.model_id = other.id
                                    /\ b.display_order \in 1..Len(other.model.presets)
                                    /\ b.slug = other.model.presets[b.display_order].slug
      BY DEF Holds, PresetRows
    <3>3. row = other
      BY <3>1, <3>2, <2>2, <1>4
    <3>4. a.display_order = b.display_order
      BY <3>1, <3>2, <3>3, <2>2, <1>7
    <3> QED
      BY <3>4, <2>2 DEF Holds, PresetRows
  <2> QED
    BY <1>8, <2>1, <2>2
<1>9. /\ \A a, b \in t.overrides : a.model_id = b.model_id /\ a.parameter = b.parameter => a = b
      /\ \A a, b \in t.values : a.preset_id = b.preset_id /\ a.parameter = b.parameter => a = b
  BY DEF Holds, OverrideRows, ValueRows
<1>10. {p.model_id : p \in t.presets} \cup {o.model_id : o \in t.overrides} \subseteq {m.id : m \in t.models}
  BY DEF Holds, OverrideRows, PresetRows
<1>11. {v.preset_id : v \in t.values} \subseteq {p.id : p \in t.presets}
  BY DEF Holds, ValueRows
<1>12. /\ \A m \in t.models : m.id <= t.lastModel
       /\ \A p \in t.presets : p.id <= t.lastPreset
  BY DEF Holds, ModelRows, PresetRows
<1> QED
  BY <1>5, <1>8, <1>9, <1>10, <1>11, <1>12 DEF Consistent

\* A reader begins with the rows of one catalog, in its order.
LEMMA BeginReads ==
  ASSUME CommittedHolds, NEW wanted
  PROVE  LET found == {row \in tables.models :
                         wanted = None \/ (row.model.slug = wanted /\ row.model.published)}
         IN  ReaderHolds([tables |-> tables, wanted |-> wanted, left |-> ByOrder(found),
                          models |-> <<>>, seen |-> {inForce}])
<1> DEFINE c == inForce
           found == {row \in tables.models :
                       wanted = None \/ (row.model.slug = wanted /\ row.model.published)}
           left == ByOrder(found)
           q == [tables |-> tables, wanted |-> wanted, left |-> left, models |-> <<>>, seen |-> {inForce}]
<1>1. AcceptedCatalog(c) /\ Holds(tables, c, Len(c)) /\ Len(c) \in Nat /\ DOMAIN c = 1..Len(c)
  BY DEF CommittedHolds, AcceptedCatalog, IsList
<1>2. /\ q.tables = tables /\ q.wanted = wanted /\ q.left = left /\ q.models = <<>> /\ q.seen = {c}
      /\ q = [tables |-> q.tables, wanted |-> q.wanted, left |-> q.left, models |-> q.models, seen |-> q.seen]
  OBVIOUS
<1>3. /\ Places(tables.models, Len(c))
      /\ \A row \in tables.models : row.model = c[row.display_order]
  BY <1>1 DEF Holds, ModelRows
<1> SUFFICES \E e \in [1..Len(q.models) + Len(q.left) -> 1..Len(c)] : ReadsOf(q, c, e)
  BY <1>2 DEF ReaderHolds
<1> HIDE DEF q
<1>4. <<>> \in Seq({c[i] : i \in 1..Len(c)}) /\ Len(<<>>) = 0
  OBVIOUS
<1>5. CASE wanted = None
  <2> DEFINE e == [i \in 1..Len(c) |-> i]
  <2>1. found = tables.models
    BY <1>5
  <2>2. left \in Seq(tables.models) /\ Len(left) = Len(c) /\ \A i \in 1..Len(c) : left[i].display_order = i
    BY <2>1, <1>1, <1>3, ByOrderIsPlace
  <2> HIDE DEF left
  <2>3. e \in [1..Len(q.models) + Len(q.left) -> 1..Len(c)]
    BY <1>1, <1>2, <1>4, <2>2
  <2>4. {e[i] : i \in DOMAIN e} = Asked(c, wanted)
    BY <1>5 DEF Asked
  <2>5. ReadsOf(q, c, e)
    BY <1>1, <1>2, <1>4, <1>5, <2>2, <2>4 DEF ReadsOf
  <2> QED
    BY <2>3, <2>5
<1>6. CASE wanted # None
  <2>1. \A k, l \in Asked(c, wanted) : k = l
    BY <1>1, <1>6 DEF Asked, AcceptedCatalog, validate, ensure_unique
  <2>2. \A row \in found : row.display_order \in Asked(c, wanted)
    BY <1>3, <1>6 DEF Asked, Places
  <2>3. \A k \in Asked(c, wanted) : \E row \in found : row.display_order = k
    BY <1>3, <1>6 DEF Asked, Places
  <2>4. \A a, b \in found : a = b
    BY <2>1, <2>2, <1>3 DEF Places
  <2>5. CASE found = {}
    <3> DEFINE e == [i \in 1..0 |-> 1]
    <3>1. left = <<>>
      BY <2>5, ByOrderOfFew
    <3>2. Asked(c, wanted) = {}
      BY <2>3, <2>5
    <3> HIDE DEF left, found
    <3>3. Len(left) = 0 /\ left \in Seq(tables.models)
      BY <3>1
    <3>4. Len(q.models) = 0 /\ Len(q.left) = 0
      BY <1>2, <1>4, <3>3
    <3>5. e \in [1..0 -> 1..Len(c)] /\ {e[i] : i \in DOMAIN e} = {}
      OBVIOUS
    <3> HIDE DEF e
    <3>6. ReadsOf(q, c, e)
      BY <1>1, <1>2, <1>4, <1>6, <3>2, <3>3, <3>4, <3>5 DEF ReadsOf
    <3>7. Len(q.models) + Len(q.left) = 0
      BY <3>4
    <3> QED
      BY <3>5, <3>6, <3>7
  <2>6. CASE found # {}
    <3>1. PICK row \in found : TRUE
      BY <2>6
    <3> DEFINE k == row.display_order
               e == [i \in 1..1 |-> k]
    <3>2. found = {row} /\ k \in 1..Len(c) /\ row \in tables.models
      BY <2>4, <3>1, <1>3 DEF Places
    <3>3. left = <<row>>
      BY <3>2, ByOrderOfFew
    <3>4. Asked(c, wanted) = {k}
      BY <2>1, <2>2, <3>1
    <3> HIDE DEF left, found
    <3>5. Len(left) = 1 /\ left[1] = row /\ left \in Seq(tables.models)
      <4>1. row \in tables.models
        BY <3>2
      <4>2. \A S, x : x \in S => <<x>> \in Seq(S) /\ Len(<<x>>) = 1 /\ <<x>>[1] = x
        OBVIOUS
      <4> HIDE DEF c
      <4> QED
        BY <4>1, <4>2, <3>3
    <3>6. Len(q.models) = 0 /\ Len(q.left) = 1
      BY <1>2, <1>4, <3>5
    <3>7. e \in [1..1 -> 1..Len(c)] /\ {e[i] : i \in DOMAIN e} = {k}
      BY <3>2
    <3>8. \A j \in 1..Len(q.left) : q.left[j].display_order = e[Len(q.models) + j]
      BY <1>2, <3>5, <3>6
    <3> HIDE DEF e, k
    <3>9. ReadsOf(q, c, e)
      BY <1>1, <1>2, <1>4, <1>6, <3>4, <3>5, <3>6, <3>7, <3>8 DEF ReadsOf
    <3>10. Len(q.models) + Len(q.left) = 1
      BY <3>6
    <3> QED
      BY <3>7, <3>9, <3>10
  <2> QED
    BY <2>5, <2>6
<1> QED
  BY <1>5, <1>6

\* What the proofs use of lists.
LEMMA ListFacts ==
  ASSUME NEW S, NEW s \in Seq(S)
  PROVE  /\ Len(s) \in Nat /\ DOMAIN s = 1..Len(s) /\ IsList(s)
         /\ s # <<>> => /\ Len(s) > 0 /\ Head(s) = s[1] /\ s[1] \in S
                        /\ Tail(s) \in Seq(S) /\ Len(Tail(s)) = Len(s) - 1
                        /\ \A j \in 1..Len(s) - 1 : Tail(s)[j] = s[j + 1]
         /\ \A x \in S : /\ Append(s, x) \in Seq(S) /\ Len(Append(s, x)) = Len(s) + 1
                         /\ \A i \in 1..Len(s) + 1 : Append(s, x)[i] = IF i = Len(s) + 1 THEN x ELSE s[i]
BY DEF IsList

\* The place after the first k.
LEMMA NextPlace ==
  ASSUME NEW k \in Nat, NEW l \in Nat, l > 0
  PROVE  /\ k + 1 \in 1..k + l
         /\ \A i \in 1..k + 1 : i = k + 1 \/ (i \in 1..k /\ i # k + 1)
OBVIOUS

\* The fields of a reader's transaction after one more row.
LEMMA FieldsAfterRow ==
  ASSUME NEW q, NEW a, NEW b,
         q = [tables |-> q.tables, wanted |-> q.wanted, left |-> q.left, models |-> q.models, seen |-> q.seen]
  PROVE  [q EXCEPT !.left = a, !.models = b]
           = [tables |-> q.tables, wanted |-> q.wanted, left |-> a, models |-> b, seen |-> q.seen]
<1> DEFINE x == [q EXCEPT !.left = a, !.models = b]
           y == [tables |-> q.tables, wanted |-> q.wanted, left |-> a, models |-> b, seen |-> q.seen]
<1>1. DOMAIN q = {"tables", "wanted", "left", "models", "seen"}
  OBVIOUS
<1>2. /\ x.tables = q.tables /\ x.wanted = q.wanted /\ x.left = a /\ x.models = b /\ x.seen = q.seen
      /\ DOMAIN x = DOMAIN q
  BY <1>1
<1>3. x = [f \in DOMAIN q |-> x[f]] /\ y = [f \in DOMAIN q |-> y[f]]
  BY <1>1, <1>2
<1>4. \A f \in DOMAIN q : x[f] = y[f]
  <2>1. y.tables = q.tables /\ y.wanted = q.wanted /\ y.left = a /\ y.models = b /\ y.seen = q.seen
    OBVIOUS
  <2> HIDE DEF x, y
  <2> QED
    BY <1>1, <1>2, <2>1
<1> HIDE DEF x, y
<1>5. x = y
  BY <1>3, <1>4
<1> QED
  BY <1>5 DEF x, y

\* The next row of a read becomes the next model of the catalog it reads.
LEMMA NextRowReads ==
  ASSUME NEW q, ReaderHolds(q), q.left # <<>>, NEW m,
         m = [Head(q.left).model EXCEPT !.overrides = catalog_parameter_overrides(q.tables, Head(q.left).id),
                                        !.presets = catalog_parameter_presets(q.tables, Head(q.left).id)]
  PROVE  ReaderHolds([q EXCEPT !.left = Tail(@), !.models = Append(@, m)])
<1>1. PICK c \in q.seen : \E e \in [1..Len(q.models) + Len(q.left) -> 1..Len(c)] : ReadsOf(q, c, e)
  BY DEF ReaderHolds
<1>2. PICK e \in [1..Len(q.models) + Len(q.left) -> 1..Len(c)] : ReadsOf(q, c, e)
  BY <1>1
<1> DEFINE row == Head(q.left)
           k == Len(q.models)
           x == [q EXCEPT !.left = Tail(@), !.models = Append(@, m)]
           Cs == {c[i] : i \in 1..Len(c)}
<1>3. /\ AcceptedCatalog(c) /\ Holds(q.tables, c, Len(c)) /\ Len(c) \in Nat /\ DOMAIN c = 1..Len(c)
      /\ q.left \in Seq(q.tables.models) /\ q.models \in Seq(Cs)
      /\ k \in Nat /\ Len(q.left) \in Nat /\ Len(q.left) > 0
  <2>1. AcceptedCatalog(c) /\ Holds(q.tables, c, Len(c)) /\ q.left \in Seq(q.tables.models) /\ q.models \in Seq(Cs)
    BY <1>2 DEF ReadsOf
  <2>2. Len(c) \in Nat /\ DOMAIN c = 1..Len(c)
    BY <2>1 DEF AcceptedCatalog, IsList
  <2>3. k \in Nat
    BY <2>1, ListFacts
  <2>4. Len(q.left) \in Nat /\ Len(q.left) > 0
    BY <2>1, ListFacts
  <2> QED
    BY <2>1, <2>2, <2>3, <2>4
<1>4. row = q.left[1] /\ row \in q.tables.models
  BY <1>3, ListFacts
<1>5. row.display_order = e[k + 1]
  <2>1. 1 \in 1..Len(q.left)
    BY <1>3
  <2>2. q.left[1].display_order = e[k + 1]
    BY <1>2, <2>1 DEF ReadsOf
  <2> QED
    BY <1>4, <2>2
<1>6. e[k + 1] \in 1..Len(c)
  <2>1. k + 1 \in 1..k + Len(q.left)
    BY <1>3, NextPlace
  <2> HIDE DEF k
  <2>2. e \in [1..k + Len(q.left) -> 1..Len(c)]
    BY <1>2 DEF k
  <2> QED
    BY <2>1, <2>2
<1>7. row.model = c[e[k + 1]]
  BY <1>3, <1>4, <1>5 DEF Holds, ModelRows
<1>8. ParsedModel(row.model)
  BY <1>3, <1>6, <1>7 DEF AcceptedCatalog
<1>9. m = c[e[k + 1]]
  BY <1>3, <1>4, <1>7, <1>8, ReadBack
<1>10. q = [tables |-> q.tables, wanted |-> q.wanted, left |-> q.left, models |-> q.models, seen |-> q.seen]
  BY DEF ReaderHolds
<1>11. x = [tables |-> q.tables, wanted |-> q.wanted, left |-> Tail(q.left), models |-> Append(q.models, m), seen |-> q.seen]
  <2>1. x = [q EXCEPT !.left = Tail(q.left), !.models = Append(q.models, m)]
    OBVIOUS
  <2> HIDE DEF x, row
  <2> QED
    BY <1>10, <2>1, FieldsAfterRow
<1>12. /\ x.tables = q.tables /\ x.wanted = q.wanted /\ x.left = Tail(q.left) /\ x.models = Append(q.models, m)
       /\ x.seen = q.seen
       /\ x = [tables |-> x.tables, wanted |-> x.wanted, left |-> x.left, models |-> x.models, seen |-> x.seen]
  BY <1>11
<1> HIDE DEF x
<1>13. x.left \in Seq(q.tables.models) /\ Len(x.left) = Len(q.left) - 1
       /\ \A j \in 1..Len(x.left) : x.left[j] = q.left[j + 1]
  <2>1. /\ Tail(q.left) \in Seq(q.tables.models) /\ Len(Tail(q.left)) = Len(q.left) - 1
        /\ \A j \in 1..Len(q.left) - 1 : Tail(q.left)[j] = q.left[j + 1]
    BY <1>3, ListFacts
  <2> QED
    BY <1>12, <2>1
<1>14. x.models \in Seq(Cs) /\ Len(x.models) = k + 1
       /\ \A i \in 1..Len(x.models) : x.models[i] = IF i = k + 1 THEN m ELSE q.models[i]
  <2>1. m \in Cs
    BY <1>6, <1>9
  <2> HIDE DEF Cs
  <2>2. /\ Append(q.models, m) \in Seq(Cs) /\ Len(Append(q.models, m)) = k + 1
        /\ \A i \in 1..k + 1 : Append(q.models, m)[i] = IF i = k + 1 THEN m ELSE q.models[i]
    BY <1>3, <2>1, ListFacts
  <2> QED
    BY <1>12, <2>2
<1> DEFINE l == Len(q.left)
<1>14a. k \in Nat /\ l \in Nat /\ l > 0 /\ Len(x.left) = l - 1 /\ Len(x.models) = k + 1
  BY <1>3, <1>13, <1>14
<1> HIDE DEF k, l
<1>15. Len(x.models) + Len(x.left) = k + l /\ k \in Nat /\ l \in Nat /\ l > 0 /\ Len(x.left) = l - 1 /\ Len(x.models) = k + 1
  BY <1>14a
<1>16. \A i \in 1..Len(x.models) : x.models[i] = c[e[i]]
  <2> TAKE i \in 1..Len(x.models)
  <2>1. CASE i = k + 1
    BY <2>1, <1>9, <1>14
  <2>2. CASE i \in 1..k /\ i # k + 1
    <3>1. q.models[i] = c[e[i]]
      BY <1>2, <2>2 DEF ReadsOf, k
    <3> QED
      BY <3>1, <2>2, <1>14
  <2> QED
    BY <2>1, <2>2, <1>15, NextPlace
<1>17. \A j \in 1..Len(x.left) : x.left[j].display_order = e[Len(x.models) + j]
  <2> TAKE j \in 1..Len(x.left)
  <2>1. j + 1 \in 1..Len(q.left) /\ k + (j + 1) = Len(x.models) + j
    BY <1>15 DEF l
  <2>2. q.left[j + 1].display_order = e[k + (j + 1)]
    BY <1>2, <2>1 DEF ReadsOf, k
  <2> QED
    BY <2>1, <2>2, <1>13
<1>18. ReadsOf(x, c, e)
  <2>1. /\ {e[i] : i \in DOMAIN e} = Asked(c, q.wanted)
        /\ IF q.wanted = None THEN k + Len(q.left) = Len(c) /\ \A i \in DOMAIN e : e[i] = i
                              ELSE k + Len(q.left) <= 1
    BY <1>2 DEF ReadsOf, k
  <2> HIDE DEF Cs
  <2> QED
    BY <1>3, <1>12, <1>13, <1>14, <1>15, <1>16, <1>17, <2>1 DEF ReadsOf, l, Cs
<1>19. e \in [1..Len(x.models) + Len(x.left) -> 1..Len(c)]
  BY <1>2, <1>15 DEF k, l
<1>20. ReaderHolds(x)
  BY <1>12, <1>18, <1>19 DEF ReaderHolds
<1> QED
  BY <1>20 DEF x

\* A read that has no row left has put together the catalog it reads, or the one
\* model it asks of it, and validation lets it through.
LEMMA AnsweredIsWhole ==
  ASSUME NEW q, ReaderHolds(q), q.left = <<>>
  PROVE  ServedWhole(Answered(q))
<1>1. PICK c \in q.seen : \E e \in [1..Len(q.models) + Len(q.left) -> 1..Len(c)] : ReadsOf(q, c, e)
  BY DEF ReaderHolds
<1>2. PICK e \in [1..Len(q.models) + Len(q.left) -> 1..Len(c)] : ReadsOf(q, c, e)
  BY <1>1
<1> DEFINE ms == q.models
           n == Len(ms)
<1>3. /\ AcceptedCatalog(c) /\ validate(c) /\ Len(c) \in Nat /\ DOMAIN c = 1..Len(c)
      /\ n \in Nat /\ DOMAIN ms = 1..n /\ IsList(ms) /\ IsList(c)
  <2>1. AcceptedCatalog(c) /\ ms \in Seq({c[i] : i \in 1..Len(c)})
    BY <1>2 DEF ReadsOf
  <2>2. validate(c) /\ Len(c) \in Nat /\ DOMAIN c = 1..Len(c) /\ IsList(c)
    BY <2>1 DEF AcceptedCatalog, IsList
  <2>3. n \in Nat /\ DOMAIN ms = 1..n /\ IsList(ms)
    BY <2>1, ListFacts
  <2> QED
    BY <2>1, <2>2, <2>3
<1>4. e \in [1..n -> 1..Len(c)] /\ \A i \in 1..n : ms[i] = c[e[i]]
  <2>1. Len(q.left) = 0
    OBVIOUS
  <2> QED
    BY <1>2, <1>3, <2>1 DEF ReadsOf
<1>5. \A i, j \in 1..n : e[i] = e[j] => i = j
  <2>1. Len(q.left) = 0
    OBVIOUS
  <2>2. CASE q.wanted = None
    BY <1>2, <1>4, <2>2 DEF ReadsOf
  <2>3. CASE q.wanted # None
    <3>1. n <= 1
      BY <1>2, <1>3, <2>1, <2>3 DEF ReadsOf
    <3> QED
      BY <3>1, <1>3
  <2> QED
    BY <2>2, <2>3
<1>6. validate(ms)
  <2>1. \A i \in DOMAIN ms : ValidModel(ms[i])
    BY <1>3, <1>4 DEF validate
  <2>2. ensure_unique([i \in DOMAIN ms |-> ms[i].slug])
    BY <1>3, <1>4, <1>5 DEF validate, ensure_unique
  <2>3. ensure_unique([i \in DOMAIN ms |-> ms[i].source])
    BY <1>3, <1>4, <1>5 DEF validate, ensure_unique
  <2> QED
    BY <2>1, <2>2, <2>3 DEF validate
<1>7. CASE q.wanted = None
  <2>1. Answered(q) = [result |-> "catalog", models |-> ms, seen |-> q.seen]
    BY <1>6, <1>7 DEF Answered
  <2>2. n = Len(c) /\ \A i \in 1..n : e[i] = i
    <3>1. Len(q.left) = 0
      OBVIOUS
    <3> QED
      BY <1>2, <1>3, <1>4, <1>7, <3>1 DEF ReadsOf
  <2>3. ms = c
    BY <2>2, <1>3, <1>4 DEF IsList
  <2> QED
    BY <2>1, <2>3 DEF ServedWhole
<1>8. CASE q.wanted # None
  <2> DEFINE a == [result |-> "model", slug |-> q.wanted, models |-> ms, seen |-> q.seen]
             found == {c[i] : i \in {i \in DOMAIN c : c[i].slug = a.slug /\ c[i].published}}
  <2>1. Answered(q) = a
    BY <1>6, <1>8 DEF Answered
  <2>2. n <= 1 /\ {e[i] : i \in DOMAIN e} = Asked(c, q.wanted)
    <3>1. Len(q.left) = 0
      OBVIOUS
    <3> QED
      BY <1>2, <1>3, <1>8, <3>1 DEF ReadsOf
  <2>3. found = {c[k] : k \in Asked(c, q.wanted)}
    BY <1>3, <1>8 DEF Asked
  <2> HIDE DEF n, found
  <2>4. found = {c[e[i]] : i \in 1..n}
    <3>1. Asked(c, q.wanted) = {e[i] : i \in 1..n}
      BY <2>2, <1>4
    <3> QED
      BY <3>1, <2>3
  <2>5. CASE n = 0
    <3>1. found = {}
      BY <2>4, <2>5
    <3>2. ms = <<>>
      BY <2>5, <1>3 DEF IsList, n
    <3>3. a.result = "model" /\ a.models = ms /\ c \in a.seen
      OBVIOUS
    <3> HIDE DEF a
    <3> QED
      BY <2>1, <3>1, <3>2, <3>3 DEF ServedWhole, found
  <2>6. CASE n = 1
    <3>1. found = {c[e[1]]} /\ ms[1] = c[e[1]]
      <4>1. 1..1 = {1}
        OBVIOUS
      <4> QED
        BY <2>4, <2>6, <1>4, <4>1
    <3>2. ms = <<ms[1]>>
      BY <2>6, <1>3 DEF IsList, n
    <3>3. found # {} /\ \E m \in found : found = {m} /\ ms = <<m>>
      BY <3>1, <3>2
    <3>4. a.result = "model" /\ a.models = ms /\ c \in a.seen
      OBVIOUS
    <3> HIDE DEF a
    <3> QED
      BY <2>1, <3>3, <3>4 DEF ServedWhole, found
  <2> QED
    BY <2>2, <2>5, <2>6, <1>3
<1> QED
  BY <1>7, <1>8

\* An import that is committed meanwhile changes nothing for a read in progress.
LEMMA SeenGrows ==
  ASSUME NEW q, ReaderHolds(q), NEW d
  PROVE  ReaderHolds([q EXCEPT !.seen = @ \cup {d}])
<1> DEFINE x == [q EXCEPT !.seen = @ \cup {d}]
           y == [tables |-> q.tables, wanted |-> q.wanted, left |-> q.left, models |-> q.models,
                 seen |-> q.seen \cup {d}]
<1>1. q = [tables |-> q.tables, wanted |-> q.wanted, left |-> q.left, models |-> q.models, seen |-> q.seen]
  BY DEF ReaderHolds
<1>2. DOMAIN q = {"tables", "wanted", "left", "models", "seen"}
  BY <1>1
<1>3. DOMAIN x = DOMAIN q /\ DOMAIN y = {"tables", "wanted", "left", "models", "seen"}
  OBVIOUS
<1>4. /\ x.tables = q.tables /\ x.wanted = q.wanted /\ x.left = q.left /\ x.models = q.models
      /\ x.seen = q.seen \cup {d}
  BY <1>2
<1>5. x = y
  <2>1. \A f \in DOMAIN q : x[f] = y[f]
    BY <1>2, <1>4
  <2>2. x = [f \in DOMAIN q |-> x[f]]
    BY <1>3
  <2>3. y = [f \in DOMAIN q |-> y[f]]
    BY <1>2
  <2> HIDE DEF x, y
  <2> QED
    BY <2>1, <2>2, <2>3
<1> HIDE DEF x
<1>6. PICK c \in q.seen : \E e \in [1..Len(q.models) + Len(q.left) -> 1..Len(c)] : ReadsOf(q, c, e)
  BY DEF ReaderHolds
<1>7. \E e \in [1..Len(x.models) + Len(x.left) -> 1..Len(c)] : ReadsOf(x, c, e)
  <2>1. PICK e \in [1..Len(q.models) + Len(q.left) -> 1..Len(c)] : ReadsOf(q, c, e)
    BY <1>6
  <2>2. ReadsOf(x, c, e)
    BY <1>4, <2>1 DEF ReadsOf
  <2> QED
    BY <1>4, <2>1, <2>2
<1>8. ReaderHolds(x)
  BY <1>4, <1>5, <1>6, <1>7 DEF ReaderHolds
<1> QED
  BY <1>8 DEF x

\* The empty catalog of a new database satisfies the invariant.
LEMMA CatalogStarts == CatalogInit => CatalogInv
<1> SUFFICES ASSUME CatalogInit PROVE CatalogInv
  OBVIOUS
<1>1. AcceptedCatalog(<<>>) /\ Len(<<>>) = 0
  BY DEF AcceptedCatalog, IsList, validate, ensure_unique
<1>2. Cleared(EmptyTables) = EmptyTables /\ EmptyTables.lastModel = 0 /\ EmptyTables.lastPreset = 0
  BY DEF Cleared, EmptyTables
<1>3. Holds(EmptyTables, <<>>, 0)
  BY <1>2, ClearedHolds
<1>4. CommittedHolds
  BY <1>1, <1>3, CatalogAssumption DEF CommittedHolds, CatalogInit
<1> QED
  BY <1>4 DEF CatalogInit, CatalogInv, DraftHolds, ReadersHold, ServedHolds

\* Every step of imports and reads keeps the invariant.
LEMMA CatalogKept == CatalogInv /\ [CatalogNext]_catalogVars => CatalogInv'
<1> SUFFICES ASSUME CatalogInv, [CatalogNext]_catalogVars PROVE CatalogInv'
  OBVIOUS
<1> USE DEF CatalogInv
<1>1. ASSUME NEW file \in CatalogFiles, RefuseImport(file) PROVE CatalogInv'
  BY <1>1 DEF RefuseImport, CommittedHolds, DraftHolds, ReadersHold, ServedHolds
<1>2. ASSUME NEW file \in CatalogFiles, BeginReplace(file) PROVE CatalogInv'
  <2> DEFINE c == LoadedModels(file)
  <2>1. AcceptedCatalog(c) /\ Len(c) \in Nat
    BY <1>2, LoadedIsAccepted DEF BeginReplace, AcceptedCatalog, IsList
  <2>2. Holds(Cleared(tables), c, 0)
    BY ClearedHolds DEF CommittedHolds, Holds, ModelRows, PresetRows
  <2>3. draft' = [tables |-> Cleared(tables), models |-> c, next |-> 1]
    BY <1>2 DEF BeginReplace
  <2> HIDE DEF c
  <2>4. 1 \in 1..Len(c) + 1 /\ 1 - 1 = 0
    BY <2>1
  <2>5. DraftHolds'
    BY <1>2, <2>1, <2>2, <2>3, <2>4 DEF DraftHolds, BeginReplace
  <2> QED
    BY <1>2, <2>5 DEF BeginReplace, CommittedHolds, ReadersHold, ServedHolds
<1>3. ASSUME InsertModel PROVE CatalogInv'
  <2> DEFINE c == draft.models
             k == draft.next
             u == WithModel(draft.tables, c[k], k)
  <2>1. /\ draft # None
        /\ draft = [tables |-> draft.tables, models |-> c, next |-> k]
        /\ AcceptedCatalog(c) /\ k \in 1..Len(c) /\ Holds(draft.tables, c, k - 1) /\ Len(c) \in Nat
        /\ DOMAIN c = 1..Len(c)
    BY <1>3 DEF InsertModel, DraftHolds, AcceptedCatalog, IsList
  <2>2. PICK n \in Nat : n = k - 1 /\ n + 1 = k /\ k + 1 - 1 = k
    BY <2>1
  <2>3. ParsedModel(c[n + 1]) /\ Holds(draft.tables, c, n)
    BY <2>1, <2>2 DEF AcceptedCatalog
  <2>4. Holds(u, c, k)
    BY <2>2, <2>3, WithModelHolds
  <2>5. draft' = [tables |-> u, models |-> c, next |-> k + 1]
    BY <1>3, <2>1 DEF InsertModel
  <2> HIDE DEF u
  <2>6. k + 1 \in 1..Len(c) + 1
    BY <2>1
  <2>7. replacements' < MaxReplacements
    BY <1>3 DEF InsertModel, DraftHolds
  <2>8. /\ draft'.tables = u /\ draft'.models = c /\ draft'.next = k + 1
        /\ draft' = [tables |-> draft'.tables, models |-> draft'.models, next |-> draft'.next]
    BY <2>5
  <2>9. draft'.next - 1 = k
    BY <2>2, <2>8
  <2>10. DraftHolds'
    BY <2>1, <2>4, <2>6, <2>7, <2>8, <2>9 DEF DraftHolds
  <2> QED
    BY <1>3, <2>10 DEF InsertModel, CommittedHolds, ReadersHold, ServedHolds
<1>4. ASSUME CommitReplace PROVE CatalogInv'
  <2>1. AcceptedCatalog(draft.models) /\ Len(draft.models) \in Nat /\ draft.next - 1 = Len(draft.models)
        /\ Holds(draft.tables, draft.models, draft.next - 1)
    BY <1>4 DEF CommitReplace, DraftHolds, AcceptedCatalog, IsList
  <2>2. replacements + 1 \in 0..MaxReplacements
    BY <1>4, CatalogAssumption DEF CommitReplace, CommittedHolds, DraftHolds
  <2>3. CommittedHolds'
    BY <1>4, <2>1, <2>2 DEF CommitReplace, CommittedHolds
  <2>4. DraftHolds'
    BY <1>4 DEF CommitReplace, DraftHolds
  <2>5. ReadersHold'
    <3>1. reading' = [r \in CatalogReaders |-> IF reading[r] = None THEN None
                                                ELSE [reading[r] EXCEPT !.seen = @ \cup {draft.models}]]
      BY <1>4 DEF CommitReplace
    <3> QED
      BY <3>1, SeenGrows DEF ReadersHold
  <2>6. ServedHolds'
    BY <1>4 DEF CommitReplace, ServedHolds
  <2> QED
    BY <2>3, <2>4, <2>5, <2>6
<1>5. ASSUME RollbackReplace PROVE CatalogInv'
  BY <1>5 DEF RollbackReplace, CommittedHolds, DraftHolds, ReadersHold, ServedHolds
<1>6. ASSUME NEW r \in CatalogReaders, NEW wanted, Begin(r, wanted) PROVE CatalogInv'
  <2> DEFINE found == {row \in tables.models :
                         wanted = None \/ (row.model.slug = wanted /\ row.model.published)}
             q == [tables |-> tables, wanted |-> wanted, left |-> ByOrder(found), models |-> <<>>, seen |-> {inForce}]
  <2>1. ReaderHolds(q)
    BY BeginReads
  <2>2. reading' = [reading EXCEPT ![r] = q]
    BY <1>6 DEF Begin
  <2> HIDE DEF q
  <2>3. ReadersHold'
    BY <2>1, <2>2 DEF ReadersHold
  <2> QED
    BY <1>6, <2>3 DEF Begin, CommittedHolds, DraftHolds, ServedHolds
<1>7. ASSUME NEW r \in CatalogReaders, catalog_model_from_row(r) PROVE CatalogInv'
  <2> DEFINE q == reading[r]
             row == Head(q.left)
             m == [row.model EXCEPT !.overrides = catalog_parameter_overrides(q.tables, row.id),
                                    !.presets = catalog_parameter_presets(q.tables, row.id)]
             x == [q EXCEPT !.left = Tail(@), !.models = Append(@, m)]
  <2>1. q # None /\ q.left # <<>> /\ ReaderHolds(q)
    BY <1>7 DEF catalog_model_from_row, ReadersHold
  <2>2. ReaderHolds(x)
    BY <2>1, NextRowReads
  <2>3. reading' = [reading EXCEPT ![r].left = Tail(@), ![r].models = Append(@, m)]
    BY <1>7 DEF catalog_model_from_row, Snapshot
  <2>4. reading' = [reading EXCEPT ![r] = x]
    BY <2>3
  <2> HIDE DEF x
  <2>5. ReadersHold'
    BY <2>2, <2>4 DEF ReadersHold
  <2> QED
    BY <1>7, <2>5 DEF catalog_model_from_row, CommittedHolds, DraftHolds, ServedHolds
<1>8. ASSUME NEW r \in CatalogReaders, FinishRead(r) PROVE CatalogInv'
  <2>1. ServedWhole(Answered(reading[r]))
    BY <1>8, AnsweredIsWhole DEF FinishRead, ReadersHold
  <2>2. ServedHolds'
    BY <1>8, <2>1 DEF FinishRead, ServedHolds
  <2>3. ReadersHold'
    BY <1>8 DEF FinishRead, ReadersHold
  <2> QED
    BY <1>8, <2>2, <2>3 DEF FinishRead, CommittedHolds, DraftHolds
<1>9. CASE UNCHANGED catalogVars
  BY <1>9 DEF catalogVars, CommittedHolds, DraftHolds, ReadersHold, ServedHolds
<1> QED
  BY <1>1, <1>2, <1>3, <1>4, <1>5, <1>6, <1>7, <1>8, <1>9
     DEF CatalogNext, ReadStep, catalog, published_catalog_model

\* (CatalogTypeOK: replace_catalog) Whatever is imported and however often, the
\* tables satisfy their UNIQUE and FOREIGN KEY constraints, inside the transaction too.
THEOREM CatalogConstraints == CatalogSpec => []CatalogTypeOK
<1>1. CatalogInv => CatalogTypeOK
  <2> SUFFICES ASSUME CatalogInv PROVE CatalogTypeOK
    OBVIOUS
  <2>1. Consistent(tables)
    <3>1. Len(inForce) \in Nat /\ Len(inForce) <= Len(inForce)
      BY DEF CatalogInv, CommittedHolds, AcceptedCatalog, IsList
    <3> QED
      BY <3>1, HoldsIsConsistent DEF CatalogInv, CommittedHolds
  <2>2. ASSUME draft # None PROVE Consistent(draft.tables) /\ draft.next \in 1..Len(draft.models) + 1
    <3>1. draft.next \in 1..Len(draft.models) + 1 /\ Len(draft.models) \in Nat
      BY <2>2 DEF CatalogInv, DraftHolds, AcceptedCatalog, IsList
    <3>2. draft.next - 1 \in Nat /\ draft.next - 1 <= Len(draft.models)
      BY <3>1
    <3>3. Consistent(draft.tables)
      BY <2>2, <3>2, HoldsIsConsistent DEF CatalogInv, DraftHolds
    <3> QED
      BY <3>1, <3>3
  <2>3. \A r \in CatalogReaders : served[r] # None => served[r].result \in {"error", "catalog", "model"}
    BY DEF CatalogInv, ServedHolds, ServedWhole
  <2> QED
    BY <2>1, <2>2, <2>3 DEF CatalogTypeOK, CatalogInv, CommittedHolds
<1> QED
  BY <1>1, CatalogStarts, CatalogKept, PTL DEF CatalogSpec

\* (ReadsAreWhole: catalog, published_catalog_model, replace_catalog) A read gives
\* one whole catalog, or the one model asked of it, as one import brought it, and
\* never fails its own validation, for any files, any readers and any interleaving
\* of reads with imports.
THEOREM ReadsWhole == CatalogSpec => []ReadsAreWhole
<1>1. CatalogInv => ReadsAreWhole
  BY DEF CatalogInv, ServedHolds, ServedWhole, ReadsAreWhole, ReadIsOneCatalog, StoredCatalogIsReadable
<1> QED
  BY <1>1, CatalogStarts, CatalogKept, PTL DEF CatalogSpec

-----------------------------------------------------------------------------
(* ParameterValues: visibility conditions. *)

\* What normalize_logical_visibility_condition makes of children it can read: a list
\* of those that decide something, or nothing if none does.
LEMMA LogicalCases ==
  ASSUME NEW op \in {"AND", "OR"}, NEW ch, \A i \in DOMAIN ch : ch[i] # Bad
  PROVE  /\ Logical(op, ch) # Bad
         /\ \/ /\ Logical(op, ch) = Always
               /\ op = "AND" => \A i \in DOMAIN ch : ch[i] = Always
               /\ op = "OR" => DOMAIN ch = {} \/ \E i \in DOMAIN ch : ch[i] = Always
            \/ op = "AND" /\ Logical(op, ch) = [kind |-> "all", conditions |-> Kept(ch)]
            \/ /\ op = "OR" /\ Logical(op, ch) = [kind |-> "any", conditions |-> Kept(ch)]
               /\ \A i \in DOMAIN ch : ch[i] # Always
<1> DEFINE list(k) == [kind |-> k, conditions |-> Kept(ch)]
<1>1. /\ \A k \in {"all", "any"} : list(k) # Bad /\ list(k) # Always
      /\ Always # Bad
  <2>1. \A k : list(k).kind = k
    OBVIOUS
  <2>2. Bad.kind = "bad" /\ Always.kind = "always"
    BY DEF Bad, Always
  <2> QED
    BY <2>1, <2>2
<1>2. Kept(ch) = {} => \A i \in DOMAIN ch : ch[i] = Always
  BY DEF Kept
<1>3. CASE op = "AND"
  BY <1>1, <1>2, <1>3 DEF Logical
<1>4. CASE op = "OR" /\ \E i \in DOMAIN ch : ch[i] = Always
  BY <1>1, <1>4 DEF Logical
<1>5. CASE op = "OR" /\ \A i \in DOMAIN ch : ch[i] # Always
  BY <1>1, <1>2, <1>5 DEF Logical
<1> QED
  BY <1>3, <1>4, <1>5

\* The page tells two texts apart exactly when they are different settings.
LEMMA SpellingsAreOneSetting ==
  ASSUME NEW a, NEW b
  PROVE  normalizeParameterValue(a) = normalizeParameterValue(b) <=> SameSetting(a, b)
  BY DEF normalizeParameterValue, SameSetting

LEMMA LeafIsKept ==
  ASSUME NEW c, NEW v, ReadableLeaf(c)
  PROVE  /\ normalize_leaf(c) # Bad /\ normalize_leaf(c).kind \notin {"all", "any"}
         /\ EvaluateLeaf(normalize_leaf(c), v) <=> MeantLeaf(c, v)
<1>1. Bad.kind = "bad" /\ Always.kind = "always"
  BY DEF Bad, Always
<1>2. CASE c.kind = "empty"
  BY <1>1, <1>2 DEF normalize_leaf, EvaluateLeaf, MeantLeaf
<1>3. CASE c.kind = "equal" /\ c.values # <<>>
  <2>1. normalize_leaf(c) = c
    BY <1>3 DEF normalize_leaf
  <2>2. \A i \in DOMAIN c.values :
          normalizeParameterValue(c.values[i]) = normalizeParameterValue(v[c.parameter])
            <=> SameSetting(c.values[i], v[c.parameter])
    BY SpellingsAreOneSetting
  <2> QED
    BY <1>1, <1>3, <2>1, <2>2 DEF EvaluateLeaf, MeantLeaf
<1> QED
  BY <1>2, <1>3 DEF ReadableLeaf

\* Folding keeps what a list of leaves says.
LEMMA InnerIsKept ==
  ASSUME NEW c, NEW v, ReadableInner(c)
  PROVE  /\ normalize_inner(c) # Bad
         /\ EvaluateInner(normalize_inner(c), v) <=> MeantInner(c, v)
<1>1. CASE c.kind # "logical"
  <2>1. ReadableLeaf(c) /\ normalize_inner(c) = normalize_leaf(c) /\ (MeantInner(c, v) <=> MeantLeaf(c, v))
    BY <1>1 DEF ReadableInner, normalize_inner, MeantInner
  <2>2. /\ normalize_leaf(c) # Bad /\ normalize_leaf(c).kind \notin {"all", "any"}
        /\ EvaluateLeaf(normalize_leaf(c), v) <=> MeantLeaf(c, v)
    BY <2>1, LeafIsKept
  <2>3. EvaluateInner(normalize_leaf(c), v) <=> EvaluateLeaf(normalize_leaf(c), v)
    BY <2>2 DEF EvaluateInner
  <2> QED
    BY <2>1, <2>2, <2>3
<1>2. CASE c.kind = "logical"
  <2> DEFINE ch == [i \in DOMAIN c.children |-> normalize_leaf(c.children[i])]
             n == Logical(c.op, ch)
             says(i) == MeantLeaf(c.children[i], v)
  <2>1. c.op \in {"AND", "OR"} /\ DOMAIN ch = DOMAIN c.children /\ normalize_inner(c) = n
    BY <1>2 DEF ReadableInner, normalize_inner, normalize_logical
  <2>2. \A i \in DOMAIN ch : ch[i] # Bad /\ (EvaluateLeaf(ch[i], v) <=> says(i))
    BY <1>2, LeafIsKept DEF ReadableInner
  <2>3. MeantInner(c, v) <=> IF c.op = "AND" THEN \A i \in DOMAIN ch : says(i)
                             ELSE DOMAIN ch = {} \/ \E i \in DOMAIN ch : says(i)
    BY <1>2, <2>1 DEF MeantInner
  <2> HIDE DEF ch, says
  <2>4. Always.kind = "always" /\ EvaluateLeaf(Always, v) /\ EvaluateInner(Always, v)
    BY DEF Always, EvaluateLeaf, EvaluateInner
  <2>5. \A x : x \in Kept(ch) <=> x # Always /\ \E i \in DOMAIN ch : x = ch[i]
    BY DEF Kept
  <2>6. CASE n = Always
    BY <2>1, <2>2, <2>3, <2>4, <2>6, LogicalCases
  <2>7. CASE c.op = "AND" /\ n = [kind |-> "all", conditions |-> Kept(ch)]
    <3>1. EvaluateInner(n, v) <=> \A x \in Kept(ch) : EvaluateLeaf(x, v)
      BY <2>7 DEF EvaluateInner
    <3>2. (\A x \in Kept(ch) : EvaluateLeaf(x, v)) <=> \A i \in DOMAIN ch : EvaluateLeaf(ch[i], v)
      BY <2>4, <2>5
    <3> QED
      BY <2>1, <2>2, <2>3, <2>7, <3>1, <3>2, LogicalCases
  <2>8. CASE /\ c.op = "OR" /\ n = [kind |-> "any", conditions |-> Kept(ch)]
             /\ n # Always /\ \A i \in DOMAIN ch : ch[i] # Always
    <3>3. DOMAIN ch # {}
      BY <2>8 DEF Logical, Kept
    <3>0. Kept(ch) # {}
      BY <2>5, <2>8, <3>3
    <3>1. EvaluateInner(n, v) <=> \E x \in Kept(ch) : EvaluateLeaf(x, v)
      BY <2>8, <3>0 DEF EvaluateInner
    <3>2. (\E x \in Kept(ch) : EvaluateLeaf(x, v)) <=> \E i \in DOMAIN ch : EvaluateLeaf(ch[i], v)
      BY <2>5, <2>8
    <3> QED
      BY <2>1, <2>2, <2>3, <2>8, <3>1, <3>2, <3>3, LogicalCases
  <2> QED
    BY <2>1, <2>2, <2>6, <2>7, <2>8, LogicalCases
<1> QED
  BY <1>1, <1>2

\* And what a list of those says.
LEMMA ConditionIsKept ==
  ASSUME NEW c, NEW v, Readable(c)
  PROVE  evaluateVisibilityCondition(normalize_visibility_condition(c), v) <=> Meant(c, v)
<1>1. CASE c.kind # "logical"
  <2>1. ReadableLeaf(c) /\ (Meant(c, v) <=> MeantLeaf(c, v))
    BY <1>1 DEF Readable, Meant
  <2>2. /\ normalize_leaf(c) # Bad /\ normalize_leaf(c).kind \notin {"all", "any"}
        /\ EvaluateLeaf(normalize_leaf(c), v) <=> MeantLeaf(c, v)
    BY <2>1, LeafIsKept
  <2>3. normalize_visibility_condition(c) = normalize_leaf(c)
    BY <1>1, <2>2 DEF normalize_visibility_condition
  <2>4. evaluateVisibilityCondition(normalize_leaf(c), v) <=> EvaluateLeaf(normalize_leaf(c), v)
    BY <2>2 DEF evaluateVisibilityCondition, EvaluateInner
  <2> QED
    BY <2>1, <2>2, <2>3, <2>4
<1>2. CASE c.kind = "logical"
  <2> DEFINE ch == [i \in DOMAIN c.children |-> normalize_inner(c.children[i])]
             n == Logical(c.op, ch)
             says(i) == MeantInner(c.children[i], v)
  <2>1. c.op \in {"AND", "OR"} /\ DOMAIN ch = DOMAIN c.children
    BY <1>2 DEF Readable
  <2>2. \A i \in DOMAIN ch : ch[i] # Bad /\ (EvaluateInner(ch[i], v) <=> says(i))
    BY <1>2, InnerIsKept DEF Readable
  <2>3. Meant(c, v) <=> IF c.op = "AND" THEN \A i \in DOMAIN ch : says(i)
                        ELSE DOMAIN ch = {} \/ \E i \in DOMAIN ch : says(i)
    BY <1>2, <2>1 DEF Meant
  <2>0. normalize_visibility_condition(c) = IF n = Bad THEN Always ELSE n
    BY <1>2 DEF normalize_visibility_condition
  <2> HIDE DEF ch, says
  <2>4. /\ normalize_visibility_condition(c) = n
        /\ \/ /\ n = Always
              /\ c.op = "AND" => \A i \in DOMAIN ch : ch[i] = Always
              /\ c.op = "OR" => DOMAIN ch = {} \/ \E i \in DOMAIN ch : ch[i] = Always
           \/ c.op = "AND" /\ n = [kind |-> "all", conditions |-> Kept(ch)]
           \/ /\ c.op = "OR" /\ n = [kind |-> "any", conditions |-> Kept(ch)]
              /\ \A i \in DOMAIN ch : ch[i] # Always
    BY <2>0, <2>1, <2>2, LogicalCases
  <2>5. /\ EvaluateInner(Always, v) /\ evaluateVisibilityCondition(Always, v)
    BY DEF Always, EvaluateLeaf, EvaluateInner, evaluateVisibilityCondition
  <2>6. \A x : x \in Kept(ch) <=> x # Always /\ \E i \in DOMAIN ch : x = ch[i]
    BY DEF Kept
  <2>7. CASE n = Always
    <3>1. \A k \in {"all", "any"} : n # [kind |-> k, conditions |-> Kept(ch)]
      BY <2>7 DEF Always
    <3>2. /\ c.op = "AND" => \A i \in DOMAIN ch : ch[i] = Always
          /\ c.op = "OR" => DOMAIN ch = {} \/ \E i \in DOMAIN ch : ch[i] = Always
      BY <2>4, <3>1
    <3>3. Meant(c, v)
      BY <2>1, <2>2, <2>3, <2>5, <3>2
    <3> QED
      BY <2>4, <2>5, <2>7, <3>3
  <2>8. CASE c.op = "AND" /\ n = [kind |-> "all", conditions |-> Kept(ch)]
    <3>1. evaluateVisibilityCondition(n, v) <=> \A x \in Kept(ch) : EvaluateInner(x, v)
      BY <2>8 DEF evaluateVisibilityCondition
    <3>2. (\A x \in Kept(ch) : EvaluateInner(x, v)) <=> \A i \in DOMAIN ch : EvaluateInner(ch[i], v)
      BY <2>5, <2>6
    <3> QED
      BY <2>2, <2>3, <2>4, <2>8, <3>1, <3>2
  <2>9. CASE /\ c.op = "OR" /\ n = [kind |-> "any", conditions |-> Kept(ch)]
             /\ n # Always /\ \A i \in DOMAIN ch : ch[i] # Always
    <3>3. DOMAIN ch # {}
      BY <2>9 DEF Logical, Kept
    <3>0. Kept(ch) # {}
      BY <2>6, <2>9, <3>3
    <3>1. evaluateVisibilityCondition(n, v) <=> \E x \in Kept(ch) : EvaluateInner(x, v)
      BY <2>9, <3>0 DEF evaluateVisibilityCondition
    <3>2. (\E x \in Kept(ch) : EvaluateInner(x, v)) <=> \E i \in DOMAIN ch : EvaluateInner(ch[i], v)
      BY <2>6, <2>9
    <3> QED
      BY <2>2, <2>3, <2>4, <2>9, <3>1, <3>2, <3>3
  <2> HIDE DEF n
  <2> QED
    BY <2>4, <2>7, <2>8, <2>9
<1> QED
  BY <1>1, <1>2

\* A loaded condition is kept with what was made of it.
ConditionHolds ==
  condition # None => condition.normalized = normalize_visibility_condition(condition.raw)

\* For every condition of two levels of AND and OR that the service reads, and every
\* state of the form, the page shows the control exactly when Onshape's condition
\* says so, where a parameter without a control is not held against it and the
\* spellings of a boolean are one setting.
THEOREM VisibilityHolds == ValuesSpec => []VisibilityIsKept
<1>1. ValuesInit => ConditionHolds
  BY DEF ValuesInit, ConditionHolds
<1>2. ConditionHolds /\ [ValuesNext]_valueVars => ConditionHolds'
  <2> SUFFICES ASSUME ConditionHolds, [ValuesNext]_valueVars PROVE ConditionHolds'
    OBVIOUS
  <2>1. CASE load_condition
    <3>1. PICK c : condition' = [raw |-> c, normalized |-> normalize_visibility_condition(c)]
      BY <2>1 DEF load_condition
    <3> QED
      BY <3>1 DEF ConditionHolds
  <2>2. CASE NextModelPage
    BY <2>2 DEF NextModelPage, ConditionHolds
  <2>3. ASSUME UNCHANGED condition PROVE ConditionHolds'
    BY <2>3 DEF ConditionHolds
  <2>4. CASE load_parameter
    BY <2>3, <2>4 DEF load_parameter
  <2>5. ASSUME NEW t, NEW o, NEW allow, submit(t, o, allow) PROVE ConditionHolds'
    BY <2>3, <2>5 DEF submit
  <2>6. ASSUME NEW t, submit_again(t) PROVE ConditionHolds'
    BY <2>3, <2>6 DEF submit_again
  <2>7. CASE execute_export_job
    BY <2>3, <2>7 DEF execute_export_job
  <2>8. CASE post_form
    BY <2>3, <2>8 DEF post_form
  <2>9. CASE UNCHANGED valueVars
    BY <2>3, <2>9 DEF valueVars
  <2> QED
    BY <2>1, <2>2, <2>4, <2>5, <2>6, <2>7, <2>8, <2>9 DEF ValuesNext
<1>3. ConditionHolds => VisibilityIsKept
  BY ConditionIsKept DEF ConditionHolds, VisibilityIsKept
<1> QED
  BY <1>1, <1>2, <1>3, PTL DEF ValuesSpec

=============================================================================
