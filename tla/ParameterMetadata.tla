-------------------------- MODULE ParameterMetadata --------------------------
(***************************************************************************)
(* The parameter metadata cache of src/main.rs: the resolved source of a   *)
(* catalog model, the parameter_metadata row of that source, the raw and   *)
(* normalized objects it names, and the three parties that read and write  *)
(* them: request handlers, parameter_refresh jobs and the scheduled        *)
(* rebuild loop.                                                           *)
(*                                                                         *)
(* An Onshape version never changes, so its configuration is the constant  *)
(* Params.  A normalized schema is the schema version that wrote it and    *)
(* the parameters whose presentation a catalog override changed; its hash  *)
(* names the schema, so the object key of a schema is the schema itself.   *)
(***************************************************************************)
EXTENDS Absence, Naturals, Sequences

CONSTANTS
  Models,          \* catalog models
  Order,           \* the models in display order, as the scheduled loop reads them
  SourceHash,      \* SourceHash[m]: the hash of m's source; versions of one
                   \* microversion share it
  Params,          \* parameter ids of the Onshape configuration
  OverrideIds,     \* parameter ids a catalog override may name
  CatalogOverrides, \* the overrides of all models in the catalogs imported
  AutoRefresh,     \* models with parameter_policy.auto_refresh
  Requests,        \* request handlers
  Workers,         \* worker tasks
  MaxVersion,      \* bound: SCHEMA_VERSION of the last release
  MaxEvents        \* bound: catalog imports, failures and losses together

Sources == {SourceHash[m] : m \in Models}
Actors == Requests \cup Workers
Schema == [version : 1..MaxVersion, hidden : SUBSET OverrideIds]

ASSUME MetadataAssumption ==
  /\ Order \in Seq(Models)
  /\ AutoRefresh \subseteq Models
  /\ CatalogOverrides \subseteq [Models -> SUBSET OverrideIds]
  /\ Requests \cap Workers = {}
  /\ MaxVersion \in Nat \ {0} /\ MaxEvents \in Nat
  /\ None \notin Workers /\ None \notin Schema

VARIABLES
  release,     \* SCHEMA_VERSION of the running release
  overrides,   \* catalog: overrides[m] is the ids m's overrides name
  alias,       \* models whose source resolution is in the database
  record,      \* parameter_metadata: the schema of a source, or None
  raw,         \* sources whose raw object is in the bucket
  norm,        \* <<source, schema>> of the normalized objects in the bucket
  lost,        \* objects that were stored and vanished; <<s, None>>: the raw one
  job,         \* parameter_refresh row of a source: status, model, lease
  actorPc, model, want, held,  \* per actor: step, model, its overrides, schema in hand
  answer,      \* per request: the last response
  tick, phase, \* scheduled loop: position in Order (0 between ticks), step
  swant,       \* scheduled loop: the catalog it read at the tick
  events       \* imports, failures and losses so far

actors == <<actorPc, model, want, held, answer>>
metadataStore == <<record, raw, norm, lost>>
loop == <<tick, phase, swant>>
budget == <<events>>
metadataVars == <<release, overrides, alias, metadataStore, job, actors, loop, budget>>

source(a) == SourceHash[model[a]]

\* The scheduled loop holds no catalog between ticks.
NoCatalog == [m \in Models |-> {}]

MetadataInit ==
  /\ release = 1
  /\ overrides \in CatalogOverrides
  /\ alias = {}
  /\ record = [s \in Sources |-> None]
  /\ raw = {} /\ norm = {} /\ lost = {}
  /\ job = [s \in Sources |-> [status |-> "absent", model |-> None, lease |-> None]]
  /\ actorPc = [a \in Actors |-> "idle"]
  /\ model = [a \in Actors |-> None]
  /\ want = [a \in Actors |-> {}]
  /\ held = [a \in Actors |-> None]
  /\ answer = [r \in Requests |-> None]
  /\ tick = 0 /\ phase = "force" /\ swant = NoCatalog
  /\ events = 0

-----------------------------------------------------------------------------
ActorGoto(a, step) == actorPc' = [actorPc EXCEPT ![a] = step]

Finish(a) ==
  /\ ActorGoto(a, "idle")
  /\ model' = [model EXCEPT ![a] = None]
  /\ want' = [want EXCEPT ![a] = {}]
  /\ held' = [held EXCEPT ![a] = None]

\* The response of a handler: the schema served, "pending" or "error".
Answer(r, kind, schema) ==
  /\ answer' = [answer EXCEPT ![r] =
                  [kind |-> kind, schema |-> schema, want |-> want[r]]]
  /\ Finish(r)

validate_parameter_overrides(names) == names \subseteq Params

\* Overrides only ever set presentation: what is set already stays.
apply_overrides(schema, names) == [schema EXCEPT !.hidden = @ \cup names]

normalize_configuration == [version |-> release, hidden |-> {}]

\* Mutant: a schema of any version is taken as current.
AnySchemaIsCurrent(schema) == schema.version \in Nat

parameter_schema_is_current(schema) == schema.version = release

\* The row of JobQueue.enqueue_job_inner, without its retry bookkeeping.
enqueue_parameter_refresh_with_force(s, m, force) ==
  job' = IF job[s].status \in {"absent", "failed"} \cup (IF force THEN {"ready"} ELSE {})
           THEN [job EXCEPT ![s] = [status |-> "queued", model |-> m, lease |-> None]]
           ELSE job

-----------------------------------------------------------------------------
(* load_or_refresh_parameters in a request handler.                        *)

\* The handler reads the catalog once and keeps its copy of the model.
BeginRequest(r, m) ==
  /\ actorPc[r] = "idle"
  /\ ActorGoto(r, "resolve")
  /\ model' = [model EXCEPT ![r] = m]
  /\ want' = [want EXCEPT ![r] = overrides[m]]
  /\ answer' = [answer EXCEPT ![r] = None]
  /\ UNCHANGED <<release, overrides, alias, metadataStore, job, held, loop, budget>>

\* A version that is not in the alias table is resolved at Onshape and stored.
resolve_source_hash(a) ==
  /\ actorPc[a] = "resolve"
  /\ alias' = alias \cup {model[a]}
  /\ ActorGoto(a, IF a \in Requests THEN "record" ELSE "fetch")
  /\ UNCHANGED <<release, overrides, metadataStore, job, model, want, held, answer, loop, budget>>

ReadRecord(r) ==
  /\ actorPc[r] = "record"
  /\ held' = [held EXCEPT ![r] = record[source(r)]]
  /\ ActorGoto(r, IF record[source(r)] = None THEN "enqueue" ELSE "schema")
  /\ UNCHANGED <<release, overrides, alias, metadataStore, job, model, want, answer, loop, budget>>

\* get_json of the normalized object; one that is gone fails the request.
ReadSchema(r) ==
  /\ actorPc[r] = "schema"
  /\ \/ /\ <<source(r), held[r]>> \notin norm
        /\ Answer(r, "error", None)
     \/ /\ <<source(r), held[r]>> \in norm
        /\ ~ parameter_schema_is_current(held[r])
        /\ ActorGoto(r, "raw")
        /\ UNCHANGED <<model, want, held, answer>>
     \/ /\ <<source(r), held[r]>> \in norm
        /\ parameter_schema_is_current(held[r])
        /\ IF validate_parameter_overrides(want[r])
             THEN Answer(r, "served", apply_overrides(held[r], want[r]))
             ELSE Answer(r, "error", None)
  /\ UNCHANGED <<release, overrides, alias, metadataStore, job, loop, budget>>

\* rebuild_normalized_parameters_from_raw, up to its first write.
RebuildFromRaw(r) ==
  /\ actorPc[r] = "raw"
  /\ \/ /\ source(r) \notin raw
        /\ ActorGoto(r, "enqueue")
        /\ UNCHANGED <<model, want, held, answer>>
     \/ /\ source(r) \in raw
        /\ validate_parameter_overrides(want[r])
        /\ held' = [held EXCEPT ![r] = apply_overrides(normalize_configuration, want[r])]
        /\ ActorGoto(r, "put")
        /\ UNCHANGED <<model, want, answer>>
     \/ /\ source(r) \in raw
        /\ ~ validate_parameter_overrides(want[r])
        /\ Answer(r, "error", None)
  /\ UNCHANGED <<release, overrides, alias, metadataStore, job, loop, budget>>

enqueue_parameter_refresh(r) ==
  /\ actorPc[r] = "enqueue"
  /\ enqueue_parameter_refresh_with_force(source(r), model[r], FALSE)
  /\ Answer(r, "pending", None)
  /\ UNCHANGED <<release, overrides, alias, metadataStore, loop, budget>>

-----------------------------------------------------------------------------
(* refresh_parameters in a worker.                                         *)

\* execute_job reads the catalog and looks the model of the payload up.
ClaimRefresh(w, s) ==
  /\ actorPc[w] = "idle"
  /\ job[s].status = "queued" \/ (job[s].status = "running" /\ job[s].lease = None)
  /\ job' = [job EXCEPT ![s].status = "running", ![s].lease = w]
  /\ ActorGoto(w, "resolve")
  /\ model' = [model EXCEPT ![w] = job[s].model]
  /\ want' = [want EXCEPT ![w] = overrides[job[s].model]]
  /\ UNCHANGED <<release, overrides, alias, metadataStore, held, answer, loop, budget>>

\* The settling UPDATE is fenced on the claim of this worker.
SettleRefresh(w, statuses) ==
  /\ IF job[source(w)].lease = w
       THEN \E st \in statuses :
              job' = [job EXCEPT ![source(w)].status = st, ![source(w)].lease = None]
       ELSE job' = job
  /\ Finish(w)
  /\ UNCHANGED <<release, overrides, alias, loop, answer>>

\* fetch_configuration and the checks before the first write; an override of
\* an unknown parameter fails the job.
fetch_configuration(w) ==
  /\ actorPc[w] = "fetch"
  /\ \/ /\ validate_parameter_overrides(want[w])
        /\ held' = [held EXCEPT ![w] = apply_overrides(normalize_configuration, want[w])]
        /\ ActorGoto(w, "putraw")
        /\ UNCHANGED <<release, overrides, alias, job, model, want, answer, loop>>
     \/ /\ ~ validate_parameter_overrides(want[w])
        /\ SettleRefresh(w, {"queued", "failed"})
  /\ UNCHANGED <<metadataStore, budget>>

put_raw(w) ==
  /\ actorPc[w] = "putraw"
  /\ raw' = raw \cup {source(w)}
  /\ lost' = lost \ {<<source(w), None>>}
  /\ ActorGoto(w, "put")
  /\ UNCHANGED <<release, overrides, alias, record, norm, job, model, want, held,
                 answer, loop, budget>>

\* Mutant: the row is written first.
PutNormalizedLater(a) ==
  /\ actorPc[a] = "put"
  /\ record' = [record EXCEPT ![source(a)] = held[a]]
  /\ ActorGoto(a, "upsert")
  /\ UNCHANGED <<release, overrides, alias, raw, norm, lost, job, model, want, held,
                 answer, loop, budget>>

\* Both writers put the normalized object before they name it in the row.
put_normalized(a) ==
  /\ actorPc[a] = "put"
  /\ norm' = norm \cup {<<source(a), held[a]>>}
  /\ lost' = lost \ {<<source(a), held[a]>>}
  /\ ActorGoto(a, "upsert")
  /\ UNCHANGED <<release, overrides, alias, record, raw, job, model, want, held,
                 answer, loop, budget>>

upsert_parameter_metadata(a) ==
  /\ actorPc[a] = "upsert"
  /\ record' = [record EXCEPT ![source(a)] = held[a]]
  /\ IF a \in Requests
       THEN Answer(a, "served", held[a]) /\ job' = job
       ELSE ActorGoto(a, "settle") /\ UNCHANGED <<job, model, want, held, answer>>
  /\ UNCHANGED <<release, overrides, alias, raw, norm, lost, loop, budget>>

complete_refresh(w) ==
  /\ actorPc[w] = "settle"
  /\ SettleRefresh(w, {"ready"})
  /\ UNCHANGED <<metadataStore, budget>>

-----------------------------------------------------------------------------
(* scheduled_rebuild_loop.                                                 *)

EndTick == tick' = 0 /\ phase' = "force" /\ swant' = NoCatalog

NextModel ==
  IF tick = Len(Order)
    THEN EndTick
    ELSE tick' = tick + 1 /\ phase' = "force" /\ swant' = swant

BeginTick ==
  /\ tick = 0 /\ Order # <<>>
  /\ tick' = 1 /\ phase' = "force" /\ swant' = overrides
  /\ UNCHANGED <<release, overrides, alias, metadataStore, job, actors, budget>>

\* Mutant: the scheduled refresh is not forced.
ScheduleRefreshUnforced ==
  /\ tick # 0 /\ phase = "force"
  /\ LET m == Order[tick] IN
       IF m \in AutoRefresh
         THEN /\ alias' = alias \cup {m}
              /\ enqueue_parameter_refresh_with_force(SourceHash[m], m, FALSE)
         ELSE UNCHANGED <<alias, job>>
  /\ phase' = "defaults"
  /\ UNCHANGED <<release, overrides, metadataStore, actors, tick, swant, budget>>

\* The refresh is forced, so that a ready row is queued again.
ScheduleRefresh ==
  /\ tick # 0 /\ phase = "force"
  /\ LET m == Order[tick] IN
       IF m \in AutoRefresh
         THEN /\ alias' = alias \cup {m}
              /\ enqueue_parameter_refresh_with_force(SourceHash[m], m, TRUE)
         ELSE UNCHANGED <<alias, job>>
  /\ phase' = "defaults"
  /\ UNCHANGED <<release, overrides, metadataStore, actors, tick, swant, budget>>

\* The row and the object cached_default_parameter_values reads can be used.
DefaultsReadable(m) ==
  /\ <<SourceHash[m], record[SourceHash[m]]>> \in norm
  /\ validate_parameter_overrides(swant[m])

\* cached_default_parameter_values, which checks no schema version, and the
\* enqueueing of default exports after it.  Its errors leave the loop over the
\* models: the rest of the catalog waits for the next tick.
ScheduleDefaults ==
  /\ tick # 0 /\ phase = "defaults"
  /\ IF record[SourceHash[Order[tick]]] = None \/ DefaultsReadable(Order[tick])
       THEN NextModel
       ELSE EndTick
  /\ alias' = alias \cup {Order[tick]}
  /\ UNCHANGED <<release, overrides, metadataStore, job, actors, budget>>

-----------------------------------------------------------------------------
(* The environment.                                                        *)

Event == events < MaxEvents /\ events' = events + 1

\* A storage or Onshape call of an actor fails.
RequestFails(r) ==
  /\ Event
  /\ \/ actorPc[r] = "resolve" /\ model[r] \notin alias
     \/ actorPc[r] \in {"schema", "put"}
  /\ Answer(r, "error", None)
  /\ UNCHANGED <<release, overrides, alias, metadataStore, job, loop>>

RefreshFails(w) ==
  /\ Event
  /\ \/ actorPc[w] = "resolve" /\ model[w] \notin alias
     \/ actorPc[w] \in {"fetch", "putraw", "put"}
  /\ SettleRefresh(w, {"queued", "failed"})
  /\ UNCHANGED metadataStore

ScheduleFails ==
  /\ Event
  /\ tick # 0
  /\ EndTick
  /\ UNCHANGED <<release, overrides, alias, metadataStore, job, actors>>

\* A lease runs out under its worker, which goes on.
LeaseLapses(s) ==
  /\ Event
  /\ job[s].lease # None
  /\ job' = [job EXCEPT ![s].lease = None]
  /\ UNCHANGED <<release, overrides, alias, metadataStore, actors, loop>>

LoseObject(s) ==
  /\ Event
  /\ \/ /\ s \in raw
        /\ raw' = raw \ {s} /\ lost' = lost \cup {<<s, None>>} /\ norm' = norm
     \/ \E o \in {n \in norm : n[1] = s} :
          norm' = norm \ {o} /\ lost' = lost \cup {o} /\ raw' = raw
  /\ UNCHANGED <<release, overrides, alias, record, job, actors, loop>>

\* catalog import: the overrides of every model are replaced.
replace_catalog ==
  /\ Event
  /\ overrides' \in CatalogOverrides
  /\ UNCHANGED <<release, alias, metadataStore, job, actors, loop>>

\* A deployment with a new SCHEMA_VERSION.  The process is gone with every
\* request and task in it; what it had claimed is claimed again once the
\* lease is over.
Deploy ==
  /\ release < MaxVersion
  /\ release' = release + 1
  /\ actorPc' = [a \in Actors |-> "idle"]
  /\ model' = [a \in Actors |-> None]
  /\ want' = [a \in Actors |-> {}]
  /\ held' = [a \in Actors |-> None]
  /\ answer' = [r \in Requests |-> None]
  /\ job' = [s \in Sources |-> [job[s] EXCEPT !.lease = None]]
  /\ EndTick
  /\ UNCHANGED <<overrides, alias, metadataStore, budget>>

-----------------------------------------------------------------------------
RequestStep(r) ==
  \/ resolve_source_hash(r) \/ ReadRecord(r) \/ ReadSchema(r) \/ RebuildFromRaw(r)
  \/ enqueue_parameter_refresh(r) \/ put_normalized(r) \/ upsert_parameter_metadata(r)

RefreshStep(w) ==
  \/ \E s \in Sources : ClaimRefresh(w, s)
  \/ resolve_source_hash(w) \/ fetch_configuration(w) \/ put_raw(w)
  \/ put_normalized(w) \/ upsert_parameter_metadata(w) \/ complete_refresh(w)

LoopStep == BeginTick \/ ScheduleRefresh \/ ScheduleDefaults

MetadataNext ==
  \/ \E r \in Requests : \/ \E m \in Models : BeginRequest(r, m)
                         \/ RequestStep(r) \/ RequestFails(r)
  \/ \E w \in Workers : RefreshStep(w) \/ RefreshFails(w)
  \/ LoopStep \/ ScheduleFails
  \/ \E s \in Sources : LeaseLapses(s) \/ LoseObject(s)
  \/ replace_catalog
  \/ Deploy

MetadataSpec == MetadataInit /\ [][MetadataNext]_metadataVars

\* Tasks of a running process make progress; requests need not arrive.  A tick
\* is far longer than a refresh, so no row is queued again ahead of another
\* for ever.
MetadataFairness ==
  /\ \A r \in Requests : WF_metadataVars(RequestStep(r))
  /\ \A w \in Workers : WF_metadataVars(RefreshStep(w))
  /\ \A s \in Sources : SF_metadataVars(\E w \in Workers : ClaimRefresh(w, s))
  /\ WF_metadataVars(LoopStep)

MetadataFairSpec == MetadataSpec /\ MetadataFairness

-----------------------------------------------------------------------------
\* The metadata cache is well formed: a row, a stored schema and a job belong to a
\* source, and every party is at a known await of its handler.
MetadataTypeOK ==
  /\ release \in 1..MaxVersion
  /\ overrides \in [Models -> SUBSET OverrideIds]
  /\ alias \subseteq Models
  /\ record \in [Sources -> Schema \cup {None}]
  /\ raw \subseteq Sources
  /\ norm \subseteq Sources \X Schema
  /\ lost \subseteq Sources \X (Schema \cup {None})
  /\ job \in [Sources -> [status : {"absent", "queued", "running", "ready", "failed"},
                          model : Models \cup {None}, lease : Workers \cup {None}]]
  /\ actorPc \in [Actors -> {"idle", "resolve", "record", "schema", "raw", "enqueue",
                        "fetch", "putraw", "put", "upsert", "settle"}]
  /\ model \in [Actors -> Models \cup {None}]
  /\ want \in [Actors -> SUBSET OverrideIds]
  /\ held \in [Actors -> Schema \cup {None}]
  /\ answer \in [Requests ->
       [kind : {"served", "pending", "error"}, schema : Schema \cup {None},
        want : SUBSET OverrideIds] \cup {None}]
  /\ tick \in 0..Len(Order) /\ phase \in {"force", "defaults"}
  /\ swant \in [Models -> SUBSET OverrideIds]
  /\ events \in 0..MaxEvents

\* Whatever interleaving of requests, jobs, crashes and deployments wrote a
\* row, the objects it names were stored before it: they are in the bucket
\* unless the bucket lost them.  A request that finds the row and not the
\* object answers with an error and enqueues nothing, so the order matters.
RowNamesStoredObjects ==
  \A s \in Sources :
    record[s] # None =>
      /\ <<s, record[s]>> \in norm \cup lost
      /\ s \in raw \/ <<s, None>> \in lost

\* A schema that reaches a visitor is one of the running release, carries the
\* overrides the handler read in the catalog and none that names a parameter
\* Onshape does not have, across upgrades and rebuilds from raw metadata.
ServedSchemaIsCurrent ==
  \A r \in Requests :
    answer[r] # None /\ answer[r].kind = "served" =>
      /\ answer[r].schema.version = release
      /\ answer[r].want \subseteq answer[r].schema.hidden
      /\ answer[r].schema.hidden \subseteq Params

\* A schema of the running release can be served for m.
Servable(m) ==
  LET s == SourceHash[m] IN
  /\ record[s] # None
  /\ <<s, record[s]>> \in norm
  /\ record[s].version = release

\* The schema cache of main.rs as its readers see it: what a row names can be
\* loaded, and what a visitor gets is current.
SchemaCacheIsSound ==
  /\ RowNamesStoredObjects
  /\ ServedSchemaIsCurrent

\* The models the scheduled loop looks at before m.
Ahead(m) ==
  {Order[i] : i \in {i \in DOMAIN Order : \A j \in 1..i : Order[j] # m}}

\* The tick gets as far as m: a model ahead of it whose row cannot be used for
\* default values ends every tick, so those ahead have overrides of parameters
\* that exist and are refreshed themselves.
Reached(m) ==
  \A n \in Ahead(m) : n \in AutoRefresh /\ validate_parameter_overrides(overrides[n])

\* From some moment on no catalog is imported, no call fails, no lease runs out
\* under its worker, no object vanishes, and no release is deployed.
MetadataEnvironmentRests ==
  <>[][events' = events /\ release' = release]_metadataVars

\* A model that is refreshed on schedule comes back to where its current schema
\* can be served, if its overrides are of parameters that exist and the tick
\* reaches it: after an upgrade, a lost object, a failed job and a lapsed lease,
\* once the environment rests.
RefreshedModelsRecover ==
  MetadataEnvironmentRests =>
    \A m \in AutoRefresh :
      []<>(validate_parameter_overrides(overrides[m]) /\ Reached(m) => Servable(m))

\* docs/src/project/runtime.md:169, of the scheduled rebuild: "periodically
\* enqueue parameter refreshes for every catalog model".
EveryModelIsRefreshed ==
  \A m \in Models : []<>(tick # 0 /\ phase = "force" /\ Order[tick] = m)

=============================================================================
