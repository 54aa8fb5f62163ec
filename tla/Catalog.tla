-------------------------------- MODULE Catalog --------------------------------
(***************************************************************************)
(* The catalog, src/catalog.rs and the catalog tables of src/db.rs: an     *)
(* import loads an index file and the model files it names, validates the  *)
(* whole and replaces the four tables in one transaction; a page or a      *)
(* command reads the catalog, or one published model, with one query for   *)
(* the models and further queries for what belongs to each of them, and    *)
(* validates again what it has put together.                               *)
(*                                                                         *)
(* SQLite runs in WAL mode: a read transaction sees the database as it was *)
(* committed when it began, and there is one writer at a time.             *)
(***************************************************************************)
EXTENDS Absence, Naturals, Sequences, FiniteSets

CONSTANTS
  CatalogFiles,    \* what the path of an import may hold
  PathSlugs,       \* the texts is_path_slug accepts
  CatalogReaders,  \* requests and commands that read the catalog
  Wanted,          \* slugs asked for with published_catalog_model
  MaxReplacements  \* bound: imports that are committed

\* What serde gives for a file: maps are functions, lists are sequences, and a
\* preset has its three fields and no other.
IsMap(f) == f = [x \in DOMAIN f |-> f[x]]
IsList(s) == Len(s) \in Nat /\ s = [i \in 1..Len(s) |-> s[i]]
ParsedModel(m) ==
  /\ IsMap(m) /\ {"presets", "overrides"} \subseteq DOMAIN m
  /\ IsMap(m.overrides) /\ IsList(m.presets)
  /\ \A i \in DOMAIN m.presets :
       LET p == m.presets[i]
       IN  p = [slug |-> p.slug, name |-> p.name, values |-> p.values] /\ IsMap(p.values)

ASSUME CatalogAssumption ==
  /\ MaxReplacements \in Nat /\ None \notin Wanted
  /\ \A file \in CatalogFiles :
       /\ IsList(file.references)
       /\ \A i \in DOMAIN file.references :
            LET reference == file.references[i]
            IN  IF reference.model = None THEN reference.kind = "index" ELSE ParsedModel(reference.model)

VARIABLES
  tables,    \* the committed catalog tables and their AUTOINCREMENT counters
  draft,     \* the import's transaction: [tables, models left], or None
  reading,   \* each reader's transaction, or None
  served,    \* what it got last: [catalog], [model], "error" or None
  inForce,   \* ghost: the models of the last import committed
  replacements,   \* imports committed so far
  importExit    \* how the last import command ended, or None

catalogVars == <<tables, draft, reading, served, inForce, replacements, importExit>>

EmptyTables == [models |-> {}, overrides |-> {}, presets |-> {}, values |-> {},
                lastModel |-> 0, lastPreset |-> 0]

CatalogInit ==
  /\ tables = EmptyTables /\ draft = None
  /\ reading = [r \in CatalogReaders |-> None]
  /\ served = [r \in CatalogReaders |-> None]
  /\ inForce = <<>> /\ replacements = 0 /\ importExit = None

-----------------------------------------------------------------------------
is_path_slug(text) == text \in PathSlugs

ensure_unique(values) == \A i, j \in DOMAIN values : values[i] = values[j] => i = j

\* The check for a leading "--" refuses nothing that is_path_slug accepts.
ValidPresets(presets) ==
  /\ \A i \in DOMAIN presets : /\ is_path_slug(presets[i].slug)
                               /\ presets[i].slug # "default"
                               /\ presets[i].name # ""
  /\ ensure_unique([i \in DOMAIN presets |-> presets[i].slug])

ValidOverride(o) ==
  /\ o.label # ""
  /\ o.precision # None => o.precision <= 12
  /\ o.widget \in {None, "number", "range", "text", "textarea"}

\* The name stands for every text that may not be empty, as label does below. A
\* source with an empty id is None; a project is None or says whether the
\* preflight of its selectors accepts them.
ValidModel(m) ==
  /\ m.version = 1 /\ m.entry > 0
  /\ is_path_slug(m.slug) /\ m.name # ""
  /\ \A i \in DOMAIN m.tags : is_path_slug(m.tags[i])
  /\ m.source # None
  /\ m.downloads # <<>> /\ ensure_unique(m.downloads)
  /\ m.project \in {None, "selectable"}
  /\ ValidPresets(m.presets)
  /\ \A p \in DOMAIN m.overrides : p # "" /\ ValidOverride(m.overrides[p])

\* Mutant: models are validated one by one.
ValidateEach(models) == \A i \in DOMAIN models : ValidModel(models[i])

validate(models) ==
  /\ \A i \in DOMAIN models : ValidModel(models[i])
  /\ ensure_unique([i \in DOMAIN models |-> models[i].slug])
  /\ ensure_unique([i \in DOMAIN models |-> models[i].source])

\* An index entry names a file and repeats its slug, and its name if it gives one.
Loads(reference) ==
  reference.kind = "index" =>
    /\ is_path_slug(reference.slug) /\ reference.model # None
    /\ reference.model.slug = reference.slug
    /\ reference.name \in {None, reference.model.name}

LoadedModels(file) == [i \in DOMAIN file.references |-> file.references[i].model]

load_catalog(file) ==
  /\ file.version = 1
  /\ \A i \in DOMAIN file.references : Loads(file.references[i])
  /\ validate(LoadedModels(file))

-----------------------------------------------------------------------------
\* A file that does not load_catalog never reaches the database.
RefuseImport(file) ==
  /\ draft = None /\ ~ load_catalog(file)
  /\ importExit' = "refused"
  /\ UNCHANGED <<tables, draft, reading, served, inForce, replacements>>

\* The DELETEs of replace_catalog; AUTOINCREMENT never gives an id twice.
Cleared(t) == [EmptyTables EXCEPT !.lastModel = t.lastModel, !.lastPreset = t.lastPreset]

\* replace_catalog validates again; its first DELETE takes the write lock.
BeginReplace(file) ==
  /\ draft = None /\ replacements < MaxReplacements
  /\ load_catalog(file) /\ validate(LoadedModels(file))
  /\ draft' = [tables |-> Cleared(tables), models |-> LoadedModels(file), next |-> 1]
  /\ importExit' = None
  /\ UNCHANGED <<tables, reading, served, inForce, replacements>>

\* The rows of a model, its overrides, its presets and their values.
WithModel(t, m, order) ==
  LET id == t.lastModel + 1
      Preset(i) == t.lastPreset + i
  IN  [models |-> t.models \cup {[id |-> id, display_order |-> order, model |-> m]},
       overrides |-> t.overrides \cup {[model_id |-> id, parameter |-> p, override |-> m.overrides[p]] :
                                         p \in DOMAIN m.overrides},
       presets |-> t.presets \cup {[id |-> Preset(i), model_id |-> id, display_order |-> i,
                                    slug |-> m.presets[i].slug, name |-> m.presets[i].name] :
                                     i \in DOMAIN m.presets},
       values |-> t.values \cup UNION {{[preset_id |-> Preset(i), parameter |-> p,
                                         value |-> m.presets[i].values[p]] :
                                          p \in DOMAIN m.presets[i].values} : i \in DOMAIN m.presets},
       lastModel |-> id, lastPreset |-> t.lastPreset + Len(m.presets)]

InsertModel ==
  /\ draft # None /\ draft.next <= Len(draft.models)
  /\ draft' = [draft EXCEPT !.tables = WithModel(@, draft.models[draft.next], draft.next),
                            !.next = @ + 1]
  /\ UNCHANGED <<tables, reading, served, inForce, replacements, importExit>>

CommitReplace ==
  /\ draft # None /\ draft.next > Len(draft.models)
  /\ tables' = draft.tables /\ draft' = None
  /\ inForce' = draft.models /\ replacements' = replacements + 1 /\ importExit' = "imported"
  /\ reading' = [r \in CatalogReaders |->
                   IF reading[r] = None THEN None
                   ELSE [reading[r] EXCEPT !.seen = @ \cup {draft.models}]]
  /\ UNCHANGED served

\* An error of a statement, or a crash of the command: the transaction is rolled back.
RollbackReplace ==
  /\ draft # None
  /\ draft' = None /\ importExit' = "failed"
  /\ UNCHANGED <<tables, reading, served, inForce, replacements>>

-----------------------------------------------------------------------------
\* A row's place in ORDER BY display_order is the number of rows up to it.
ByOrder(rs) ==
  [i \in 1..Cardinality(rs) |->
     CHOOSE r \in rs : Cardinality({q \in rs : q.display_order <= r.display_order}) = i]

\* Mutant: the queries of one read run outside a transaction.
LiveTables(r) == tables

\* What a query of the reader sees.
Snapshot(r) == reading[r].tables

\* catalog() takes every model, published_catalog_model the one of the slug.
Begin(r, wanted) ==
  /\ reading[r] = None
  /\ LET found == {row \in tables.models :
                     wanted = None \/ (row.model.slug = wanted /\ row.model.published)}
     IN  reading' = [reading EXCEPT ![r] =
                       [tables |-> tables, wanted |-> wanted, left |-> ByOrder(found),
                        models |-> <<>>, seen |-> {inForce}]]
  /\ UNCHANGED <<tables, draft, served, inForce, replacements, importExit>>

catalog(r) == Begin(r, None)
published_catalog_model(r) == \E slug \in Wanted : Begin(r, slug)

catalog_parameter_overrides(t, id) ==
  LET found == {o \in t.overrides : o.model_id = id}
  IN  [p \in {o.parameter : o \in found} |-> (CHOOSE o \in found : o.parameter = p).override]

\* Mutant: the query of the values forgets the preset.
PresetsShareValues(t, id) ==
  LET found == ByOrder({p \in t.presets : p.model_id = id})
  IN  [i \in DOMAIN found |->
         [slug |-> found[i].slug, name |-> found[i].name,
          values |-> [p \in {v.parameter : v \in t.values} |->
                        (CHOOSE v \in t.values : v.parameter = p).value]]]

catalog_parameter_presets(t, id) ==
  LET found == ByOrder({p \in t.presets : p.model_id = id})
      Values(preset) == {v \in t.values : v.preset_id = preset.id}
  IN  [i \in DOMAIN found |->
         [slug |-> found[i].slug, name |-> found[i].name,
          values |-> [p \in {v.parameter : v \in Values(found[i])} |->
                        (CHOOSE v \in Values(found[i]) : v.parameter = p).value]]]

catalog_model_from_row(r) ==
  /\ reading[r] # None /\ reading[r].left # <<>>
  /\ LET row == Head(reading[r].left)
         t == Snapshot(r)
         m == [row.model EXCEPT !.overrides = catalog_parameter_overrides(t, row.id),
                                !.presets = catalog_parameter_presets(t, row.id)]
     IN  reading' = [reading EXCEPT ![r].left = Tail(@), ![r].models = Append(@, m)]
  /\ UNCHANGED <<tables, draft, served, inForce, replacements, importExit>>

\* Both reads validate what they have put together, and commit.
Answered(read) ==
  IF ~ validate(read.models) THEN [result |-> "error", seen |-> read.seen]
  ELSE IF read.wanted = None
  THEN [result |-> "catalog", models |-> read.models, seen |-> read.seen]
  ELSE [result |-> "model", slug |-> read.wanted, models |-> read.models, seen |-> read.seen]

FinishRead(r) ==
  /\ reading[r] # None /\ reading[r].left = <<>>
  /\ served' = [served EXCEPT ![r] = Answered(reading[r])]
  /\ reading' = [reading EXCEPT ![r] = None]
  /\ UNCHANGED <<tables, draft, inForce, replacements, importExit>>

-----------------------------------------------------------------------------
ReadStep(r) ==
  \/ catalog(r)
  \/ published_catalog_model(r)
  \/ catalog_model_from_row(r)
  \/ FinishRead(r)

CatalogNext ==
  \/ \E file \in CatalogFiles : RefuseImport(file) \/ BeginReplace(file)
  \/ InsertModel
  \/ CommitReplace
  \/ RollbackReplace
  \/ \E r \in CatalogReaders : ReadStep(r)

CatalogSpec == CatalogInit /\ [][CatalogNext]_catalogVars

-----------------------------------------------------------------------------
\* The constraints of the tables: the ids and what the UNIQUE indexes cover are
\* given once, and no row belongs to a model or a preset that is not there.
Consistent(t) ==
  /\ \A a, b \in t.models : a.id = b.id \/ a.model.slug = b.model.slug
                              \/ a.model.source = b.model.source => a = b
  /\ \A a, b \in t.presets : a.id = b.id \/ (a.model_id = b.model_id /\ a.slug = b.slug) => a = b
  /\ \A a, b \in t.overrides : a.model_id = b.model_id /\ a.parameter = b.parameter => a = b
  /\ \A a, b \in t.values : a.preset_id = b.preset_id /\ a.parameter = b.parameter => a = b
  /\ {p.model_id : p \in t.presets} \cup {o.model_id : o \in t.overrides} \subseteq {m.id : m \in t.models}
  /\ {v.preset_id : v \in t.values} \subseteq {p.id : p \in t.presets}
  /\ \A m \in t.models : m.id <= t.lastModel
  /\ \A p \in t.presets : p.id <= t.lastPreset

\* The catalog's state is well formed: validation has already refused whatever
\* the UNIQUE and FOREIGN KEY constraints of the tables would refuse, so no
\* statement of replace_catalog fails on one of them, in its transaction or after.
CatalogTypeOK ==
  /\ Consistent(tables)
  /\ draft # None => Consistent(draft.tables) /\ draft.next \in 1..Len(draft.models) + 1
  /\ replacements \in 0..MaxReplacements
  /\ importExit \in {None, "refused", "failed", "imported"}
  /\ \A r \in CatalogReaders : served[r] # None => served[r].result \in {"error", "catalog", "model"}

\* A read that overlaps imports gets one catalog, as one import brought it and in
\* its order: never models of one with overrides or presets of another, and never
\* the state between the DELETEs and the last INSERT.
ReadIsOneCatalog ==
  \A r \in CatalogReaders :
    LET a == served[r]
    IN  a # None =>
          /\ a.result = "catalog" => a.models \in a.seen
          /\ a.result = "model" =>
               \E c \in a.seen :
                 LET found == {c[i] : i \in {i \in DOMAIN c : c[i].slug = a.slug /\ c[i].published}}
                 IN  IF found = {} THEN a.models = <<>>
                                   ELSE \E m \in found : found = {m} /\ a.models = <<m>>

\* What an import has stored can be read back: the validation that every read
\* repeats never turns a page or a command away.
StoredCatalogIsReadable ==
  \A r \in CatalogReaders : served[r] # None => served[r].result # "error"

\* Every read of the catalog, at any moment of an import, gives one whole catalog.
ReadsAreWhole ==
  /\ ReadIsOneCatalog
  /\ StoredCatalogIsReadable

=============================================================================
