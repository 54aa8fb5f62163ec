----------------------------- MODULE MCComponents -----------------------------
(***************************************************************************)
(* The components beside the job queue and the export pipeline, each on a  *)
(* small instance.  They share no state, so one of them runs in each       *)
(* behaviour, chosen at the start, while the others stay at rest: the run  *)
(* visits the sum of their state spaces and not the product.               *)
(***************************************************************************)
EXTENDS ParameterMetadata, ParameterValues, ConfigurationEncoding,
        SelectionPlanning, GeometryAcquisition, ApiExchange,
        GeneratorDocuments, GeneratorRunner, Maintenance, Catalog, TLC

CONSTANTS m1, s1,        \* a model and its source
          l1, l2         \* configured leaves of a plan

VARIABLE active          \* the component that runs

Components == {"metadata", "values", "encoding", "selection", "acquisition",
               "exchange", "documents", "runner", "maintenance", "catalog"}

-----------------------------------------------------------------------------
\* ParameterMetadata: one model with an override, which an import may make one
\* of a parameter that does not exist.
OneModel == <<m1>>
OneSource == m1 :> s1
OneOverride == {m1 :> {p} : p \in OverrideIds}

\* ConfigurationEncoding: the table may hold an encoding of the first id, and
\* only what it holds of the fresh microversion may be damaged.
SoundRow(r) == validate_record(r, FALSE) /\ r.context /\ r.request

EncodingsAtStart ==
  /\ \A k \in Micros : rows[k] # None => rows[k].id = CHOOSE i \in Ids : TRUE
  /\ \A k \in Micros \ {Fresh} : /\ rows[k] # None => SoundRow(rows[k])
                                /\ selections[k] = IF rows[k] = None THEN None ELSE "typed"

\* GeometryAcquisition: two selections of parameters with one plan, whose
\* first and last objects are of one leaf.
OnePlan == [c \in Configs |-> <<l1, l2, l1>>]

\* Maintenance: all objects under the first prefix, none under the second.
FirstPrefix == [r \in Rows |-> 1]

\* GeneratorDocuments: one matrix of each kind that normalize_matrix treats.
OneOfEach == <<"moved", "negative zero", "identity">>

\* Texts that fit; a configuration identity above the limit of the protocol,
\* which three objects repeat above that of the authoring document; and names
\* that three objects make too long for the manifest only.
SomeLengths ==
  {[configuration |-> t[1], names |-> [p \in ConfiguredParts |-> t[2]]] : t \in {<<1, 1>>, <<3, 1>>, <<1, 2>>}}

\* SelectionPlanning: requests within and above the limits, with a selector
\* that is repeated or of the other kind.
SomeSelections ==
  [kind : {"part studio"}, selectors : {<<>>, <<"p1", "p2">>, <<"p2", None>>}]
    \cup [kind : {"assembly"}, selectors : {<<"o1", "o2", "o3">>, <<"o3", "o4">>, <<"o1", "o1">>,
                                            <<"o1", "o2", "o3", "o4">>}]

SomeTransforms ==
  [o1 |-> "negative zero", o2 |-> "moved", o3 |-> "last row off", o4 |-> "identity"]

\* The third and the fourth occurrence are too large for one document.
SomeSizes == [p1 |-> 4, p2 |-> 4, o1 |-> 3, o2 |-> 3, o3 |-> 3, o4 |-> 7]

SomeMarkers ==
  {None, Malformed, [role |-> "printable", key |-> "k1", targets |-> <<>>]}
    \cup [role : {"supportBlocker"}, key : {None, "k1"}, targets : {<<"k1">>}]

\* ParameterValues: every kind of parameter, units that are lengths, angles
\* and unknown, texts that say one length in several units.
RawNumber == [hint |-> "number", boolean |-> FALSE, options |-> <<>>,
              default |-> Decimal(FALSE, 254, 1), units |-> "mm", integer |-> FALSE,
              required |-> FALSE, hidden |-> FALSE]
RawOther == [RawNumber EXCEPT !.hint = "other", !.units = None]

SomeParameters ==
  {RawNumber, [RawNumber EXCEPT !.units = "in", !.default = None, !.required = TRUE],
   [RawNumber EXCEPT !.units = "deg", !.hidden = TRUE], [RawNumber EXCEPT !.units = "furlong"],
   [RawNumber EXCEPT !.units = None, !.default = Decimal(FALSE, 20, 1), !.integer = TRUE],
   [RawNumber EXCEPT !.units = None, !.default = Word("1e-7")],
   [RawNumber EXCEPT !.hint = "bool", !.units = None, !.default = Word("true")],
   [RawOther EXCEPT !.boolean = TRUE, !.default = None],
   [RawOther EXCEPT !.hint = "text", !.default = Word("label")],
   [RawOther EXCEPT !.hint = "text"],
   [RawOther EXCEPT !.default = Word("label")],
   [RawOther EXCEPT !.options = <<Word("small"), Decimal(FALSE, 20, 1)>>, !.default = Decimal(FALSE, 20, 1)],
   [RawOther EXCEPT !.options = <<Word("small"), Word("large")>>, !.default = Word("large")]}

In(t, u) == [t EXCEPT !.unit = u]

SomeTexts ==
  {Empty, Word("on"), Word("false"), Word("large"), Decimal(FALSE, 1, 0), Decimal(TRUE, 0, 0),
   Decimal(TRUE, 15, 1), Decimal(FALSE, 10, 1), In(Decimal(FALSE, 1, 0), "in"),
   In(Decimal(FALSE, 254, 1), "mm"), In(Decimal(FALSE, 254, 2), "cm"),
   In(Decimal(FALSE, 1, 0), "ft"), In(Decimal(FALSE, 12, 0), "in"),
   In(Decimal(FALSE, 90, 0), "deg"), In(Decimal(FALSE, 5, 0), "rad"),
   In(Decimal(FALSE, 5, 0), "furlong")}

ConditionLeaves ==
  [kind : {"equal"}, parameter : {"p"}, values : {<<"1">>, <<>>}]
    \cup [kind : {"equal"}, parameter : {"q"}, values : {<<"large", "false">>}]
    \cup [kind : {"empty", "unreadable"}]

InnerConditions ==
  ConditionLeaves \cup
  [kind : {"logical"}, op : {"AND", "OR", "XOR"},
   children : UNION {[1..n -> ConditionLeaves] : n \in 0..2}]

SomeConditions ==
  InnerConditions \cup
  [kind : {"logical"}, op : {"AND", "OR"},
   children : {<<a, b>> : a \in ConditionLeaves, b \in InnerConditions}]

\* Catalog: a file of one model, files of two that share a preset slug, in two
\* orders and with other overrides, and files that are refused.
PlainModel == [version |-> 1, entry |-> 1, slug |-> "a", name |-> "A", published |-> TRUE,
          tags |-> <<"t">>, source |-> "d1", downloads |-> <<"step", "stl">>, project |-> None,
          presets |-> <<>>, overrides |-> [p \in {} |-> {}]]
Override == [label |-> None, precision |-> 12, widget |-> "range"]
Preset(slug) == [slug |-> slug, name |-> slug, values |-> "p" :> slug]
Rich == [PlainModel EXCEPT !.presets = <<Preset("t"), Preset("b")>>, !.overrides = "p" :> Override]
Other == [PlainModel EXCEPT !.slug = "b", !.source = "d2", !.published = FALSE,
                       !.project = "selectable", !.presets = <<Preset("t")>>]

Inline(m) == [kind |-> "inline", model |-> m]
Indexed(slug, m) == [kind |-> "index", slug |-> slug, name |-> None, model |-> m]
File(references) == [version |-> 1, references |-> references]

SomeFiles ==
  {File(<<Inline(PlainModel)>>), File(<<Inline(Rich), Indexed("b", Other)>>),
   File(<<Indexed("b", [Other EXCEPT !.published = TRUE]), Inline(Rich)>>)}
    \cup {[File(<<>>) EXCEPT !.version = 2], File(<<Indexed("b", None)>>), File(<<Indexed("b", PlainModel)>>),
          File(<<Inline(PlainModel), Inline(PlainModel)>>), File(<<Inline(PlainModel), Inline([Other EXCEPT !.source = "d1"])>>)}
    \cup {File(<<Inline(m)>>) : m \in {[PlainModel EXCEPT !.downloads = <<"stl", "stl">>],
                                       [Other EXCEPT !.presets = <<Preset("default")>>],
                                       [Rich EXCEPT !.overrides["p"].precision = 13]}}

-----------------------------------------------------------------------------
\* A component that does not run is at one of its initial states.
Init ==
  /\ active \in Components
  /\ MetadataInit
  /\ overrides[m1] \subseteq Params
  /\ ValuesInit
  /\ EncodingInit
  /\ IF active = "encoding" THEN EncodingsAtStart
                            ELSE \A k \in Micros : rows[k] = None /\ selections[k] = None
  /\ SelectionInit
  /\ AcquisitionInit
  /\ ExchangeInit
  /\ active # "exchange" => credentials
  /\ DocumentsInit
  /\ active # "documents" => deployed = CHOOSE d \in Deployments : TRUE
  /\ RunnerInit
  /\ active # "runner" => document = "absent" /\ installed = "missing" /\ sealed
  /\ MaintenanceInit
  /\ active # "maintenance" => database = None
  /\ CatalogInit

Next ==
  \/ /\ active = "metadata" /\ MetadataNext
     /\ UNCHANGED <<active, valueVars, encodingVars, selectionVars, acquisitionVars,
                    exchangeVars, documentVars, runnerVars, maintenanceVars, catalogVars>>
  \/ /\ active = "values" /\ ValuesNext
     /\ UNCHANGED <<active, metadataVars, encodingVars, selectionVars, acquisitionVars,
                    exchangeVars, documentVars, runnerVars, maintenanceVars, catalogVars>>
  \/ /\ active = "encoding" /\ EncodingNext
     /\ UNCHANGED <<active, metadataVars, valueVars, selectionVars, acquisitionVars,
                    exchangeVars, documentVars, runnerVars, maintenanceVars, catalogVars>>
  \/ /\ active = "selection" /\ SelectionNext
     /\ UNCHANGED <<active, metadataVars, valueVars, encodingVars, acquisitionVars,
                    exchangeVars, documentVars, runnerVars, maintenanceVars, catalogVars>>
  \/ /\ active = "acquisition" /\ AcquisitionNext
     /\ UNCHANGED <<active, metadataVars, valueVars, encodingVars, selectionVars,
                    exchangeVars, documentVars, runnerVars, maintenanceVars, catalogVars>>
  \/ /\ active = "exchange" /\ ExchangeNext
     /\ UNCHANGED <<active, metadataVars, valueVars, encodingVars, selectionVars,
                    acquisitionVars, documentVars, runnerVars, maintenanceVars, catalogVars>>
  \/ /\ active = "documents" /\ DocumentsNext
     /\ UNCHANGED <<active, metadataVars, valueVars, encodingVars, selectionVars,
                    acquisitionVars, exchangeVars, runnerVars, maintenanceVars, catalogVars>>
  \/ /\ active = "runner" /\ RunnerNext
     /\ UNCHANGED <<active, metadataVars, valueVars, encodingVars, selectionVars,
                    acquisitionVars, exchangeVars, documentVars, maintenanceVars, catalogVars>>
  \/ /\ active = "maintenance" /\ MaintenanceNext
     /\ UNCHANGED <<active, metadataVars, valueVars, encodingVars, selectionVars,
                    acquisitionVars, exchangeVars, documentVars, runnerVars, catalogVars>>
  \/ /\ active = "catalog" /\ CatalogNext
     /\ UNCHANGED <<active, metadataVars, valueVars, encodingVars, selectionVars,
                    acquisitionVars, exchangeVars, documentVars, runnerVars, maintenanceVars>>

sumVars == <<active, metadataVars, valueVars, encodingVars, selectionVars, acquisitionVars,
             exchangeVars, documentVars, runnerVars, maintenanceVars, catalogVars>>

\* AcquisitionFairness and RunnerFairness, each of the component that runs.
Fairness ==
  /\ \A a \in Acquirers : WF_acquisitionVars(active = "acquisition" /\ AcquisitionStep(a))
  /\ WF_runnerVars(active = "runner" /\ SupervisorStep)

Spec == Init /\ [][Next]_sumVars /\ Fairness

\* The type invariants of the components; those of ParameterValues and Catalog
\* also say that no expect call and no constraint of a table can fail.
ComponentsTypeOK ==
  /\ MetadataTypeOK /\ ValuesTypeOK /\ EncodingTypeOK /\ SelectionTypeOK
  /\ AcquisitionTypeOK /\ ExchangeTypeOK /\ DocumentsTypeOK /\ RunnerTypeOK
  /\ MaintenanceTypeOK /\ CatalogTypeOK

=============================================================================
