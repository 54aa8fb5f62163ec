------------------------ MODULE ConfigurationEncoding ------------------------
(***************************************************************************)
(* The configuration encodings of src/configuration_encoding.rs: Onshape's *)
(* name for one typed parameter selection of one source, kept in the       *)
(* configuration_encodings table with the evidence it was obtained by.     *)
(*                                                                         *)
(* One selection of one catalog version is followed.  The source hash, the *)
(* config hash and the context hash are injective in the microversion the  *)
(* version resolved to, so that microversion is the key of a row.  Fresh   *)
(* is what Onshape answers for the version; the alias table of an earlier  *)
(* time may hold another one.  The evidence of a row is kept as what the   *)
(* validator sees of it: whether the stored context and request are the    *)
(* expected ones, and the response.                                        *)
(***************************************************************************)
EXTENDS Absence, FiniteSets, Naturals

CONSTANTS
  Callers,     \* request handlers, jobs and planners
  Micros,      \* microversions, the keys of the table
  Fresh,       \* the one Onshape resolves the version to
  Ids,         \* encodedId values Onshape may answer with, well formed
  Queries,     \* queryParam values, well formed
  MaxClears    \* bound: deploy maintenance with reset_generated_state

Response == [id : Ids \cup {None}, query : Queries \cup {None}]
\* None is a missing row, and an ill-formed or missing field of a response.
Row == [context : BOOLEAN, request : BOOLEAN, response : Response,
        id : Ids, query : Queries \cup {None}]
Handoff == [key : Micros, id : Ids]

ASSUME EncodingAssumption ==
  /\ Fresh \in Micros
  /\ None \notin Ids \cup Queries /\ None \notin Row
  /\ MaxClears \in Nat

VARIABLES
  rows,        \* configuration_encodings
  selections,  \* configuration_selections: None, "typed" or "damaged"
  callPc, op,      \* per caller: step and operation
  key,         \* per caller: the key it works on
  bound,       \* per caller: the key its hashes are bound to, or None
  response,    \* per caller: the answer of encode
  handoff,     \* per planner: the handoff it validates
  issued,      \* handoffs given out since the tables were last cleared
  exported,    \* <<key, id, query>> given to exports since then
  accepted,    \* handoffs validate_handoff accepted since then
  retired,     \* handoffs given out before that
  encoded,     \* keys encode was ever called for
  clears

caller == <<callPc, op, key, bound, response, handoff>>
given == <<issued, exported, accepted, retired>>
encodingVars == <<rows, selections, caller, given, encoded, clears>>

OneColumnOff(r) ==
  LET off == {c \in {"context", "request", "id", "query"} :
                \/ c = "context" /\ ~ r.context
                \/ c = "request" /\ ~ r.request
                \/ c = "id" /\ r.response.id # r.id
                \/ c = "query" /\ r.response.query # r.query}
  IN Cardinality(off) <= 1

EncodingInit ==
  \* What a restored or edited database may hold: an encoding, damaged in one
  \* of its columns or not at all.
  /\ rows \in [Micros -> {None} \cup {r \in Row : OneColumnOff(r)}]
  /\ Cardinality({k \in Micros : rows[k] # None}) <= 1
  /\ selections \in [Micros -> {None, "typed", "damaged"}]
  /\ callPc = [c \in Callers |-> "idle"]
  /\ op = [c \in Callers |-> None]
  /\ key = [c \in Callers |-> None]
  /\ bound = [c \in Callers |-> None]
  /\ response = [c \in Callers |-> None]
  /\ handoff = [c \in Callers |-> None]
  /\ issued = {} /\ exported = {} /\ accepted = {} /\ retired = {}
  /\ encoded = {}
  /\ clears = 0

-----------------------------------------------------------------------------
CallGoto(c, step) == callPc' = [callPc EXCEPT ![c] = step]

Return(c) ==
  /\ callPc' = [callPc EXCEPT ![c] = "idle"]
  /\ op' = [op EXCEPT ![c] = None]
  /\ key' = [key EXCEPT ![c] = None]
  /\ bound' = [bound EXCEPT ![c] = None]
  /\ response' = [response EXCEPT ![c] = None]
  /\ handoff' = [handoff EXCEPT ![c] = None]

require_query(c) == op[c] = "export"

\* response_identity: the encoded id must be well formed, the query parameter
\* too when the caller needs it.
response_identity(r, require) ==
  r.id # None /\ (require => r.query # None)

\* Mutant: the stored evidence is not compared with the expected one.
ValidateColumnsOnly(row, require) == require => row.query # None

\* validate_record: the stored context, hashes and request are the expected
\* ones and the columns are those of the stored response.
validate_record(row, require) ==
  /\ row.context /\ row.request
  /\ response_identity(row.response, require)
  /\ row.id = row.response.id
  /\ require => row.query = row.response.query

Issue(c, k) ==
  /\ issued' = issued \cup {[key |-> k, id |-> rows[k].id]}
  /\ exported' = IF require_query(c)
                   THEN exported \cup {<<k, rows[k].id, rows[k].query>>}
                   ELSE exported
  /\ UNCHANGED <<accepted, retired>>

\* retain_typed_selection: insert if absent, then read back and compare.
Retain(k) ==
  selections' = [selections EXCEPT ![k] = IF @ = None THEN "typed" ELSE @]

Retained(k) == selections[k] \in {None, "typed"}

-----------------------------------------------------------------------------
(* The callers.                                                            *)

\* The planner's acquisition calls resolve: nothing is bound yet.
BeginResolve(c) ==
  /\ callPc[c] = "idle"
  /\ op' = [op EXCEPT ![c] = "resolve"]
  /\ CallGoto(c, "version")
  /\ UNCHANGED <<rows, selections, key, bound, response, handoff, given, encoded, clears>>

\* resolve_configuration_encoding of an export: bound to the hashes of the
\* caller's source, k.  The alias table may have no row for the version, and
\* then the coordinator is entered at once.
BeginExport(c, k) ==
  /\ callPc[c] = "idle"
  /\ op' = [op EXCEPT ![c] = "export"]
  /\ bound' = [bound EXCEPT ![c] = k]
  /\ key' = [key EXCEPT ![c] = k]
  /\ \E step \in {"cached", "version"} : CallGoto(c, step)
  /\ UNCHANGED <<rows, selections, response, handoff, given, encoded, clears>>

\* The row of key k was found: validate it, retain the selection, hand it out.
Reuse(c, k) ==
  /\ rows[k] # None
  /\ \/ /\ ~ validate_record(rows[k], require_query(c))
        /\ Return(c)
        /\ UNCHANGED <<selections, given>>
     \/ /\ validate_record(rows[k], require_query(c))
        /\ Retain(k)
        /\ IF Retained(k)
             THEN Issue(c, k) /\ Return(c)
             ELSE Return(c) /\ UNCHANGED given
  /\ UNCHANGED <<rows, encoded, clears>>

\* resolve_for_export: valid evidence is reused without a fresh version read,
\* a true miss enters the coordinator.
resolve_for_export(c) ==
  /\ callPc[c] = "cached"
  /\ \/ Reuse(c, key[c])
     \/ /\ rows[key[c]] = None
        /\ CallGoto(c, "version")
        /\ UNCHANGED <<rows, selections, op, key, bound, response, handoff,
                       given, encoded, clears>>

\* Mutant: the binding to the caller's hashes is not checked, and the caller's
\* key is kept.
ResolveVersionUnchecked(c) ==
  /\ callPc[c] = "version"
  /\ key' = [key EXCEPT ![c] = IF bound[c] = None THEN Fresh ELSE bound[c]]
  /\ CallGoto(c, "probe")
  /\ UNCHANGED <<op, bound, response, handoff>>
  /\ UNCHANGED <<rows, selections, given, encoded, clears>>

\* resolve_inner: the version is resolved at Onshape, and hashes the caller is
\* bound to must be those of the answer.
resolve_version(c) ==
  /\ callPc[c] = "version"
  /\ \/ /\ bound[c] \in {None, Fresh}
        /\ key' = [key EXCEPT ![c] = Fresh]
        /\ CallGoto(c, "probe")
        /\ UNCHANGED <<op, bound, response, handoff>>
     \/ Return(c)
  /\ UNCHANGED <<rows, selections, given, encoded, clears>>

Probe(c) ==
  /\ callPc[c] = "probe"
  /\ \/ Reuse(c, key[c])
     \/ /\ rows[key[c]] = None
        /\ CallGoto(c, "encode")
        /\ UNCHANGED <<rows, selections, op, key, bound, response, handoff,
                       given, encoded, clears>>

\* api.encode, checked by the validator of stored rows before any write.
encode(c) ==
  /\ callPc[c] = "encode"
  /\ encoded' = encoded \cup {key[c]}
  /\ \/ \E r \in Response :
          /\ response_identity(r, require_query(c))
          /\ response' = [response EXCEPT ![c] = r]
          /\ CallGoto(c, "retain")
          /\ UNCHANGED <<op, key, bound, handoff>>
     \/ Return(c)
  /\ UNCHANGED <<rows, selections, given, clears>>

retain_typed_selection(c) ==
  /\ callPc[c] = "retain"
  /\ Retain(key[c])
  /\ IF Retained(key[c])
       THEN CallGoto(c, "insert") /\ UNCHANGED <<op, key, bound, response, handoff>>
       ELSE Return(c)
  /\ UNCHANGED <<rows, given, encoded, clears>>

NewRow(c) == [context |-> TRUE, request |-> TRUE, response |-> response[c],
              id |-> response[c].id, query |-> response[c].query]

\* Mutant: the last writer wins.
InsertOrReplace(c) ==
  /\ callPc[c] = "insert"
  /\ rows' = [rows EXCEPT ![key[c]] = NewRow(c)]
  /\ issued' = issued \cup {[key |-> key[c], id |-> response[c].id]}
  /\ exported' = IF require_query(c)
                   THEN exported \cup {<<key[c], response[c].id, response[c].query>>}
                   ELSE exported
  /\ Return(c)
  /\ UNCHANGED <<accepted, retired, selections, encoded, clears>>

\* ON CONFLICT DO NOTHING; the caller is told whether its row went in.
insert_configuration_encoding_if_absent(c) ==
  /\ callPc[c] = "insert"
  /\ \/ /\ rows[key[c]] = None
        /\ rows' = [rows EXCEPT ![key[c]] = NewRow(c)]
        /\ issued' = issued \cup {[key |-> key[c], id |-> response[c].id]}
        /\ exported' = IF require_query(c)
                         THEN exported \cup {<<key[c], response[c].id, response[c].query>>}
                         ELSE exported
        /\ Return(c)
        /\ UNCHANGED <<accepted, retired>>
     \/ /\ rows[key[c]] # None
        /\ CallGoto(c, "winner")
        /\ UNCHANGED <<rows, op, key, bound, response, handoff, given>>
  /\ UNCHANGED <<selections, encoded, clears>>

\* Mutant: the loser of the race returns its own answer.
WinnerIgnored(c) ==
  /\ callPc[c] = "winner"
  /\ issued' = issued \cup {[key |-> key[c], id |-> response[c].id]}
  /\ Return(c)
  /\ UNCHANGED <<exported, accepted, retired>>
  /\ UNCHANGED <<rows, selections, encoded, clears>>

\* Another caller inserted first: its evidence counts, and ours must agree
\* with it.
Winner(c) ==
  /\ callPc[c] = "winner"
  /\ LET row == rows[key[c]] IN
       IF /\ validate_record(row, require_query(c))
          /\ row.id = response[c].id
          /\ require_query(c) => row.query = response[c].query
         THEN Issue(c, key[c]) /\ Return(c)
         ELSE Return(c) /\ UNCHANGED given
  /\ UNCHANGED <<rows, selections, encoded, clears>>

\* lookup, for status pages: it neither repairs nor encodes, and a missing or
\* damaged row gives nothing out.
lookup(c, k) ==
  /\ callPc[c] = "idle"
  /\ rows[k] # None /\ selections[k] = "typed" /\ validate_record(rows[k], TRUE)
  /\ exported' = exported \cup {<<k, rows[k].id, rows[k].query>>}
  /\ UNCHANGED <<issued, accepted, retired>>
  /\ UNCHANGED <<rows, selections, caller, encoded, clears>>

\* validate_handoff: a planner presents a handoff of this or an earlier time.
\* The typed values are read first, and without them it is refused; the row is
\* read in a later step.
BeginValidate(c, h) ==
  /\ callPc[c] = "idle"
  /\ h \in issued \cup retired
  /\ selections[h.key] = "typed"
  /\ handoff' = [handoff EXCEPT ![c] = h]
  /\ CallGoto(c, "validate")
  /\ UNCHANGED <<rows, selections, op, key, bound, response, given, encoded, clears>>

\* Mutant: any row of the key backs the handoff.
ValidateAnyRow(c) ==
  /\ callPc[c] = "validate"
  /\ IF rows[handoff[c].key] # None /\ validate_record(rows[handoff[c].key], FALSE)
       THEN /\ Return(c)
            /\ accepted' = accepted \cup {handoff[c]}
            /\ UNCHANGED <<issued, exported, retired>>
       ELSE Return(c) /\ UNCHANGED given
  /\ UNCHANGED <<rows, selections, encoded, clears>>

validate_handoff(c) ==
  /\ callPc[c] = "validate"
  /\ LET row == rows[handoff[c].key] IN
       IF row # None /\ validate_record(row, FALSE) /\ row.id = handoff[c].id
         THEN /\ Return(c)
              /\ accepted' = accepted \cup {handoff[c]}
              /\ UNCHANGED <<issued, exported, retired>>
         ELSE Return(c) /\ UNCHANGED given
  /\ UNCHANGED <<rows, selections, encoded, clears>>

\* clear_generated_state, run while the machine is quiesced.
ClearEncodings ==
  /\ clears < MaxClears
  /\ \A c \in Callers : callPc[c] = "idle"
  /\ clears' = clears + 1
  /\ rows' = [k \in Micros |-> None]
  /\ selections' = [k \in Micros |-> None]
  /\ retired' = retired \cup issued
  /\ issued' = {} /\ exported' = {} /\ accepted' = {}
  /\ UNCHANGED <<caller, encoded>>

EncodingNext ==
  \/ \E c \in Callers :
       \/ BeginResolve(c)
       \/ \E k \in Micros : BeginExport(c, k) \/ lookup(c, k)
       \/ resolve_for_export(c) \/ resolve_version(c) \/ Probe(c) \/ encode(c)
       \/ retain_typed_selection(c)
       \/ insert_configuration_encoding_if_absent(c) \/ Winner(c)
       \/ \E h \in Handoff : BeginValidate(c, h)
       \/ validate_handoff(c)
  \/ ClearEncodings

EncodingSpec == EncodingInit /\ [][EncodingNext]_encodingVars

-----------------------------------------------------------------------------
\* The configuration_encodings table and the steps of resolve_for_export and
\* validate_handoff are well formed; what is retained is a response that passed.
EncodingTypeOK ==
  /\ rows \in [Micros -> Row \cup {None}]
  /\ selections \in [Micros -> {None, "typed", "damaged"}]
  /\ callPc \in [Callers -> {"idle", "cached", "version", "probe", "encode", "retain",
                         "insert", "winner", "validate"}]
  /\ op \in [Callers -> {None, "resolve", "export"}]
  /\ key \in [Callers -> Micros \cup {None}]
  /\ bound \in [Callers -> Micros \cup {None}]
  /\ response \in [Callers -> Response \cup {None}]
  /\ handoff \in [Callers -> Handoff \cup {None}]
  /\ issued \subseteq Handoff /\ accepted \subseteq Handoff /\ retired \subseteq Handoff
  /\ exported \subseteq Micros \X Ids \X (Queries \cup {None})
  /\ encoded \subseteq Micros
  /\ clears \in 0..MaxClears

\* Every encoding given out is the one in the table, so all callers of a key
\* hold the same encoded id and all exports the same query parameter, though
\* two of them may miss at once and Onshape may answer each differently.
GivenOutIsStored ==
  /\ \A h \in issued : rows[h.key] # None /\ rows[h.key].id = h.id
  /\ \A e \in exported : rows[e[1]] # None /\ rows[e[1]].id = e[2] /\ rows[e[1]].query = e[3]

\* A handoff a planner may go on with is backed by valid evidence in the
\* table; one that was given out before the tables were cleared is not,
\* unless Onshape encoded the same id again.
AcceptedIsBacked ==
  \A h \in accepted :
    /\ rows[h.key] # None /\ validate_record(rows[h.key], FALSE)
    /\ rows[h.key].id = h.id
    /\ selections[h.key] = "typed"

\* "A true miss still enters the fresh coordinator; invalid evidence never
\* does": nothing is given out for a key with damaged evidence.
DamagedEvidenceIsRefused ==
  \A h \in issued : rows[h.key].context /\ rows[h.key].request

\* Only the microversion Onshape resolves the version to is ever encoded,
\* whatever the alias table held when the export began.
OnlyFreshIsEncoded == encoded \subseteq {Fresh}

\* Every export and every planner works with the one encoding that is in the
\* table, whose evidence is whole and which is of the fresh microversion.
EncodingsAgree ==
  /\ GivenOutIsStored
  /\ AcceptedIsBacked
  /\ DamagedEvidenceIsRefused
  /\ OnlyFreshIsEncoded

=============================================================================
