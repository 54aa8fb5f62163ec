---------------------------- MODULE ParameterValues ----------------------------
(***************************************************************************)
(* Parameters of a model and the values submitted for them (parameters.rs, *)
(* and the form in main.rs): a raw parameter is normalised, a submitted    *)
(* text is validated and made canonical, a queued job validates the        *)
(* normalised text again, and the form rendered for a text is posted back. *)
(*                                                                         *)
(* A text is a word, or a decimal number with or without a unit: digits    *)
(* over 10^scale.  Blanks, a plus sign and leading zeros are left out.     *)
(* One schema parameter and one unknown name stand for a submission.       *)
(***************************************************************************)
EXTENDS Absence, Integers, Sequences, FiniteSets

CONSTANTS
  RawParameters,   \* parameters as Onshape describes them
  SubmittedTexts,  \* texts a client may send
  RawConditions    \* visibility conditions as Onshape describes them

VARIABLES
  parameter,       \* normalised parameter, or None
  condition,       \* [raw, normalized] visibility condition
  first, second,   \* submissions and what validate_values made of them, or None
  requeued,        \* what the job made of the normalised values of first, or None
  reposted         \* what the form rendered for first makes when posted back

valueVars == <<parameter, condition, first, second, requeued, reposted>>

ValuesInit ==
  /\ parameter = None /\ condition = None
  /\ first = None /\ second = None /\ requeued = None /\ reposted = None

-----------------------------------------------------------------------------
(* Decimal texts and rationals *)

Word(w) == [word |-> w, negative |-> FALSE, digits |-> 0, scale |-> 0, unit |-> None]
Empty == Word("")
Decimal(n, d, s) == [word |-> None, negative |-> n, digits |-> d, scale |-> s, unit |-> None]

gcd[a \in Nat, b \in Nat] == IF b = 0 THEN a ELSE gcd[b, a % b]

Abs(n) == IF n < 0 THEN -n ELSE n

rational(n, d) == LET g == gcd[Abs(n), d] IN [num |-> (IF n < 0 THEN -1 ELSE 1) * (Abs(n) \div g),
                                              den |-> d \div g]

parse_decimal_rational(t) ==
  IF t.word # None \/ t.unit # None THEN None
  ELSE rational((IF t.negative THEN -1 ELSE 1) * t.digits, 10 ^ t.scale)

\* What remains of a denominator without its factors 2 and 5.
stripped[d \in Nat \ {0}] ==
  IF d % 2 = 0 THEN stripped[d \div 2] ELSE IF d % 5 = 0 THEN stripped[d \div 5] ELSE d

\* Long division; a denominator with another factor has no decimal.
rational_decimal_string(q) ==
  LET expand[r \in Nat, d \in Nat, s \in Nat] ==
        IF r = 0 THEN Decimal(q.num < 0, d, s)
        ELSE expand[(10 * r) % q.den, 10 * d + (10 * r) \div q.den, s + 1]
  IN  IF stripped[q.den] # 1 THEN None
      ELSE expand[Abs(q.num) % q.den, Abs(q.num) \div q.den, 0]

\* Mutant: an inch is a rounded number of meters.
RoundedMeters == [mm |-> <<1, 1000>>, cm |-> <<1, 100>>, m |-> <<1, 1>>,
                  in |-> <<10, 393>>, ft |-> <<381, 1250>>]

length_meters_factor == [mm |-> <<1, 1000>>, cm |-> <<1, 100>>, m |-> <<1, 1>>,
                         in |-> <<127, 5000>>, ft |-> <<381, 1250>>]

Lengths == {"mm", "cm", "m", "in", "ft"}
Angles == {"deg", "rad"}
UnitOptions(u) == IF u \in Lengths THEN Lengths ELSE Angles

\* Number and unit of a text, or None; a bare number has the default unit.
parse_quantity(t, default) ==
  LET u == IF t.unit = None THEN default ELSE t.unit
      q == parse_decimal_rational([t EXCEPT !.unit = None])
  IN  IF q = None \/ u \notin UnitOptions(default) THEN None ELSE [value |-> q, unit |-> u]

\* Mutant: lengths stay in the unit they were given in.
KeepUnit(q) == q

\* canonical_quantity_value: lengths in meters, angles as they are.
canonical_quantity_value(q) ==
  IF q.unit \in Lengths
    THEN [value |-> rational(q.value.num * length_meters_factor[q.unit][1],
                             q.value.den * length_meters_factor[q.unit][2]), unit |-> "m"]
    ELSE q

-----------------------------------------------------------------------------
(* normalize_parameter *)

OneOf(t, words) == t.word \in words
SpelledBool(t) == OneOf(t, {"true", "false", "on"}) \/ t \in {Decimal(FALSE, 0, 0), Decimal(FALSE, 1, 0)}

\* normalize_default_value: an integer loses its decimals.
normalize_default_value(t, integer) ==
  LET q == parse_decimal_rational(t)
  IN  IF t # None /\ integer /\ q # None /\ q.den = 1 THEN rational_decimal_string(q) ELSE t

normalize_parameter(raw) ==
  LET default == IF raw.default = None THEN None ELSE normalize_default_value(raw.default, raw.integer)
      kind == CASE raw.options # <<>> -> "enum"
                [] raw.options = <<>> /\ (raw.hint = "bool" \/ raw.boolean) -> "boolean"
                [] raw.options = <<>> /\ ~ (raw.hint = "bool" \/ raw.boolean)
                     /\ (\/ raw.hint = "number"
                         \/ default # None /\ parse_decimal_rational(default) # None) -> "number"
                [] OTHER -> IF raw.hint = "text" /\ raw.options = <<>> /\ ~ raw.boolean
                            THEN "text" ELSE "unsupported"
  IN  [kind |-> kind, default |-> default, options |-> raw.options, units |-> raw.units,
       required |-> raw.required, hidden |-> raw.hidden]

known_unit(p) == p.units \in Lengths \cup Angles

-----------------------------------------------------------------------------
(* validate_values *)

Error == [error |-> TRUE]
Entry(typed, value) == [typed |-> typed, value |-> value]

\* Mutant: the normalised text has no unit.
DimensionedWithoutUnit(p, t) ==
  LET q == parse_quantity(t, p.units)
      c == canonical_quantity_value(q)
  IN  IF ~ known_unit(p) \/ q = None THEN Error
      ELSE Entry([kind |-> "quantity", value |-> c.value, unit |-> c.unit],
                 rational_decimal_string(c.value))

canonicalize_dimensioned_number(p, t) ==
  LET q == parse_quantity(t, p.units)
      c == canonical_quantity_value(q)
      text == rational_decimal_string(c.value)
  IN  IF ~ known_unit(p) \/ q = None THEN Error
      ELSE Entry([kind |-> "quantity", value |-> c.value, unit |-> c.unit],
                 IF text = None THEN None ELSE [text EXCEPT !.unit = c.unit])

canonicalize_unitless_number(t) ==
  LET q == parse_decimal_rational(t)
  IN  IF q = None THEN Error
      ELSE Entry([kind |-> "number", value |-> q], rational_decimal_string(q))

normalize_bool(t) ==
  IF OneOf(t, {"on"}) \/ t = Decimal(FALSE, 1, 0) THEN Word("true")
  ELSE IF t = Decimal(FALSE, 0, 0) THEN Word("false") ELSE t

Canonical(p, t) ==
  CASE p.kind = "text" -> Entry([kind |-> "text", value |-> t], t)
    [] p.kind = "number" -> IF p.units # None THEN canonicalize_dimensioned_number(p, t)
                                              ELSE canonicalize_unitless_number(t)
    [] p.kind = "boolean" -> IF SpelledBool(t)
                               THEN Entry([kind |-> "boolean", value |-> normalize_bool(t)], normalize_bool(t))
                               ELSE Error
    [] p.kind = "enum" -> IF \E i \in DOMAIN p.options : p.options[i] = t
                            THEN Entry([kind |-> "enum", value |-> t], t) ELSE Error
    [] p.kind = "unsupported" -> Error

\* An empty text counts as missing, and the default stands in.
GivenText(p, t) == IF t \notin {None, Empty} THEN t ELSE p.default

\* What becomes of the parameter ("p") and of a name the schema does not know.
validate_values(p, submitted, allow_unknown) ==
  LET given == GivenText(p, submitted.p)
      mine == CASE p.kind = "unsupported" -> Error
                [] p.kind # "unsupported" /\ given # None -> Canonical(p, given)
                [] OTHER -> IF p.required THEN Error ELSE None
      unknown == IF submitted.other \in {None, Empty} \/ ~ allow_unknown THEN None
                 ELSE Entry([kind |-> "text", value |-> submitted.other], submitted.other)
  IN  IF mine = Error \/ (submitted.other # None /\ ~ allow_unknown) THEN Error
      ELSE [p |-> mine, other |-> unknown]

Values(result) ==
  [p |-> IF result.p = None THEN None ELSE result.p.value,
   other |-> IF result.other = None THEN None ELSE result.other.value]

Typed(result) ==
  [p |-> IF result.p = None THEN None ELSE result.p.typed,
   other |-> IF result.other = None THEN None ELSE result.other.typed]

-----------------------------------------------------------------------------
(* The form *)

\* display_value: a decimal default gets the unit of the parameter.
configuration_value(p, t) ==
  LET q == parse_decimal_rational(t)
  IN  IF q = None THEN t
      ELSE [rational_decimal_string(q) EXCEPT !.unit = IF known_unit(p) THEN p.units ELSE None]

Displayed(p, values) ==
  IF values.p # None THEN values.p
  ELSE IF p.default # None THEN configuration_value(p, p.default) ELSE Empty


split_quantity_display_value(p, t) ==
  [value |-> [t EXCEPT !.unit = None], unit |-> IF t.unit = None THEN p.units ELSE t.unit]

\* What a browser posts for the unchanged control of the parameter; a select
\* without a selected option posts its first one.
Control(p, t) ==
  CASE p.hidden \/ p.kind = "unsupported" -> None
    [] ~ p.hidden /\ p.kind = "boolean" ->
         IF OneOf(t, {"true", "on"}) \/ t = Decimal(FALSE, 1, 0) THEN Word("true") ELSE Word("false")
    [] ~ p.hidden /\ p.kind = "enum" ->
         IF \E i \in DOMAIN p.options : p.options[i] = t THEN t ELSE p.options[1]
    [] ~ p.hidden /\ p.kind = "number" /\ known_unit(p) ->
         LET s == split_quantity_display_value(p, t)
         IN  IF s.value = Empty THEN None
             ELSE [s.value EXCEPT !.unit = IF s.unit \in UnitOptions(p.units) THEN s.unit
                                           ELSE IF p.units \in Lengths THEN "mm" ELSE "deg"]
    [] ~ p.hidden /\ p.kind = "number" /\ ~ known_unit(p) ->
         IF parse_decimal_rational(t) = None THEN Empty ELSE t
    [] OTHER -> t

\* normalize_form_values of the posted controls.  Only the parameters of the
\* schema have one.
Posted(p, values) == [p |-> Control(p, Displayed(p, values)), other |-> None]

-----------------------------------------------------------------------------
(* Visibility conditions: [op, children], [parameter, values], or an empty   *)
(* or unreadable message.  Three levels are enough for what Onshape sends.   *)
(* The conditions that are kept of a list are a set: all or any of them must *)
(* hold, in whatever order.                                                  *)

Bad == [kind |-> "bad"]
Always == [kind |-> "always"]

Kept(children) == {children[i] : i \in DOMAIN children} \ {Always}

\* Mutant: a child that is always visible is dropped from an OR, too.
LogicalDropsVisible(op, children) ==
  IF \E i \in DOMAIN children : children[i] = Bad THEN Bad
  ELSE IF Kept(children) = {} THEN Always
  ELSE IF op = "AND" THEN [kind |-> "all", conditions |-> Kept(children)]
  ELSE IF op = "OR" THEN [kind |-> "any", conditions |-> Kept(children)]
  ELSE Bad

\* normalize_logical_visibility_condition over normalised children, which are
\* read in order: an OR ends at the first that is always visible.
Logical(op, children) ==
  LET visible(i) == children[i] = Always /\ \A j \in DOMAIN children : j <= i => children[j] # Bad
  IN  IF op = "OR" /\ \E i \in DOMAIN children : visible(i) THEN Always
      ELSE IF \E i \in DOMAIN children : children[i] = Bad THEN Bad
      ELSE IF Kept(children) = {} THEN Always
      ELSE IF op = "AND" THEN [kind |-> "all", conditions |-> Kept(children)]
      ELSE IF op = "OR" THEN [kind |-> "any", conditions |-> Kept(children)]
      ELSE Bad

normalize_leaf(c) ==
  CASE c.kind = "empty" -> Always
    [] c.kind = "equal" -> IF c.values = <<>> THEN Bad ELSE c
    [] OTHER -> Bad

normalize_logical(c) == Logical(c.op, [i \in DOMAIN c.children |-> normalize_leaf(c.children[i])])

normalize_inner(c) == IF c.kind = "logical" THEN normalize_logical(c) ELSE normalize_leaf(c)

\* An unreadable condition is dropped: the parameter is shown.
normalize_visibility_condition(c) ==
  LET n == IF c.kind = "logical"
             THEN Logical(c.op, [i \in DOMAIN c.children |-> normalize_inner(c.children[i])])
             ELSE normalize_leaf(c)
  IN  IF n = Bad THEN Always ELSE n

normalizeParameterValue(value) ==
  IF value \in {"on", "1"} THEN "true" ELSE IF value = "0" THEN "false" ELSE value

\* evaluateVisibilityCondition of the page, for a form in which the controls of
\* the parameters hold v; None is parameterValue's undefined, for a parameter
\* that is hidden or unknown and has no control.
EvaluateLeaf(c, v) ==
  c.kind = "equal" =>
    \/ c.values = <<>> \/ v[c.parameter] = None
    \/ \E i \in DOMAIN c.values :
         normalizeParameterValue(c.values[i]) = normalizeParameterValue(v[c.parameter])
EvaluateInner(c, v) ==
  CASE c.kind = "all" -> \A x \in c.conditions : EvaluateLeaf(x, v)
    [] c.kind = "any" -> c.conditions = {} \/ \E x \in c.conditions : EvaluateLeaf(x, v)
    [] OTHER -> EvaluateLeaf(c, v)
evaluateVisibilityCondition(c, v) ==
  CASE c.kind = "all" -> \A x \in c.conditions : EvaluateInner(x, v)
    [] c.kind = "any" -> c.conditions = {} \/ \E x \in c.conditions : EvaluateInner(x, v)
    [] OTHER -> EvaluateInner(c, v)

-----------------------------------------------------------------------------
load_parameter ==
  /\ parameter = None /\ condition = None
  /\ \E raw \in RawParameters : parameter' = normalize_parameter(raw)
  /\ UNCHANGED <<condition, first, second, requeued, reposted>>

\* The visibility condition of a parameter, on its own.
load_condition ==
  /\ parameter = None /\ condition = None
  /\ \E c \in RawConditions : condition' = [raw |-> c, normalized |-> normalize_visibility_condition(c)]
  /\ UNCHANGED <<parameter, first, second, requeued, reposted>>

Submission(t, o, allow) ==
  [submitted |-> [p |-> t, other |-> o], allow |-> allow,
   result |-> validate_values(parameter, [p |-> t, other |-> o], allow)]

submit(t, o, allow) ==
  /\ parameter # None /\ first = None
  /\ first' = Submission(t, o, allow)
  /\ UNCHANGED <<parameter, condition, second, requeued, reposted>>

\* Another client submits for the same model.
submit_again(t) ==
  /\ first # None /\ first.result # Error /\ second = None
  /\ second' = Submission(t, None, first.allow)
  /\ UNCHANGED <<parameter, condition, first, requeued, reposted>>

\* execute_job validates the values of the job once more.
execute_export_job ==
  /\ first # None /\ first.result # Error /\ requeued = None
  /\ requeued' = validate_values(parameter, Values(first.result), first.allow)
  /\ UNCHANGED <<parameter, condition, first, second, reposted>>

\* The page rendered with the submitted values is posted back unchanged.
post_form ==
  /\ first # None /\ first.result # Error /\ reposted = None
  /\ reposted' = validate_values(parameter, Posted(parameter, first.submitted), first.allow)
  /\ UNCHANGED <<parameter, condition, first, second, requeued>>

NextModelPage ==
  /\ parameter # None \/ condition # None
  /\ parameter' = None /\ condition' = None
  /\ first' = None /\ second' = None /\ requeued' = None /\ reposted' = None

ValuesNext ==
  \/ load_parameter
  \/ load_condition
  \/ \E t \in SubmittedTexts \cup {None}, o \in {None, Word("extra")}, allow \in BOOLEAN : submit(t, o, allow)
  \/ \E t \in SubmittedTexts : submit_again(t)
  \/ execute_export_job
  \/ post_form
  \/ NextModelPage

ValuesSpec == ValuesInit /\ [][ValuesNext]_valueVars

-----------------------------------------------------------------------------
IsText(t) ==
  /\ t.negative \in BOOLEAN /\ t.digits \in Nat /\ t.scale \in Nat
  /\ t.unit \in Lengths \cup Angles \cup {None}
  /\ t.negative => t.digits > 0

\* A submission is refused, or has a text for every value: the expect calls on
\* decimals that do not terminate are never reached.
ValuesTypeOK ==
  /\ parameter # None => parameter.kind \in {"text", "number", "boolean", "enum", "unsupported"}
  /\ first # None /\ first.result # Error =>
       /\ first.result.p # None =>
            /\ first.result.p.value # None
            /\ first.result.p.typed.kind = "quantity" => IsText(first.result.p.value)
       /\ first.result.other # None => first.allow

\* A queued job validates the normalised text of the request again and compares
\* the configuration hash: every accepted submission is a fixed point.
RevalidatedIsSame ==
  requeued # None => requeued # Error /\ Typed(requeued) = Typed(first.result)

\* canonical_quantity_value: two submissions to one parameter share a
\* configuration exactly when they say the same length.
SameLengthSameValue ==
  second # None /\ second.result # Error /\ first.result.p # None /\ second.result.p # None
    /\ parameter.kind = "number" /\ parameter.units \in Lengths =>
    LET Meters(s) == LET t == GivenText(parameter, s.submitted.p)
                         u == IF t.unit = None THEN parameter.units ELSE t.unit
                     IN  [num |-> (IF t.negative THEN -1 ELSE 1) * t.digits * length_meters_factor[u][1],
                          den |-> (10 ^ t.scale) * length_meters_factor[u][2]]
        a == Meters(first) b == Meters(second)
    IN  (first.result.p.typed = second.result.p.typed)
          <=> rational(a.num, a.den) = rational(b.num, b.den)

\* Missing values the page shows as the default that stands in for them: no
\* respelled option, no control that posts a value nobody gave, and no empty
\* text for a control that never posts one.
DefaultIsShown ==
  parameter.kind \in {"enum", "boolean"} =>
    /\ parameter.default # None /\ first.submitted.p = None
    /\ parameter.kind = "enum" => configuration_value(parameter, parameter.default) = parameter.default

\* render_parameter_controls_with_values and normalize_form_values: a page that
\* shows a submission and is posted back unchanged asks for the same value of
\* the parameter, and for the same configuration exactly when the submission
\* had no value for a name the schema does not know: the page has no control
\* for one, so a value that allow_unknown accepted does not come back.
FormKeepsConfiguration ==
  reposted # None /\ ~ parameter.hidden
    /\ (first.submitted.p \notin {None, Empty} \/ DefaultIsShown) =>
    /\ reposted # Error
    /\ Typed(reposted).p = Typed(first.result).p
    /\ Typed(reposted) = Typed(first.result) <=> first.result.other = None

\* Two texts of one setting: the same, or spellings of one boolean.
SameSetting(a, b) == a = b \/ {a, b} \subseteq {"true", "on", "1"} \/ {a, b} \subseteq {"false", "0"}

\* What Onshape's condition says of a form, read directly: an equality holds of a
\* parameter that is set to one of the values, and is not held against one that
\* the form has no control for; a list of nothing says nothing.
MeantLeaf(c, v) ==
  \/ c.kind = "empty" \/ v[c.parameter] = None
  \/ \E i \in DOMAIN c.values : SameSetting(c.values[i], v[c.parameter])
MeantInner(c, v) ==
  IF c.kind # "logical" THEN MeantLeaf(c, v)
  ELSE IF c.op = "AND" THEN \A i \in DOMAIN c.children : MeantLeaf(c.children[i], v)
  ELSE DOMAIN c.children = {} \/ \E i \in DOMAIN c.children : MeantLeaf(c.children[i], v)
Meant(c, v) ==
  IF c.kind # "logical" THEN MeantLeaf(c, v)
  ELSE IF c.op = "AND" THEN \A i \in DOMAIN c.children : MeantInner(c.children[i], v)
  ELSE DOMAIN c.children = {} \/ \E i \in DOMAIN c.children : MeantInner(c.children[i], v)

\* Conditions the service reads: known operations and nonempty value lists.
ReadableLeaf(c) == c.kind = "empty" \/ (c.kind = "equal" /\ c.values # <<>>)
ReadableInner(c) ==
  IF c.kind # "logical" THEN ReadableLeaf(c)
  ELSE c.op \in {"AND", "OR"} /\ \A i \in DOMAIN c.children : ReadableLeaf(c.children[i])
Readable(c) ==
  IF c.kind # "logical" THEN ReadableLeaf(c)
  ELSE c.op \in {"AND", "OR"} /\ \A i \in DOMAIN c.children : ReadableInner(c.children[i])

\* What the control of a parameter holds, if it has one.
FormValues == {"true", "on", "1", "false", "0", "large", None}

\* normalize_visibility_condition drops and folds children on the way to the
\* page, and the page compares texts after normalizeParameterValue: what its
\* script decides is what the condition says (as read by Meant), for every state
\* of the form, forms without a control for a parameter included.
VisibilityIsKept ==
  condition # None /\ Readable(condition.raw) =>
    \A v \in [{"p", "q"} -> FormValues] :
      evaluateVisibilityCondition(condition.normalized, v) <=> Meant(condition.raw, v)


=============================================================================
