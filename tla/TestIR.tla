------------------------------- MODULE TestIR -------------------------------
(***************************************************************************)
(* The declarative language in which deterministic tests are written       *)
(* (test-runtime.js): the registry of operations and their ports, the      *)
(* validation of a specification as an acyclic graph of typed ports, the   *)
(* compilation of the older linear form to that graph, and what one step   *)
(* computes or how it fails.                                               *)
(*                                                                         *)
(* A value is a record whose one field names its kind: a file, its bytes,  *)
(* a text, an integer, a list of integers, a truth value or a verdict.     *)
(* Parsers, regular expressions and decimal modes are not spelled out: a   *)
(* file says whether it decodes and what its text parses to: a value, or   *)
(* something that is none.                                                 *)
(***************************************************************************)
EXTENDS Integers, Sequences, FiniteSets, SequencesExt

CONSTANTS
    SafeMax,      \* Number.MAX_SAFE_INTEGER
    MaxSteps,     \* LIMITS.maxSteps
    MaxItems      \* LIMITS.maxCollectionItems

ASSUME LimitsArePositive == {SafeMax, MaxSteps, MaxItems} \subseteq Nat \ {0}

(***************************************************************************)
(* The operation registry.                                                 *)
(***************************************************************************)
Op(needs, may, output, type) ==
    [needs |-> needs, may |-> may, output |-> output, type |-> type]

Tolerances == {"absTol", "relTol", "absoluteTolerance", "relativeTolerance"}
Ordered == Op({"actual", "expected"}, {"message"}, "assertion", "ASSERTION")
Reduction == Op({"value"}, {}, "value", "INTEGER")

PORT_CONTRACTS ==
    [LOAD_ARTIFACT |-> Op({"binding"}, {}, "artifact", "ARTIFACT"),
     READ_BYTES |-> Op({"artifact"}, {}, "bytes", "BYTES"),
     DECODE_UTF8 |-> Op({"bytes"}, {}, "text", "STRING"),
     PARSE_JSON |-> Op({"text"}, {}, "value", "VALUE"),
     PARSE_CSV |-> Op({"text", "delimiter", "header", "quote", "newline",
                       "encoding"}, {}, "value", "VALUE"),
     PARSE_XML |-> Op({"text"}, {}, "value", "XML_NODE"),
     SELECT_JSON_PATH |-> Op({"value", "path"}, {}, "selection", "VALUE"),
     SELECT_XML |-> Op({"value", "path"}, {}, "selection", "VALUE"),
     COUNT |-> Op({"value"}, {}, "count", "INTEGER"),
     SUM |-> Reduction, MIN |-> Reduction, MAX |-> Reduction,
     SORT |-> Op({"value"}, {"direction", "domain"}, "value", "VALUE"),
     UNIQUE |-> Op({"value"}, {}, "value", "VALUE"),
     HASH_SHA256 |-> Op({"bytes"}, {}, "sha256", "STRING"),
     REGEX |-> Op({"value", "pattern"}, {}, "match", "BOOLEAN"),
     COMPARE |-> Op({"left", "right"},
                    {"operator", "numericMode"} \cup Tolerances,
                    "comparison", "BOOLEAN"),
     ASSERT_EQ |-> Op({"actual", "expected"},
                      {"numericMode", "message"} \cup Tolerances,
                      "assertion", "ASSERTION"),
     ASSERT_GT |-> Ordered, ASSERT_GTE |-> Ordered,
     ASSERT_LT |-> Ordered, ASSERT_LTE |-> Ordered,
     ASSERT_MATCH |-> Op({"actual", "pattern"}, {"message"},
                         "assertion", "ASSERTION"),
     ASSERT_CONTAINS |-> Ordered, ASSERT_NOT_CONTAINS |-> Ordered,
     ASSERT_SET_EQUAL |-> Ordered,
     BYTE_COMPARE |-> Op({"left", "right"}, {}, "comparison", "BOOLEAN")]

Known == DOMAIN PORT_CONTRACTS
ASSERTION_OPS == {op \in Known : PORT_CONTRACTS[op].type = "ASSERTION"}
AnyType == {PORT_CONTRACTS[op].type : op \in Known}
Internal == {"ARTIFACT", "BYTES", "XML_NODE"}

(* INPUT_PORT_TYPES: the produced types that a port accepts from a step.   *)
Accepts(op, port) ==
    CASE op = "READ_BYTES" -> {"ARTIFACT"}
      [] op \in {"DECODE_UTF8", "HASH_SHA256", "BYTE_COMPARE"} -> {"BYTES"}
      [] op \in {"PARSE_JSON", "PARSE_CSV", "PARSE_XML"} /\ port = "text" ->
           {"STRING"}
      [] op = "SELECT_XML" /\ port = "value" -> {"XML_NODE"}
      [] OTHER -> AnyType

(* The ports whose contract value must be written in the specification.    *)
Settings ==
    {"delimiter", "header", "quote", "newline", "encoding", "path",
     "direction", "domain", "pattern", "flags", "operator", "numericMode"}
        \cup Tolerances

(***************************************************************************)
(* Values, references and specifications.                                  *)
(***************************************************************************)
File(content) == [file |-> content]
Bytes(content) == [bytes |-> content]
Text(content) == [text |-> content]
Number(n) == [int |-> n]
List(s) == [list |-> s]
Truth(b) == [truth |-> b]
Verdict(ok) == [verdict |-> IF ok THEN "SATISFIED" ELSE "VIOLATED"]

Is(value, kind) == DOMAIN value = {kind}
JsonKinds == {"text", "int", "list", "truth"}
IsJson(value) == \E kind \in JsonKinds : Is(value, kind)
Safe(n) == n \in -SafeMax .. SafeMax

Literal(value) == [literal |-> value]
Bound(name) == [bindingRef |-> name]
Output(id, port) == [stepRef |-> id, output |-> port]
Step(id, op, inputs) == [id |-> id, op |-> op, inputs |-> inputs]

(***************************************************************************)
(* Validation of the graph form.                                           *)
(***************************************************************************)
validLiteral(value) ==
    \/ Is(value, "int") /\ Safe(value.int)
    \/ Is(value, "list") /\ Len(value.list) <= MaxItems
                         /\ \A n \in ToSet(value.list) : Safe(n)
    \/ Is(value, "text")
    \/ Is(value, "truth")

(* The value types an operation insists on, both when a literal is         *)
(* validated and when a step has its inputs.                               *)
valueInputType(op, port, value) ==
    /\ port = "text" => Is(value, "text")
    /\ (op = "REGEX" /\ port = "value") \/ (op = "ASSERT_MATCH" /\ port = "actual")
            => Is(value, "text")
    /\ op \in {"SUM", "MIN", "MAX", "SORT", "UNIQUE"} /\ port = "value"
            => Is(value, "list")
    /\ op = "ASSERT_SET_EQUAL" /\ port \in {"actual", "expected"} => Is(value, "list")
    /\ op \in {"ASSERT_CONTAINS", "ASSERT_NOT_CONTAINS"} /\ port = "actual"
            => Is(value, "list") \/ Is(value, "text")
    /\ op = "COUNT" /\ port = "value"
            => Is(value, "list") \/ Is(value, "text") \/ Is(value, "bytes")

PriorSteps(spec, i) == {spec.steps[j] : j \in 1 .. i - 1}

(* Wrong: a step may refer to any step of the specification.               *)
ReferencesAnyStep(spec, i, port, ref) ==
    \E other \in ToSet(spec.steps) :
        /\ other.id = ref.stepRef
        /\ other.op \in Known
        /\ ref.output = PORT_CONTRACTS[other.op].output
        /\ PORT_CONTRACTS[other.op].type \in Accepts(spec.steps[i].op, port)

validStepReference(spec, i, port, ref) ==
    \E prior \in PriorSteps(spec, i) :
        /\ prior.id = ref.stepRef
        /\ prior.op \in Known
        /\ ref.output = PORT_CONTRACTS[prior.op].output
        /\ PORT_CONTRACTS[prior.op].type \in Accepts(spec.steps[i].op, port)

isInputRef(ref) == DOMAIN ref \in {{"literal"}, {"bindingRef"}, {"stepRef", "output"}}

validInput(spec, i, port, declared) ==
    LET op == spec.steps[i].op
        ref == spec.steps[i].inputs[port]
    IN  /\ isInputRef(ref)
        /\ "literal" \in DOMAIN ref =>
              /\ validLiteral(ref.literal)
              /\ valueInputType(op, port, ref.literal)
              /\ Accepts(op, port) \cap Internal = {} \/ Accepts(op, port) = AnyType
        /\ op = "LOAD_ARTIFACT" => "bindingRef" \in DOMAIN ref
        /\ port \in Settings => "literal" \in DOMAIN ref
        /\ "bindingRef" \in DOMAIN ref => ref.bindingRef \in declared
        /\ "stepRef" \in DOMAIN ref => validStepReference(spec, i, port, ref)

validStep(spec, i, declared) ==
    LET step == spec.steps[i]
        ports == DOMAIN step.inputs
    IN  /\ step.id > 0
        /\ \A prior \in PriorSteps(spec, i) : prior.id # step.id
        /\ step.op \in Known
        /\ PORT_CONTRACTS[step.op].needs \subseteq ports
        /\ ports \subseteq PORT_CONTRACTS[step.op].needs
                              \cup PORT_CONTRACTS[step.op].may
        /\ \A port \in ports : validInput(spec, i, port, declared)

validResult(spec) ==
    \E step \in ToSet(spec.steps) :
        /\ step.id = spec.result.stepRef
        /\ step.op \in ASSERTION_OPS
        /\ spec.result.output = PORT_CONTRACTS[step.op].output

validateDagSpec(spec, declared) ==
    /\ Len(spec.steps) \in 1 .. MaxSteps
    /\ \A i \in 1 .. Len(spec.steps) : validStep(spec, i, declared)
    /\ validResult(spec)

(***************************************************************************)
(* The older linear form: each operation works on what the one before it   *)
(* produced.  A step carries the settings of its operation, as literals    *)
(* or, for an artifact or a comparison, as the name of a binding.          *)
(***************************************************************************)
validateLegacySpec(spec, declared) ==
    /\ Len(spec.steps) \in 1 .. MaxSteps
    /\ \E step \in ToSet(spec.steps) : step.op \in ASSERTION_OPS
    /\ \A step \in ToSet(spec.steps) :
          /\ step.op \in Known
          /\ "binding" \in DOMAIN step => step.binding \in declared

LegacyPort(op) ==
    CASE op = "READ_BYTES" -> "artifact"
      [] op \in {"DECODE_UTF8", "HASH_SHA256"} -> "bytes"
      [] op \in {"PARSE_JSON", "PARSE_CSV", "PARSE_XML"} -> "text"
      [] op \in {"COMPARE", "BYTE_COMPARE"} -> "left"
      [] op \in ASSERTION_OPS -> "actual"
      [] OTHER -> "value"

LegacyOperand(old) ==
    IF "binding" \in DOMAIN old THEN Bound(old.binding) ELSE Literal(old.value)

compileInputs(spec, i) ==
    LET old == spec.steps[i]
        prior == Output(i - 1, PORT_CONTRACTS[spec.steps[i - 1].op].output)
    IN  CASE old.op = "LOAD_ARTIFACT" -> [binding |-> Bound(old.binding)]
          [] old.op \in {"COMPARE", "BYTE_COMPARE"} ->
               [left |-> prior, right |-> LegacyOperand(old)]
          [] old.op \in ASSERTION_OPS \ {"ASSERT_MATCH"} ->
               [actual |-> prior, expected |-> LegacyOperand(old)]
          [] OTHER -> [port \in {LegacyPort(old.op)} |-> prior]

(* Every operation but LOAD_ARTIFACT needs a prior step, or the            *)
(* compilation fails with IMPLICIT_OPERAND_MISSING.                        *)
compiles(spec) == spec.steps[1].op = "LOAD_ARTIFACT"

compileLegacySpec(spec) ==
    LET last == Len(spec.steps)
    IN  [steps |-> [i \in 1 .. last |->
                      Step(i, spec.steps[i].op, compileInputs(spec, i))],
         result |-> Output(last, PORT_CONTRACTS[spec.steps[last].op].output)]

IsGraph(spec) == "result" \in DOMAIN spec

normalizeSpec(spec) == IF IsGraph(spec) THEN spec ELSE compileLegacySpec(spec)

validateSpec(spec, declared) ==
    IF IsGraph(spec)
      THEN validateDagSpec(spec, declared)
      ELSE /\ validateLegacySpec(spec, declared)
           /\ compiles(spec)
           /\ validateDagSpec(compileLegacySpec(spec), declared)

(***************************************************************************)
(* What one step computes.  A failure that the input explains leaves the   *)
(* test undetermined; any other is a failed execution.                     *)
(***************************************************************************)
Failure(code, disposition) == [code |-> code, disposition |-> disposition]
Failed(code) == Failure(code, "EXECUTION_FAILED")
Undetermined(code) == Failure(code, "UNDETERMINED")
IsFailure(outcome) == "code" \in DOMAIN outcome

bytesFrom(value) == IF Is(value, "file") THEN value.file ELSE value.bytes
HasBytes(value) == Is(value, "file") \/ Is(value, "bytes")

size(value) ==
    IF Is(value, "list") THEN Len(value.list)
    ELSE IF Is(value, "text") THEN value.text.size
    ELSE value.bytes.size

resolveBinding(name, supplied) ==
    IF name \in DOMAIN supplied THEN supplied[name] ELSE Failed("MISSING_BINDING")

resolveDagInput(ref, outputs, supplied) ==
    IF "literal" \in DOMAIN ref THEN ref.literal
    ELSE IF "bindingRef" \in DOMAIN ref THEN resolveBinding(ref.bindingRef, supplied)
    ELSE IF /\ ref.stepRef \in DOMAIN outputs
            /\ ref.output \in DOMAIN outputs[ref.stepRef]
      THEN outputs[ref.stepRef][ref.output]
      ELSE Failed("MISSING_STEP_OUTPUT")

resolvedInputsFit(op, inputs) ==
    /\ \A port \in DOMAIN inputs : valueInputType(op, port, inputs[port])
    /\ op \in {"ASSERT_CONTAINS", "ASSERT_NOT_CONTAINS"} /\ Is(inputs.actual, "text")
            => Is(inputs.expected, "text")

(* SUM reads the list in order and gives up at the first partial sum that  *)
(* is not a safe integer, whatever the rest of the list would do.          *)
PartialSum(s) ==
    LET sum[i \in 0 .. Len(s)] == IF i = 0 THEN 0 ELSE sum[i - 1] + s[i] IN sum

(* Wrong: only the total has to be a safe integer.                         *)
SumInTheEnd(s) ==
    IF Safe(PartialSum(s)[Len(s)]) THEN Number(PartialSum(s)[Len(s)])
                                   ELSE Undetermined("INTEGER_OVERFLOW")

Sum(s) ==
    IF \A i \in 0 .. Len(s) : Safe(PartialSum(s)[i])
      THEN Number(PartialSum(s)[Len(s)])
      ELSE Undetermined("INTEGER_OVERFLOW")

FirstOf(sorted) ==
    IF sorted = <<>> THEN Undetermined("EMPTY_COLLECTION") ELSE Number(sorted[1])

(* UNIQUE keeps the first of equal items, in their order.                  *)
FirstOnes(s) == {i \in 1 .. Len(s) : \A j \in 1 .. i - 1 : s[j] # s[i]}
Unique(s) == LET ones == SetToSortSeq(FirstOnes(s), <)
             IN  List([k \in 1 .. Len(ones) |-> s[ones[k]]])

exactEqual(actual, expected) ==
    IF Is(actual, "int") \/ Is(expected, "int")
      THEN IF Is(actual, "int") /\ Is(expected, "int")
             THEN Truth(actual.int = expected.int)
             ELSE Undetermined("UNSUPPORTED_NUMERIC_PRECISION")
      ELSE Truth(actual = expected)

orderedCompare(op, actual, expected) ==
    IF ~(Is(actual, "int") /\ Is(expected, "int"))
      THEN Undetermined("UNSUPPORTED_NUMERIC_PRECISION")
      ELSE Truth(CASE op = "ASSERT_GT" -> actual.int > expected.int
                   [] op = "ASSERT_GTE" -> actual.int >= expected.int
                   [] op = "ASSERT_LT" -> actual.int < expected.int
                   [] op = "ASSERT_LTE" -> actual.int <= expected.int)

holds(actual, expected) ==
    IF Is(actual, "text") THEN actual = expected
    ELSE \E n \in ToSet(actual.list) : Number(n) = expected

assertion(truth) == IF IsFailure(truth) THEN truth ELSE Verdict(truth.truth)

(* Operations whose result is left out: the parsers of CSV and XML, the    *)
(* selectors and the regular expressions.                                  *)
NotComputed ==
    {"PARSE_CSV", "PARSE_XML", "SELECT_JSON_PATH", "SELECT_XML", "REGEX", "ASSERT_MATCH"}

Collecting == {"COUNT", "SUM", "MIN", "MAX", "SORT", "UNIQUE"}

Computed(op, in) ==
    IF op \in Collecting /\ size(in.value) > MaxItems
      THEN Failed("COLLECTION_LIMIT")
      ELSE
    CASE op = "LOAD_ARTIFACT" -> in.binding
      [] op = "READ_BYTES" ->
           IF HasBytes(in.artifact) THEN Bytes(bytesFrom(in.artifact))
           ELSE Failed("BYTES_REQUIRED")
      [] op = "DECODE_UTF8" ->
           IF ~HasBytes(in.bytes) THEN Failed("BYTES_REQUIRED")
           ELSE IF bytesFrom(in.bytes).utf8 THEN Text(bytesFrom(in.bytes))
           ELSE Undetermined("INVALID_UTF8")
      [] op = "PARSE_JSON" ->
           IF ~IsJson(in.text.text.json) THEN Undetermined("MALFORMED_JSON")
           ELSE IF Is(in.text.text.json, "list") /\ size(in.text.text.json) > MaxItems
             THEN Failed("COLLECTION_LIMIT")
           ELSE in.text.text.json
      [] op = "COUNT" -> Number(size(in.value))
      [] op = "SUM" -> Sum(in.value.list)
      [] op = "MIN" -> FirstOf(SortSeq(in.value.list, <))
      [] op = "MAX" -> FirstOf(SortSeq(in.value.list, >))
      [] op = "SORT" -> List(SortSeq(in.value.list, <))
      [] op = "UNIQUE" -> Unique(in.value.list)
      [] op = "HASH_SHA256" ->
           IF HasBytes(in.bytes) THEN Text(bytesFrom(in.bytes))
           ELSE Failed("BYTES_REQUIRED")
      [] op = "COMPARE" -> exactEqual(in.left, in.right)
      [] op = "BYTE_COMPARE" ->
           IF HasBytes(in.left) /\ HasBytes(in.right)
             THEN Truth(bytesFrom(in.left) = bytesFrom(in.right))
             ELSE Failed("BYTES_REQUIRED")
      [] op = "ASSERT_EQ" -> assertion(exactEqual(in.actual, in.expected))
      [] op \in {"ASSERT_GT", "ASSERT_GTE", "ASSERT_LT", "ASSERT_LTE"} ->
           assertion(orderedCompare(op, in.actual, in.expected))
      [] op = "ASSERT_CONTAINS" -> Verdict(holds(in.actual, in.expected))
      [] op = "ASSERT_NOT_CONTAINS" -> Verdict(~holds(in.actual, in.expected))
      [] op = "ASSERT_SET_EQUAL" ->
           Verdict(ToSet(in.actual.list) = ToSet(in.expected.list))

StepOutcome(step, outputs, supplied) ==
    LET in == [port \in DOMAIN step.inputs |->
                 resolveDagInput(step.inputs[port], outputs, supplied)]
        missing == {port \in DOMAIN in : IsFailure(in[port])}
    IN  IF missing # {} THEN in[CHOOSE port \in missing : TRUE]
        ELSE IF ~resolvedInputsFit(step.op, in) THEN Failed("INVALID_INPUT_TYPE")
        ELSE Computed(step.op, in)
=============================================================================
