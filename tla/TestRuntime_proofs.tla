------------------------ MODULE TestRuntime_proofs ------------------------
(***************************************************************************)
(* Proofs about the execution of deterministic tests.  The main result is  *)
(* that the two passes over a specification agree: whatever graph          *)
(* validateSpec accepts, execute never misses an operand, a result or the  *)
(* bytes of a file.  The argument is the one for a typed language: every   *)
(* executed step has an output of the type its contract names, so the      *)
(* references that validation accepted find what they were promised, and   *)
(* the next step again fits its contract.  On top of it, the outputs are   *)
(* shown to be what the steps mean, so that a reported determination says  *)
(* what it should of every assertion of the specification.                 *)
(***************************************************************************)
EXTENDS TestRuntime, WellFoundedInduction, TLAPS

(***************************************************************************)
(* The operation registry.                                                 *)
(***************************************************************************)

(* The operations of the registry.                                         *)
LEMMA KnownOps ==
    Known = {"LOAD_ARTIFACT", "READ_BYTES", "DECODE_UTF8", "PARSE_JSON", "PARSE_CSV",
             "PARSE_XML", "SELECT_JSON_PATH", "SELECT_XML", "COUNT", "SUM", "MIN", "MAX",
             "SORT", "UNIQUE", "HASH_SHA256", "REGEX", "COMPARE", "ASSERT_EQ", "ASSERT_GT",
             "ASSERT_GTE", "ASSERT_LT", "ASSERT_LTE", "ASSERT_MATCH", "ASSERT_CONTAINS",
             "ASSERT_NOT_CONTAINS", "ASSERT_SET_EQUAL", "BYTE_COMPARE"}
BY DEF Known, PORT_CONTRACTS, Op, Reduction, Ordered

(* Only LOAD_ARTIFACT produces an artifact, and only READ_BYTES bytes.     *)
LEMMA Producers ==
    /\ \A op \in Known : PORT_CONTRACTS[op].type = "ARTIFACT" => op = "LOAD_ARTIFACT"
    /\ \A op \in Known : PORT_CONTRACTS[op].type = "BYTES" => op = "READ_BYTES"
BY DEF Known, PORT_CONTRACTS, Op, Reduction, Ordered

(* The assertions, which are the operations that produce an ASSERTION.     *)
LEMMA Asserting ==
    /\ ASSERTION_OPS \subseteq Known
    /\ \A op \in Known : PORT_CONTRACTS[op].type = "ASSERTION" <=> op \in ASSERTION_OPS
    /\ ASSERTION_OPS = {"ASSERT_EQ", "ASSERT_GT", "ASSERT_GTE", "ASSERT_LT", "ASSERT_LTE",
         "ASSERT_MATCH", "ASSERT_CONTAINS", "ASSERT_NOT_CONTAINS", "ASSERT_SET_EQUAL"}
BY DEF ASSERTION_OPS, Known, PORT_CONTRACTS, Op, Reduction, Ordered

(* The ports that take a file or its bytes are required, and accept        *)
(* nothing else from a step.                                               *)
LEMMA BytePorts ==
    /\ Accepts("READ_BYTES", "artifact") = {"ARTIFACT"}
    /\ Accepts("DECODE_UTF8", "bytes") = {"BYTES"}
    /\ Accepts("HASH_SHA256", "bytes") = {"BYTES"}
    /\ Accepts("BYTE_COMPARE", "left") = {"BYTES"}
    /\ Accepts("BYTE_COMPARE", "right") = {"BYTES"}
    /\ "artifact" \in PORT_CONTRACTS["READ_BYTES"].needs
    /\ "bytes" \in PORT_CONTRACTS["DECODE_UTF8"].needs
    /\ "bytes" \in PORT_CONTRACTS["HASH_SHA256"].needs
    /\ {"left", "right"} \subseteq PORT_CONTRACTS["BYTE_COMPARE"].needs
    /\ "binding" \in PORT_CONTRACTS["LOAD_ARTIFACT"].needs
BY DEF PORT_CONTRACTS, Accepts, Op, Reduction, Ordered

(* Some operation produces text, so AnyType is no single internal type.    *)
LEMMA SomeText == "STRING" \in AnyType
<1>1. "HASH_SHA256" \in Known /\ PORT_CONTRACTS["HASH_SHA256"].type = "STRING"
  BY DEF PORT_CONTRACTS, Known, Op, Reduction, Ordered
<1> QED BY <1>1 DEF AnyType

(***************************************************************************)
(* What one operation computes from resolved inputs.                       *)
(***************************************************************************)

(* An assertion that does not fail has a verdict.                          *)
LEMMA ComputedVerdict ==
    ASSUME NEW op \in ASSERTION_OPS \ NotComputed, NEW in,
           ~IsFailure(Computed(op, in))
    PROVE  Computed(op, in) \in {Verdict(TRUE), Verdict(FALSE)}
BY Asserting DEF Computed, assertion, Verdict, Collecting, NotComputed, IsFailure, Failed, Failure, Undetermined

(* READ_BYTES has bytes or fails.                                          *)
LEMMA ReadBytes ==
    ASSUME NEW in, ~IsFailure(Computed("READ_BYTES", in))
    PROVE HasBytes(Computed("READ_BYTES", in))
BY DEF Computed, Collecting, HasBytes, Is, Bytes, IsFailure, Failed, Failure

(* The failures that a validated specification does not have.              *)
Unsound == {"MISSING_STEP_OUTPUT", "RESULT_OUTPUT_UNAVAILABLE", "MISSING_BINDING"}

(* No operation fails in one of these ways, and one fails for want of      *)
(* bytes only when the input of a port that takes bytes has none.          *)
LEMMA ComputedFails ==
    ASSUME NEW op \in Known \ NotComputed, NEW in,
           IsFailure(Computed(op, in)),
           op = "LOAD_ARTIFACT" => ~IsFailure(in.binding)
    PROVE  /\ Computed(op, in).code \notin Unsound
           /\ Computed(op, in).code = "BYTES_REQUIRED" =>
                \/ op = "READ_BYTES" /\ ~HasBytes(in.artifact)
                \/ op \in {"DECODE_UTF8", "HASH_SHA256"} /\ ~HasBytes(in.bytes)
                \/ op = "BYTE_COMPARE" /\ ~(HasBytes(in.left) /\ HasBytes(in.right))
<1> USE DEF IsFailure, Failed, Failure, Undetermined, Unsound
<1>1. CASE op \in Collecting /\ size(in.value) > MaxItems
  BY <1>1 DEF Computed
<1>2. CASE ~(op \in Collecting /\ size(in.value) > MaxItems)
  <2>1. CASE op = "LOAD_ARTIFACT" BY <1>2, <2>1 DEF Computed
  <2>2. CASE op = "READ_BYTES" BY <1>2, <2>2 DEF Computed, Bytes
  <2>3. CASE op \in {"DECODE_UTF8", "HASH_SHA256", "BYTE_COMPARE"}
    BY <1>2, <2>3 DEF Computed, Text, Truth
  <2>4. CASE op = "PARSE_JSON"
    BY <1>2, <2>4 DEF Computed, IsJson, JsonKinds, Is
  <2>5. CASE op \in {"COUNT", "SORT", "UNIQUE", "MIN", "MAX", "SUM"}
    BY <1>2, <2>5 DEF Computed, Number, List, Unique, FirstOf, Sum
  <2>6. CASE op = "COMPARE"
    BY <1>2, <2>6 DEF Computed, exactEqual, Truth
  <2>7. CASE op \in ASSERTION_OPS
    BY <1>2, <2>7, Asserting DEF Computed, exactEqual, orderedCompare, assertion, Truth, Verdict, NotComputed
  <2> QED BY <2>1, <2>2, <2>3, <2>4, <2>5, <2>6, <2>7, KnownOps, Asserting DEF NotComputed
<1> QED BY <1>1, <1>2

(***************************************************************************)
(* Outputs that fit their contracts.                                       *)
(***************************************************************************)

(* Every declared binding is a file.                                       *)
AllFiles(declared, supplied) == \A name \in declared : Is(supplied[name], "file")

Verdicts == {Verdict(TRUE), Verdict(FALSE)}

(* What an operation may produce; with only files bound, an artifact and   *)
(* what is read from it have bytes.                                        *)
Fits(files, op, value) ==
    /\ ~IsFailure(value)
    /\ op \in ASSERTION_OPS => value \in Verdicts
    /\ files /\ PORT_CONTRACTS[op].type \in {"ARTIFACT", "BYTES"} => HasBytes(value)

(* The first n steps, and no other, have an output at their one port, and  *)
(* it fits.                                                                *)
Holds(prog, files, outs, n) ==
    /\ DOMAIN outs = {prog.steps[i].id : i \in 1 .. n}
    /\ \A i \in 1 .. n :
          LET made == outs[prog.steps[i].id]
              port == PORT_CONTRACTS[prog.steps[i].op].output
          IN  /\ DOMAIN made = {port}
              /\ Fits(files, prog.steps[i].op, made[port])

(* Every declared binding is supplied with a value.                        *)
Resolvable(declared, supplied) ==
    /\ declared \subseteq DOMAIN supplied
    /\ \A name \in DOMAIN supplied : ~IsFailure(supplied[name])

(* An input that validation accepted resolves to a value once the earlier  *)
(* steps have their outputs, and to one with bytes where a file or bytes   *)
(* are asked for.                                                          *)
LEMMA ResolvedInput ==
    ASSUME NEW prog, NEW declared, NEW supplied, NEW outs,
           NEW n \in Nat, n < Len(prog.steps), Len(prog.steps) \in Nat,
           NEW port \in DOMAIN prog.steps[n + 1].inputs,
           validInput(prog, n + 1, port, declared),
           Resolvable(declared, supplied),
           Holds(prog, AllFiles(declared, supplied), outs, n)
    PROVE  LET value == resolveDagInput(prog.steps[n + 1].inputs[port], outs, supplied)
               op == prog.steps[n + 1].op
           IN  /\ ~IsFailure(value)
               /\ AllFiles(declared, supplied) =>
                    \/ HasBytes(value)
                    \/ op # "LOAD_ARTIFACT" /\ Accepts(op, port) \notin {{"ARTIFACT"}, {"BYTES"}}
<1> DEFINE step == prog.steps[n + 1]
           op == step.op
           ref == step.inputs[port]
           value == resolveDagInput(ref, outs, supplied)
           files == AllFiles(declared, supplied)
<1>1. isInputRef(ref)
  BY DEF validInput
<1>2. CASE DOMAIN ref = {"literal"}
  <2>1. value = ref.literal /\ validLiteral(ref.literal)
    BY <1>2 DEF validInput, resolveDagInput
  <2>2. ~IsFailure(value)
    BY <2>1 DEF validLiteral, Is, IsFailure
  <2>3. Accepts(op, port) \notin {{"ARTIFACT"}, {"BYTES"}} /\ op # "LOAD_ARTIFACT"
    <3>1. op # "LOAD_ARTIFACT"
      BY <1>2 DEF validInput
    <3>2. Accepts(op, port) \cap Internal = {} \/ Accepts(op, port) = AnyType
      BY <1>2 DEF validInput
    <3>3. Accepts(op, port) # {"ARTIFACT"}
      BY <3>2, SomeText DEF Internal
    <3>4. Accepts(op, port) # {"BYTES"}
      BY <3>2, SomeText DEF Internal
    <3> QED BY <3>1, <3>3, <3>4
  <2> QED BY <2>2, <2>3
<1>3. CASE DOMAIN ref = {"bindingRef"}
  <2>1. ref.bindingRef \in declared
    BY <1>3 DEF validInput
  <2>2. value = supplied[ref.bindingRef]
    BY <1>3, <2>1 DEF resolveDagInput, resolveBinding, Resolvable
  <2>3. files => HasBytes(value)
    BY <2>1, <2>2 DEF AllFiles, HasBytes
  <2> QED BY <2>1, <2>2, <2>3 DEF Resolvable
<1>4. CASE DOMAIN ref = {"stepRef", "output"}
  <2>1. PICK i \in 1 .. n :
           /\ prog.steps[i].id = ref.stepRef
           /\ prog.steps[i].op \in Known
           /\ ref.output = PORT_CONTRACTS[prog.steps[i].op].output
           /\ PORT_CONTRACTS[prog.steps[i].op].type \in Accepts(op, port)
    <3>1. validStepReference(prog, n + 1, port, ref)
      BY <1>4 DEF validInput
    <3>2. PriorSteps(prog, n + 1) = {prog.steps[j] : j \in 1 .. n}
      BY DEF PriorSteps
    <3> QED BY <3>1, <3>2 DEF validStepReference
  <2>2. value = outs[ref.stepRef][ref.output]
    BY <1>4, <2>1 DEF resolveDagInput, Holds
  <2>3. Fits(files, prog.steps[i].op, value)
    BY <2>1, <2>2 DEF Holds
  <2>4. op # "LOAD_ARTIFACT"
    BY <1>4 DEF validInput
  <2> QED BY <2>1, <2>3, <2>4 DEF Fits
<1> QED BY <1>1, <1>2, <1>3, <1>4 DEF isInputRef

(* The step after the first n then fails in a sound way or fits its        *)
(* contract.                                                               *)
LEMMA OutcomeIsSound ==
    ASSUME NEW prog, NEW declared, NEW supplied, NEW outs, NEW n \in Nat,
           Len(prog.steps) \in Nat, n < Len(prog.steps),
           validStep(prog, n + 1, declared),
           prog.steps[n + 1].op \notin NotComputed,
           Resolvable(declared, supplied),
           Holds(prog, AllFiles(declared, supplied), outs, n)
    PROVE  LET outcome == StepOutcome(prog.steps[n + 1], outs, supplied)
           IN  IF IsFailure(outcome)
                 THEN /\ outcome.code \notin Unsound
                      /\ outcome.code = "BYTES_REQUIRED" => ~AllFiles(declared, supplied)
                 ELSE Fits(AllFiles(declared, supplied), prog.steps[n + 1].op, outcome)
<1> DEFINE step == prog.steps[n + 1]
           op == step.op
           files == AllFiles(declared, supplied)
           in == [port \in DOMAIN step.inputs |->
                    resolveDagInput(step.inputs[port], outs, supplied)]
           outcome == StepOutcome(step, outs, supplied)
<1>1. /\ op \in Known \ NotComputed
      /\ PORT_CONTRACTS[op].needs \subseteq DOMAIN step.inputs
      /\ \A port \in DOMAIN step.inputs : validInput(prog, n + 1, port, declared)
  BY DEF validStep
<1>2. ASSUME NEW port \in DOMAIN step.inputs
      PROVE  /\ ~IsFailure(in[port])
             /\ files => \/ HasBytes(in[port])
                         \/ op # "LOAD_ARTIFACT" /\ Accepts(op, port) \notin {{"ARTIFACT"}, {"BYTES"}}
  BY <1>1, ResolvedInput
<1>3. outcome = IF ~resolvedInputsFit(op, in) THEN Failed("INVALID_INPUT_TYPE")
                ELSE Computed(op, in)
  <2>1. {port \in DOMAIN in : IsFailure(in[port])} = {}
    BY <1>2
  <2> QED BY <2>1 DEF StepOutcome
<1>4. CASE ~resolvedInputsFit(op, in)
  BY <1>3, <1>4 DEF Failed, Failure, Unsound, IsFailure
<1>5. CASE resolvedInputsFit(op, in)
  <2>0. outcome = Computed(op, in)
    BY <1>3, <1>5
  <2>1. CASE IsFailure(outcome)
    <3>1. op = "LOAD_ARTIFACT" => ~IsFailure(in.binding)
      BY <1>1, <1>2, BytePorts
    <3>2. /\ outcome.code \notin Unsound
          /\ outcome.code = "BYTES_REQUIRED" =>
                \/ op = "READ_BYTES" /\ ~HasBytes(in.artifact)
                \/ op \in {"DECODE_UTF8", "HASH_SHA256"} /\ ~HasBytes(in.bytes)
                \/ op = "BYTE_COMPARE" /\ ~(HasBytes(in.left) /\ HasBytes(in.right))
      <4> HIDE DEF in, outcome
      <4> QED BY <1>1, <2>0, <2>1, <3>1, ComputedFails
    <3>3. ASSUME files, op = "READ_BYTES" PROVE HasBytes(in.artifact)
      BY <1>1, <1>2, <3>3, BytePorts
    <3>4. ASSUME files, op \in {"DECODE_UTF8", "HASH_SHA256"} PROVE HasBytes(in.bytes)
      <4>1. "bytes" \in DOMAIN step.inputs
        BY <1>1, <3>4, BytePorts
      <4>2. Accepts(op, "bytes") = {"BYTES"}
        BY <3>4, BytePorts
      <4> QED BY <1>2, <3>4, <4>1, <4>2
    <3>5. ASSUME files, op = "BYTE_COMPARE" PROVE HasBytes(in.left) /\ HasBytes(in.right)
      <4>1. {"left", "right"} \subseteq DOMAIN step.inputs
        BY <1>1, <3>5, BytePorts
      <4>2. /\ Accepts(op, "left") = {"BYTES"}
            /\ Accepts(op, "right") = {"BYTES"}
        BY <3>5, BytePorts
      <4> QED BY <1>2, <3>5, <4>1, <4>2
    <3>6. outcome.code = "BYTES_REQUIRED" => ~files
      BY <3>2, <3>3, <3>4, <3>5
    <3> QED BY <2>1, <3>2, <3>6
  <2>2. CASE ~IsFailure(outcome)
    <3>1. op \in ASSERTION_OPS => outcome \in Verdicts
      BY <1>1, <2>0, <2>2, ComputedVerdict DEF Verdicts
    <3>2. ASSUME files, PORT_CONTRACTS[op].type = "BYTES" PROVE HasBytes(outcome)
      BY <1>1, <2>0, <2>2, <3>2, Producers, ReadBytes
    <3>3. ASSUME files, PORT_CONTRACTS[op].type = "ARTIFACT" PROVE HasBytes(outcome)
      <4>1. op = "LOAD_ARTIFACT" /\ outcome = in.binding
        BY <1>1, <2>0, <3>3, Producers DEF Computed, Collecting
      <4> QED BY <1>1, <1>2, <3>3, <4>1, BytePorts
    <3> QED BY <2>2, <3>1, <3>2, <3>3 DEF Fits
  <2> QED BY <2>1, <2>2
<1> QED BY <1>4, <1>5

(* Its output joins those of the earlier steps, whose ids are others.      *)
LEMMA ProducedHolds ==
    ASSUME NEW prog, NEW files, NEW outs, NEW new, NEW n \in Nat, NEW value,
           Holds(prog, files, outs, n),
           Fits(files, prog.steps[n + 1].op, value),
           \A i \in 1 .. n : prog.steps[i].id # prog.steps[n + 1].id,
           new = [id \in {prog.steps[n + 1].id} \cup DOMAIN outs |->
                    IF id = prog.steps[n + 1].id
                      THEN [port \in {PORT_CONTRACTS[prog.steps[n + 1].op].output} |-> value]
                      ELSE outs[id]]
    PROVE  Holds(prog, files, new, n + 1)
<1>1. 1 .. n + 1 = 1 .. n \cup {n + 1}
  OBVIOUS
<1>2. DOMAIN new = {prog.steps[i].id : i \in 1 .. n + 1}
  BY <1>1 DEF Holds
<1>3. ASSUME NEW i \in 1 .. n
      PROVE  new[prog.steps[i].id] = outs[prog.steps[i].id]
  BY DEF Holds
<1>4. new[prog.steps[n + 1].id] = [port \in {PORT_CONTRACTS[prog.steps[n + 1].op].output} |-> value]
  OBVIOUS
<1>5. ASSUME NEW i \in 1 .. n + 1
      PROVE  LET made == new[prog.steps[i].id]
                 port == PORT_CONTRACTS[prog.steps[i].op].output
             IN  /\ DOMAIN made = {port}
                 /\ Fits(files, prog.steps[i].op, made[port])
  <2>1. CASE i \in 1 .. n
    BY <1>3, <2>1 DEF Holds
  <2>2. CASE i = n + 1
    BY <1>4, <2>2
  <2> QED BY <1>1, <2>1, <2>2
<1> QED BY <1>2, <1>5 DEF Holds

(***************************************************************************)
(* The execution.                                                          *)
(***************************************************************************)

(* A program that the worker accepts is a valid graph, also when it was    *)
(* compiled from the linear form, and has the operations of its            *)
(* specification.                                                          *)
LEMMA ProgramShape ==
    ASSUME spec \in Specifications, validateSpec(Program, input.declared)
    PROVE  /\ validateDagSpec(Program, input.declared)
           /\ DOMAIN Program.steps = 1 .. Len(Program.steps)
           /\ \A i \in 1 .. Len(Program.steps) : Program.steps[i].op \notin NotComputed
<1>1. IsGraph(Program)
  BY DEF Program, normalizeSpec, IsGraph, compileLegacySpec
<1>2. validateDagSpec(Program, input.declared)
  BY <1>1 DEF validateSpec
<1>3. /\ Len(spec.steps) \in Nat
      /\ DOMAIN spec.steps = 1 .. Len(spec.steps)
      /\ \A i \in 1 .. Len(spec.steps) : spec.steps[i].op \notin NotComputed
  BY SpecificationsAreModelled DEF ToSet
<1>4. CASE IsGraph(spec)
  BY <1>2, <1>3, <1>4 DEF Program, normalizeSpec
<1>5. CASE ~IsGraph(spec)
  <2> DEFINE last == Len(spec.steps)
             made == [i \in 1 .. last |-> Step(i, spec.steps[i].op, compileInputs(spec, i))]
  <2>1. Program.steps = made
    BY <1>5 DEF Program, normalizeSpec, compileLegacySpec
  <2>2. made \in Seq({made[i] : i \in 1 .. last}) /\ Len(made) = last
    BY <1>3
  <2>3. \A i \in 1 .. last : made[i].op = spec.steps[i].op
    BY DEF Step
  <2> HIDE DEF made
  <2> QED BY <1>2, <1>3, <2>1, <2>2, <2>3
<1> QED BY <1>4, <1>5

(* A program is as long as its specification, valid or not.                *)
LEMMA ProgramLength ==
    ASSUME spec \in Specifications
    PROVE  Len(Program.steps) \in Nat
<1>1. Len(spec.steps) \in Nat
  BY SpecificationsAreModelled
<1>2. CASE IsGraph(spec)
  BY <1>1, <1>2 DEF Program, normalizeSpec
<1>3. CASE ~IsGraph(spec)
  <2> DEFINE last == Len(spec.steps)
             made == [i \in 1 .. last |-> Step(i, spec.steps[i].op, compileInputs(spec, i))]
  <2>1. Program.steps = made
    BY <1>3 DEF Program, normalizeSpec, compileLegacySpec
  <2>2. made \in Seq({made[i] : i \in 1 .. last}) /\ Len(made) = last
    BY <1>1
  <2> HIDE DEF made
  <2> QED BY <1>1, <2>1, <2>2
<1> QED BY <1>2, <1>3

(***************************************************************************)
(* The inductive invariant.                                                *)
(***************************************************************************)
Files == AllFiles(input.declared, input.supplied)

(* A result is no unsound failure, and only one without a failure          *)
(* determines anything.                                                    *)
Sound(result) ==
    /\ result.determination \in {"SATISFIED", "VIOLATED", "UNDETERMINED", "NONE"}
    /\ result.code \notin Unsound
    /\ result.code = "BYTES_REQUIRED" => ~Files
    /\ result.determination \in {"SATISFIED", "VIOLATED"} => result.code = "NONE"

(* A page that has not begun has no worker, one that waits has one, and    *)
(* one that is settled has none that runs.                                 *)
Control ==
    /\ page \in {"idle", "waiting", "settled"}
    /\ page = "idle" => worker = "none" /\ answers = {}
    /\ page = "waiting" => worker \in {"loading", "executing", "done"}
    /\ page = "settled" => worker \in {"none", "terminated"}

(* A program is executed only when it is valid, and the outputs are those  *)
(* of the steps before the next.                                           *)
Executed ==
    /\ next \in Nat \ {0}
    /\ worker = "executing" \/ next # 1 => validateSpec(Program, input.declared)
    /\ next = 1 \/ next <= Len(Program.steps) + 1
    /\ Holds(Program, Files, outputs, next - 1)

IInv ==
    /\ spec \in Specifications
    /\ input \in Inputs
    /\ Control
    /\ Executed
    /\ Sound(report)
    /\ \A answer \in answers : Sound(answer.result) /\ answer.build = build.worker
    /\ FromThisBuild

(* The invariant holds initially.                                          *)
LEMMA InitIInv == Init => IInv
<1> SUFFICES ASSUME Init PROVE IInv
  OBVIOUS
<1>1. 1 .. 0 = {}
  OBVIOUS
<1>2. Holds(Program, Files, outputs, 0)
  BY <1>1 DEF Holds, Init
<1> QED BY <1>2 DEF Init, IInv, Control, Executed, Sound, FromThisBuild, None, Unsound

(* An execution that fails has no determination of its assertions.         *)
LEMMA FailureSound ==
    ASSUME NEW code, NEW disposition, code \notin Unsound, code = "BYTES_REQUIRED" => ~Files
    PROVE  /\ Sound(executionFailure(code, disposition))
           /\ executionFailure(code, disposition).determination = "UNDETERMINED"
BY DEF Sound, executionFailure

(* A verdict is a sound result.                                            *)
LEMMA ResultSound ==
    ASSUME NEW determination \in {"SATISFIED", "VIOLATED"}
    PROVE  Sound(executionResult(determination))
BY DEF Sound, executionResult, Unsound

(* The program, the files and what is sound depend on the specification    *)
(* and the inputs, which no step changes.                                  *)
LEMMA StaticSame ==
    ASSUME UNCHANGED <<spec, input>>
    PROVE  Program' = Program /\ Files' = Files /\ \A result : Sound(result)' = Sound(result)
BY DEF Program, Files, Sound

(* The first call of finish may settle with any sound result of this       *)
(* build; a later one changes nothing.                                     *)
LEMMA FinishIInv ==
    ASSUME IInv, NEW result, Finish(result), Sound(result), page # "idle",
           result.determination \in {"SATISFIED", "VIOLATED"} /\ Manifested =>
               build.worker = build.page,
           answers' \subseteq answers, UNCHANGED <<spec, input, build, next, outputs>>
    PROVE  IInv'
<1>1. Program' = Program /\ Files' = Files /\ \A r : Sound(r)' = Sound(r)
  BY StaticSame
<1>2. Control'
  BY DEF IInv, Control, Finish
<1>3. Executed'
  BY <1>1 DEF IInv, Executed, Finish
<1>4. Sound(report)' /\ FromThisBuild'
  BY <1>1 DEF IInv, Finish, FromThisBuild, Sound
<1>5. \A answer \in answers' : Sound(answer.result)' /\ answer.build = build'.worker
  BY <1>1 DEF IInv
<1> QED BY <1>2, <1>3, <1>4, <1>5 DEF IInv

(* Executing, a missing worker, the deadline and a failing worker preserve *)
(* the invariant.                                                          *)
LEMMA PageIInv ==
    ASSUME IInv, Execute \/ Unavailable \/ Deadline \/ WorkerError
    PROVE  IInv'
<1>1. \A code \in {"INVALID_TEST_IR", "WORKER_UNAVAILABLE", "WORKER_TIMEOUT", "WORKER_ERROR"} :
         LET failure == executionFailure(code, "EXECUTION_FAILED")
         IN  Sound(failure) /\ failure.determination = "UNDETERMINED"
  BY FailureSound DEF Unsound
<1>2. CASE Execute \/ Unavailable
  <2>1. UNCHANGED <<spec, input, build, next, outputs, answers>>
    BY <1>2 DEF Execute, Unavailable
  <2>2. Program' = Program /\ Files' = Files /\ \A r : Sound(r)' = Sound(r)
    BY <2>1, StaticSame
  <2>3. page = "idle" /\ worker' # "executing"
    BY <1>2 DEF Execute, Unavailable, IInv, Control
  <2>4. Control'
    BY <1>2 DEF Execute, Unavailable, IInv, Control
  <2>5. Executed'
    BY <2>1, <2>2, <2>3 DEF IInv, Executed
  <2>6. \/ report' = report
        \/ \E code \in {"INVALID_TEST_IR", "WORKER_UNAVAILABLE"} :
              report' = executionFailure(code, "EXECUTION_FAILED")
    BY <1>2 DEF Execute, Unavailable
  <2>7. Sound(report)' /\ FromThisBuild'
    BY <1>1, <2>1, <2>2, <2>6 DEF IInv, FromThisBuild, Sound
  <2> QED BY <2>1, <2>2, <2>4, <2>5, <2>7 DEF IInv
<1>3. CASE Deadline
  BY <1>1, <1>3, FinishIInv DEF Deadline
<1>4. CASE WorkerError
  BY <1>1, <1>4, FinishIInv DEF WorkerError, IInv, Control
<1> QED BY <1>2, <1>3, <1>4

(* Receiving an answer preserves the invariant.                            *)
LEMMA ReceiveIInv ==
    ASSUME IInv, NEW answer \in answers, Receive(answer)
    PROVE  IInv'
<1> DEFINE foreign == answer.result.code = "NONE" /\ Manifested /\ answer.build # build.page
           result == IF foreign
                       THEN executionFailure("WORKER_RESULT_IDENTITY_MISMATCH", "EXECUTION_FAILED")
                       ELSE answer.result
<1>1. Sound(answer.result) /\ answer.build = build.worker /\ page # "idle"
  BY DEF IInv, Control
<1>2. Sound(result)
  BY <1>1, FailureSound DEF Unsound
<1>3. result.determination \in {"SATISFIED", "VIOLATED"} /\ Manifested =>
         build.worker = build.page
  BY <1>1, FailureSound DEF Sound, Unsound
<1>4. /\ Finish(result)
      /\ answers' \subseteq answers
      /\ UNCHANGED <<spec, input, build, next, outputs>>
  BY DEF Receive
<1> QED
  <2> HIDE DEF result
  <2> QED BY <1>1, <1>2, <1>3, <1>4, FinishIInv

(* Posting a sound result preserves the invariant.                         *)
LEMMA PostIInv ==
    ASSUME IInv, page = "waiting", NEW result, Sound(result), Post(result), Executed',
           UNCHANGED <<spec, input, build, page, report>>
    PROVE  IInv'
<1>1. Program' = Program /\ Files' = Files /\ \A r : Sound(r)' = Sound(r)
  BY StaticSame
<1>2. Control'
  BY DEF IInv, Control, Post
<1>3. \A answer \in answers' : Sound(answer.result)' /\ answer.build = build'.worker
  BY <1>1 DEF IInv, Post, Answer
<1> QED BY <1>1, <1>2, <1>3 DEF IInv, FromThisBuild

(* The validation in the worker preserves the invariant.                   *)
LEMMA BeginIInv ==
    ASSUME IInv, Begin
    PROVE  IInv'
<1>1. /\ UNCHANGED <<spec, input, build, page, report, next, outputs>>
      /\ page = "waiting" /\ worker = "loading"
  BY DEF Begin, IInv, Control
<1>2. Program' = Program /\ Files' = Files /\ \A r : Sound(r)' = Sound(r)
  BY <1>1, StaticSame
<1>3. Executed'
  BY <1>1, <1>2 DEF Begin, IInv, Executed, Post
<1>4. CASE worker' = "executing" /\ UNCHANGED answers
  BY <1>1, <1>2, <1>3, <1>4 DEF IInv, Control, FromThisBuild
<1>5. CASE \E code \in {"INVALID_TEST_IR", "ARTIFACT_HASH_MISMATCH"} :
             Post(executionFailure(code, "EXECUTION_FAILED"))
  BY <1>1, <1>3, <1>5, FailureSound, PostIInv DEF Unsound
<1> QED BY <1>4, <1>5 DEF Begin

(* The execution of a step preserves the invariant.                        *)
LEMMA StepIInv ==
    ASSUME IInv, ExecuteStep
    PROVE  IInv'
<1> DEFINE n == next - 1
           step == Program.steps[next]
           outcome == StepOutcome(step, outputs, input.supplied)
<1>1. /\ UNCHANGED <<spec, input, build, page, report>>
      /\ page = "waiting" /\ worker = "executing"
      /\ next <= Len(Program.steps)
  BY DEF ExecuteStep, IInv, Control
<1>2. Program' = Program /\ Files' = Files /\ \A r : Sound(r)' = Sound(r)
  BY <1>1, StaticSame
<1>3. /\ validateDagSpec(Program, input.declared)
      /\ \A i \in 1 .. Len(Program.steps) : Program.steps[i].op \notin NotComputed
  BY <1>1, ProgramShape DEF IInv, Executed
<1>4. /\ Len(Program.steps) \in Nat
      /\ n \in Nat /\ n < Len(Program.steps) /\ n + 1 = next
      /\ validStep(Program, n + 1, input.declared)
  BY <1>1, <1>3, LimitsArePositive DEF IInv, Executed, validateDagSpec
<1>5. Holds(Program, Files, outputs, n)
  BY DEF IInv, Executed
<1>6. Resolvable(input.declared, input.supplied)
  BY BindingsAreSupplied DEF IInv, Resolvable, Is, IsJson, JsonKinds, IsFailure
<1>7. IF IsFailure(outcome)
        THEN outcome.code \notin Unsound /\ (outcome.code = "BYTES_REQUIRED" => ~Files)
        ELSE Fits(Files, step.op, outcome)
  BY <1>1, <1>3, <1>4, <1>5, <1>6, OutcomeIsSound DEF Files
<1>8. CASE IsFailure(outcome)
  <2>1. /\ Post(executionFailure(outcome.code, outcome.disposition))
        /\ UNCHANGED <<next, outputs>>
    BY <1>8 DEF ExecuteStep
  <2>2. Executed'
    BY <1>1, <1>2, <2>1 DEF IInv, Executed, Post
  <2>3. Sound(executionFailure(outcome.code, outcome.disposition))
    BY <1>7, <1>8, FailureSound
  <2> HIDE DEF outcome
  <2> QED BY <1>1, <2>1, <2>2, <2>3, PostIInv
<1>9. CASE ~IsFailure(outcome)
  <2>1. /\ outputs' = Produced(step, outcome)
        /\ next' = next + 1
        /\ IF Decisive(outcome) THEN Post(executionResult("VIOLATED"))
           ELSE UNCHANGED <<worker, answers>>
    BY <1>9 DEF ExecuteStep
  <2>2. \A i \in 1 .. n : Program.steps[i].id # Program.steps[n + 1].id
    BY <1>4 DEF validStep, PriorSteps
  <2>3. Holds(Program, Files, outputs', n + 1)
    <3>1. step = Program.steps[n + 1]
      BY <1>4
    <3> HIDE DEF outcome, n, step
    <3>2. outputs' = [id \in {Program.steps[n + 1].id} \cup DOMAIN outputs |->
                        IF id = Program.steps[n + 1].id
                          THEN [port \in {PORT_CONTRACTS[Program.steps[n + 1].op].output}
                                  |-> outcome]
                          ELSE outputs[id]]
      BY <2>1, <3>1 DEF Produced
    <3>3. Fits(Files, Program.steps[n + 1].op, outcome)
      BY <1>7, <1>9, <3>1
    <3>4. n \in Nat
      BY <1>4
    <3> QED BY <1>5, <2>2, <3>2, <3>3, <3>4, ProducedHolds
  <2>4. Executed'
    BY <1>1, <1>2, <1>4, <2>1, <2>3 DEF IInv, Executed
  <2>5. CASE Decisive(outcome)
    BY <1>1, <2>1, <2>4, <2>5, ResultSound, PostIInv
  <2>6. CASE ~Decisive(outcome)
    BY <1>1, <1>2, <2>1, <2>4, <2>6 DEF IInv, Control, FromThisBuild
  <2> QED BY <2>5, <2>6
<1> QED BY <1>8, <1>9

(* The result that the specification names is there, and is a verdict.     *)
LEMMA ConcludeIInv ==
    ASSUME IInv, Conclude
    PROVE  IInv'
<1> DEFINE last == Len(Program.steps)
           result == Program.result
           verdict == outputs[result.stepRef][result.output]
<1>1. /\ UNCHANGED <<spec, input, build, page, report, next, outputs>>
      /\ page = "waiting" /\ worker = "executing" /\ next > last
  BY DEF Conclude, IInv, Control
<1>2. Program' = Program /\ Files' = Files
  BY <1>1, StaticSame
<1>3. /\ validateDagSpec(Program, input.declared)
      /\ DOMAIN Program.steps = 1 .. last
  BY <1>1, ProgramShape DEF IInv, Executed
<1>4. last \in 1 .. MaxSteps /\ next = last + 1
  BY <1>1, <1>3, LimitsArePositive DEF IInv, Executed, validateDagSpec
<1>5. Holds(Program, Files, outputs, last)
  BY <1>4, LimitsArePositive DEF IInv, Executed
<1>6. PICK i \in 1 .. last :
         /\ Program.steps[i].id = result.stepRef
         /\ Program.steps[i].op \in ASSERTION_OPS
         /\ result.output = PORT_CONTRACTS[Program.steps[i].op].output
  BY <1>3 DEF validateDagSpec, validResult, ToSet
<1>7. result.stepRef \in DOMAIN outputs /\ verdict \in Verdicts
  BY <1>5, <1>6 DEF Holds, Fits
<1>8. verdict.verdict \in {"SATISFIED", "VIOLATED"}
  BY <1>7 DEF Verdicts, Verdict
<1>9. Post(executionResult(verdict.verdict))
  BY <1>7 DEF Conclude
<1>10. Executed'
  BY <1>1, <1>2 DEF IInv, Executed
<1> HIDE DEF verdict
<1> QED BY <1>1, <1>8, <1>9, <1>10, ResultSound, PostIInv

(* Every step preserves the invariant.                                     *)
LEMMA NextIInv == IInv /\ [Next]_vars => IInv'
<1> SUFFICES ASSUME IInv, [Next]_vars PROVE IInv'
  OBVIOUS
<1>1. CASE UNCHANGED vars
  <2>1. Program' = Program /\ Files' = Files /\ \A r : Sound(r)' = Sound(r)
    BY <1>1, StaticSame DEF vars
  <2> QED BY <1>1, <2>1 DEF vars, IInv, Control, Executed, FromThisBuild
<1>2. CASE Execute \/ Unavailable \/ Deadline \/ WorkerError
  BY <1>2, PageIInv
<1>3. CASE \E answer \in answers : Receive(answer)
  BY <1>3, ReceiveIInv
<1>4. CASE Begin
  BY <1>4, BeginIInv
<1>5. CASE ExecuteStep
  BY <1>5, StepIInv
<1>6. CASE Conclude
  BY <1>6, ConcludeIInv
<1> QED BY <1>1, <1>2, <1>3, <1>4, <1>5, <1>6 DEF Next

(* The invariant holds always.                                             *)
LEMMA Invariance == Spec => []IInv
BY InitIInv, NextIInv, PTL DEF Spec

(***************************************************************************)
(* The theorems.                                                           *)
(***************************************************************************)

(* The inductive invariant types every variable.                           *)
LEMMA IInvTypeOK == IInv => TypeOK
<1> SUFFICES ASSUME IInv PROVE TypeOK
  OBVIOUS
<1>1. next \in 1 .. MaxSteps + 1
  <2>1. CASE next = 1
    BY <2>1, LimitsArePositive
  <2>2. CASE next # 1
    BY <2>2, ProgramShape, LimitsArePositive DEF IInv, Executed, validateDagSpec
  <2> QED BY <2>1, <2>2
<1>2. worker \in {"none", "loading", "executing", "done", "terminated"}
  BY DEF IInv, Control
<1>3. \A result \in Results :
         result.determination \in {"SATISFIED", "VIOLATED", "UNDETERMINED", "NONE"}
  BY DEF Results, IInv, Sound, None
<1> QED BY <1>1, <1>2, <1>3 DEF TypeOK, IInv, Control, Executed, Holds

(* Every variable keeps its type: an execution takes no more steps than    *)
(* the limit allows, its outputs are those of executed steps, and it       *)
(* reports no determination but the three there are.                       *)
THEOREM TypeCorrect == Spec => []TypeOK
BY Invariance, IInvTypeOK, PTL

(* A specification that validateSpec accepts never misses an operand, the  *)
(* named result or, when only files are bound, bytes, for any              *)
(* specification of the modelled operations and any inputs.                *)
THEOREM ValidationHolds == Spec => []ValidationIsSound
<1>1. IInv => ValidationIsSound
  BY DEF IInv, ValidationIsSound, Results, Sound, None, Unsound, Files, AllFiles
<1> QED BY <1>1, Invariance, PTL

(* A manifested page reports no determination that a worker of another     *)
(* build computed.                                                         *)
THEOREM BuildTrusted == Spec => []FromThisBuild
<1>1. IInv => FromThisBuild
  BY DEF IInv
<1> QED BY <1>1, Invariance, PTL

(* Once settled, an execution keeps its result, and its worker computes    *)
(* nothing more, in whatever order the answer, the failure and the         *)
(* deadline come.                                                          *)
THEOREM SettlementStays == Spec => SettledForGood
<1>1. IInv /\ [Next]_vars => [page = "settled" => UNCHANGED <<page, report, worker, outputs>>]_vars
  BY DEF IInv, Control, Next, vars, Execute, Unavailable, Deadline, WorkerError, Receive,
         Begin, ExecuteStep, Conclude, Finish
<1> QED BY <1>1, Invariance, PTL DEF Spec, SettledForGood

(***************************************************************************)
(* What the steps of a program mean.                                       *)
(***************************************************************************)

(* The numbers below one another are well founded, so that every nonempty  *)
(* set of numbers has a smallest one.                                      *)
Below == {ss \in Nat \X Nat : ss[1] < ss[2]}

(* The natural numbers are well-founded.                                   *)
LEMMA BelowIsWellFounded == IsWellFoundedOn(Below, Nat)
<1>1. IsWellFoundedOn(OpToRel(<, Nat), Nat)
  BY NatLessThanWellFounded
<1>2. OpToRel(<, Nat) = Below
  BY DEF OpToRel, Below
<1> QED BY <1>1, <1>2

(* A set of natural numbers that is not empty has a smallest member.       *)
LEMMA SmallestOf ==
    ASSUME NEW S \in SUBSET Nat, S # {}
    PROVE  \E m \in S : \A y \in S : m <= y
<1>1. PICK x \in S : \A y \in S : ~ (<<y, x>> \in Below)
  BY BelowIsWellFounded, WFMin
<1>2. ASSUME NEW y \in S PROVE x <= y
  <2>1. <<y, x>> \in Nat \X Nat
    OBVIOUS
  <2>2. ~ (<<y, x>>[1] < <<y, x>>[2])
    BY <1>1, <2>1 DEF Below
  <2> QED BY <2>2
<1> QED BY <1>2

(* The meaning of a step depends on that of the earlier steps only.        *)
LEMMA MeantLocally ==
    ASSUME NEW i \in Nat, NEW m, NEW k, \A j \in 1 .. i - 1 : m[j] = k[j]
    PROVE  Meant(m, i) = Meant(k, i)
<1> DEFINE knownM == {j \in 1 .. i - 1 : ~IsFailure(m[j])}
           knownK == {j \in 1 .. i - 1 : ~IsFailure(k[j])}
           made(id) == CHOOSE j \in knownM : Program.steps[j].id = id
<1>1. knownM = knownK
  OBVIOUS
<1>2. \A id \in {Program.steps[j].id : j \in knownM} : made(id) \in knownM
  OBVIOUS
<1>3. Given(m, knownM) = Given(k, knownM)
  BY <1>2 DEF Given
<1> HIDE DEF knownM, knownK
<1>4. Meant(m, i) = StepOutcome(Program.steps[i], Given(m, knownM), input.supplied)
  BY DEF Meant, knownM
<1>5. Meant(k, i) = StepOutcome(Program.steps[i], Given(k, knownK), input.supplied)
  BY DEF Meant, knownK
<1> QED BY <1>1, <1>3, <1>4, <1>5

(* The first n steps have a meaning, for every n.                          *)
LEMMA MeaningExists ==
    ASSUME NEW n \in Nat
    PROVE  \E m : m = [i \in 1 .. n |-> Meant(m, i)]
<1> DEFINE Without == {k \in Nat : ~ \E m : m = [i \in 1 .. k |-> Meant(m, i)]}
<1> SUFFICES ASSUME Without # {} PROVE FALSE
  OBVIOUS
<1>1. PICK k \in Without : \A j \in Without : k <= j
  <2>1. Without \in SUBSET Nat
    OBVIOUS
  <2> QED BY <2>1, SmallestOf
<1>2. k # 0
  <2>1. \A m : [i \in 1 .. 0 |-> Meant(m, i)] = <<>>
    OBVIOUS
  <2> QED BY <2>1
<1>3. PICK m : m = [i \in 1 .. k - 1 |-> Meant(m, i)]
  BY <1>1, <1>2
<1> DEFINE more == [i \in 1 .. k |-> IF i = k THEN Meant(m, k) ELSE m[i]]
<1>4. \A i \in 1 .. k : more[i] = Meant(more, i)
  <2> SUFFICES ASSUME NEW i \in 1 .. k PROVE more[i] = Meant(more, i)
    OBVIOUS
  <2>1. \A j \in 1 .. i - 1 : m[j] = more[j]
    BY <1>2
  <2>2. Meant(m, i) = Meant(more, i)
    <3> HIDE DEF more
    <3> QED BY <2>1, MeantLocally
  <2>3. CASE i = k
    BY <2>2, <2>3
  <2>4. CASE i # k
    <3>1. i \in 1 .. k - 1
      BY <2>4
    <3>2. m[i] = Meant(m, i)
      BY <1>3, <3>1
    <3> QED BY <2>2, <3>1, <3>2
  <2> QED BY <2>3, <2>4
<1>5. more = [i \in 1 .. k |-> Meant(more, i)]
  <2>1. more = [i \in 1 .. k |-> more[i]]
    OBVIOUS
  <2> HIDE DEF more
  <2> QED BY <1>4, <2>1
<1> QED BY <1>5

(* So the equation that defines Meaning has a solution.                    *)
LEMMA MeaningIsMeant ==
    ASSUME Len(Program.steps) \in Nat
    PROVE  Meaning = [i \in 1 .. Len(Program.steps) |-> Meant(Meaning, i)]
<1>1. PICK m : m = [i \in 1 .. Len(Program.steps) |-> Meant(m, i)]
  BY MeaningExists
<1> QED BY <1>1 DEF Meaning

(***************************************************************************)
(* What a reported determination says.                                     *)
(***************************************************************************)

(* Nothing but an assertion has a verdict.                                 *)
LEMMA OnlyAssertionsDecide ==
    ASSUME NEW op \in Known \ NotComputed, op \notin ASSERTION_OPS, NEW in,
           op = "LOAD_ARTIFACT" => ~Is(in.binding, "verdict")
    PROVE  ~Is(Computed(op, in), "verdict")
<1> USE DEF Is, Failed, Failure, Undetermined
<1>1. CASE op \in Collecting /\ size(in.value) > MaxItems
  BY <1>1 DEF Computed
<1>2. CASE ~(op \in Collecting /\ size(in.value) > MaxItems)
  <2>1. CASE op = "LOAD_ARTIFACT" BY <1>2, <2>1 DEF Computed
  <2>2. CASE op = "READ_BYTES" BY <1>2, <2>2 DEF Computed, Bytes
  <2>3. CASE op \in {"DECODE_UTF8", "HASH_SHA256", "BYTE_COMPARE"}
    BY <1>2, <2>3 DEF Computed, Text, Truth
  <2>4. CASE op = "PARSE_JSON"
    BY <1>2, <2>4 DEF Computed, IsJson, JsonKinds
  <2>5. CASE op \in {"COUNT", "SORT", "UNIQUE", "MIN", "MAX", "SUM"}
    BY <1>2, <2>5 DEF Computed, Number, List, Unique, FirstOf, Sum
  <2>6. CASE op = "COMPARE"
    BY <1>2, <2>6 DEF Computed, exactEqual, Truth
  <2> QED BY <2>1, <2>2, <2>3, <2>4, <2>5, <2>6, KnownOps, Asserting DEF NotComputed
<1> QED BY <1>1, <1>2

(* What LOAD_ARTIFACT loads is a binding.                                  *)
LoadsBinding(step) ==
    step.op = "LOAD_ARTIFACT" =>
        "binding" \in DOMAIN step.inputs /\ DOMAIN step.inputs["binding"] = {"bindingRef"}

(* A step of a validated program whose value decides is an assertion that  *)
(* is violated.                                                            *)
LEMMA DecisiveIsViolated ==
    ASSUME IInv, NEW step, step.op \in Known \ NotComputed, NEW outs,
           LoadsBinding(step),
           NEW outcome, outcome = StepOutcome(step, outs, input.supplied),
           Fits(Files, step.op, outcome), Decisive(outcome)
    PROVE  step.op \in ASSERTION_OPS /\ outcome = Verdict(FALSE)
<1> DEFINE in == [port \in DOMAIN step.inputs |->
                    resolveDagInput(step.inputs[port], outs, input.supplied)]
           missing == {port \in DOMAIN in : IsFailure(in[port])}
<1>1. ~IsFailure(outcome)
  BY DEF Fits
<1>2. missing = {}
  <2> SUFFICES ASSUME missing # {} PROVE FALSE
    OBVIOUS
  <2>1. PICK port \in missing : outcome = in[port]
    BY DEF StepOutcome
  <2> QED BY <1>1, <2>1
<1>3. outcome = Computed(step.op, in)
  <2>1. outcome = IF ~resolvedInputsFit(step.op, in) THEN Failed("INVALID_INPUT_TYPE")
                  ELSE Computed(step.op, in)
    BY <1>2 DEF StepOutcome
  <2>2. IsFailure(Failed("INVALID_INPUT_TYPE"))
    BY DEF Failed, Failure, IsFailure
  <2> QED BY <1>1, <2>1, <2>2
<1>4. ASSUME step.op = "LOAD_ARTIFACT" PROVE ~Is(in.binding, "verdict")
  <2> DEFINE name == step.inputs.binding.bindingRef
  <2>1. "binding" \in DOMAIN step.inputs /\ DOMAIN step.inputs["binding"] = {"bindingRef"}
    BY <1>4 DEF LoadsBinding
  <2>2. in.binding = resolveBinding(name, input.supplied)
    BY <2>1 DEF resolveDagInput
  <2>3. ~IsFailure(in.binding)
    BY <1>2, <2>1
  <2>4. name \in DOMAIN input.supplied /\ in.binding = input.supplied[name]
    <3> HIDE DEF in, name
    <3> QED BY <2>2, <2>3 DEF resolveBinding, IsFailure, Failed, Failure
  <2>5. Is(input.supplied[name], "file") \/ IsJson(input.supplied[name])
    BY <2>4, BindingsAreSupplied DEF IInv
  <2> QED BY <2>4, <2>5 DEF Is, IsJson, JsonKinds
<1> HIDE DEF in
<1>5. step.op \in ASSERTION_OPS
  BY <1>3, <1>4, OnlyAssertionsDecide DEF Decisive
<1> QED BY <1>5 DEF Fits, Verdicts, Verdict, Decisive

(* The outputs are the meanings of the executed steps, none of which       *)
(* decided while the worker goes on.                                       *)
Traced ==
    /\ worker \in {"none", "loading"} => next = 1
    /\ outputs = [id \in {Program.steps[i].id : i \in 1 .. next - 1} |-> outputs[id]]
    /\ \A i \in 1 .. next - 1 :
          /\ ~IsFailure(Meaning[i])
          /\ outputs[Program.steps[i].id] =
                [port \in {PORT_CONTRACTS[Program.steps[i].op].output} |-> Meaning[i]]
          /\ worker = "executing" => Meaning[i] # Verdict(FALSE)

Earned(result) ==
    /\ result.determination = "SATISFIED" => Refuted = {} /\ Broken = {}
    /\ result.determination = "VIOLATED" =>
          \E i \in Refuted : \A j \in 1 .. i : j \notin Broken

EInv ==
    /\ Traced
    /\ Earned(report)
    /\ \A answer \in answers : Earned(answer.result)

(* A step that has a meaning adds up exactly.                              *)
LEMMA SumsExact ==
    ASSUME Len(Program.steps) \in Nat,
           NEW j \in 1 .. Len(Program.steps), j \notin Broken
    PROVE  ~Overflows(j)
<1> DEFINE step == Program.steps[j]
           known == {k \in 1 .. j - 1 : ~IsFailure(Meaning[k])}
           outs == Given(Meaning, known)
           in == [port \in DOMAIN step.inputs |->
                    resolveDagInput(step.inputs[port], outs, input.supplied)]
<1> SUFFICES ASSUME step.op = "SUM"
             PROVE  \A k \in 0 .. Len(Summed(j)) : Safe(PartialSum(Summed(j))[k])
  BY DEF Overflows
<1>1. Meaning[j] = StepOutcome(step, outs, input.supplied) /\ ~IsFailure(Meaning[j])
  BY MeaningIsMeant DEF Meant, Broken
<1>2. known = {k \in 1 .. j - 1 : k \notin Broken}
  BY DEF Broken
<1>3. Summed(j) = in.value.list
  BY <1>2 DEF Summed
<1> HIDE DEF outs, known
<1>4. Meaning[j] = Computed("SUM", in)
  <2> DEFINE missing == {port \in DOMAIN in : IsFailure(in[port])}
  <2>1. StepOutcome(step, outs, input.supplied) =
            IF missing # {} THEN in[CHOOSE port \in missing : TRUE]
            ELSE IF ~resolvedInputsFit(step.op, in) THEN Failed("INVALID_INPUT_TYPE")
            ELSE Computed(step.op, in)
    BY DEF StepOutcome
  <2>2. missing # {} => IsFailure(in[CHOOSE port \in missing : TRUE])
    OBVIOUS
  <2>3. IsFailure(Failed("INVALID_INPUT_TYPE"))
    BY DEF IsFailure, Failed, Failure
  <2> HIDE DEF in, missing
  <2> QED BY <1>1, <2>1, <2>2, <2>3
<1> HIDE DEF in, step
<1>5. Meaning[j] = Sum(in.value.list)
  <2>1. IsFailure(Failed("COLLECTION_LIMIT"))
    BY DEF IsFailure, Failed, Failure
  <2> QED BY <1>1, <1>4, <2>1 DEF Computed
<1>6. IsFailure(Undetermined("INTEGER_OVERFLOW"))
  BY DEF IsFailure, Undetermined, Failure
<1> QED BY <1>1, <1>3, <1>5, <1>6 DEF Sum

(* No step changes what the steps of the program mean.                     *)
LEMMA MeaningSame ==
    ASSUME UNCHANGED <<spec, input>>
    PROVE  /\ Program' = Program /\ Meaning' = Meaning
           /\ \A result : Earned(result)' = Earned(result)
<1>1. Program' = Program
  BY DEF Program
<1>2. \A m, k : Given(m, k)' = Given(m, k)
  BY <1>1 DEF Given
<1>3. \A m, i : Meant(m, i)' = Meant(m, i)
  BY <1>1, <1>2 DEF Meant
<1>4. Meaning' = Meaning
  BY <1>1, <1>3 DEF Meaning
<1>5. Refuted' = Refuted /\ Broken' = Broken
  BY <1>1, <1>4 DEF Refuted, Broken, Assertions
<1> QED BY <1>1, <1>4, <1>5 DEF Earned

(* Nothing is executed initially.                                          *)
LEMMA InitEInv ==
    ASSUME Init
    PROVE  EInv
<1>1. outputs = [id \in {Program.steps[i].id : i \in 1 .. next - 1} |-> outputs[id]]
  <2>1. {Program.steps[i].id : i \in 1 .. next - 1} = {}
    BY DEF Init
  <2>2. <<>> = [id \in {} |-> <<>>[id]]
    OBVIOUS
  <2>3. outputs = <<>>
    BY DEF Init
  <2> QED BY <2>1, <2>2, <2>3
<1>2. Traced
  BY <1>1 DEF Init, Traced
<1> QED BY <1>2 DEF Init, EInv, Earned, None

(* What leaves the outputs alone and lets no worker go on leaves them      *)
(* traced.                                                                 *)
LEMMA StillTraced ==
    ASSUME Traced, UNCHANGED <<spec, input, next, outputs>>,
           worker' \in {"none", "loading"} => next = 1,
           worker' = "executing" => worker = "executing" \/ next = 1
    PROVE  Traced'
<1>1. Program' = Program /\ Meaning' = Meaning
  BY MeaningSame
<1>2. \A i \in 1 .. next - 1 : worker' = "executing" => worker = "executing"
  OBVIOUS
<1>3. next' = next /\ outputs' = outputs
  OBVIOUS
<1>4. (outputs = [id \in {Program.steps[i].id : i \in 1 .. next - 1} |-> outputs[id]])'
  <2>1. outputs = [id \in {Program.steps[i].id : i \in 1 .. next - 1} |-> outputs[id]]
    BY DEF Traced
  <2> QED BY <1>1, <1>3, <2>1
<1>5. \A i \in 1 .. next - 1 :
          /\ ~IsFailure(Meaning[i])
          /\ outputs[Program.steps[i].id] =
                [port \in {PORT_CONTRACTS[Program.steps[i].op].output} |-> Meaning[i]]
          /\ worker' = "executing" => Meaning[i] # Verdict(FALSE)
  BY <1>2 DEF Traced
<1>6. (\A i \in 1 .. next - 1 :
          /\ ~IsFailure(Meaning[i])
          /\ outputs[Program.steps[i].id] =
                [port \in {PORT_CONTRACTS[Program.steps[i].op].output} |-> Meaning[i]]
          /\ worker = "executing" => Meaning[i] # Verdict(FALSE))'
  BY <1>1, <1>3, <1>5 DEF IsFailure, Verdict
<1>7. (worker \in {"none", "loading"} => next = 1)'
  BY <1>3
<1> QED BY <1>4, <1>6, <1>7 DEF Traced

(* A failure reports no determination of its own.                          *)
LEMMA FailureEarned ==
    ASSUME NEW code, NEW disposition
    PROVE  Earned(executionFailure(code, disposition))
BY DEF Earned, executionFailure

(* The page reports what a worker answered, or a failure.                  *)
LEMMA PageEInv ==
    ASSUME IInv, EInv,
           \/ Execute \/ Unavailable \/ Deadline \/ WorkerError
           \/ \E answer \in answers : Receive(answer)
    PROVE  EInv'
<1>1. UNCHANGED <<spec, input, next, outputs>> /\ answers' \subseteq answers
  BY DEF Execute, Unavailable, Deadline, WorkerError, Receive
<1>2. \A result : Earned(result)' = Earned(result)
  BY <1>1, MeaningSame
<1>3. \/ report' = report
      \/ \E code, disposition : report' = executionFailure(code, disposition)
      \/ \E answer \in answers : report' = answer.result
  BY DEF Execute, Unavailable, Deadline, WorkerError, Receive, Finish
<1>4. Earned(report')
  BY <1>3, FailureEarned DEF EInv
<1>5. worker' \in {worker, "terminated"} \/ (worker' = "loading" /\ worker = "none")
  BY DEF Execute, Unavailable, Deadline, WorkerError, Receive, Finish, IInv, Control
<1>6. Traced'
  <2>1. Traced
    BY DEF EInv
  <2>2. worker' \in {"none", "loading"} => next = 1
    BY <1>5, <2>1 DEF Traced
  <2> QED BY <1>1, <1>5, <2>1, <2>2, StillTraced
<1>7. Earned(report)'
  BY <1>2, <1>4 DEF Earned, Refuted, Broken
<1> QED BY <1>1, <1>2, <1>6, <1>7 DEF EInv

(* The worker begins with no outputs.                                      *)
LEMMA BeginEInv ==
    ASSUME IInv, EInv, Begin
    PROVE  EInv'
<1>1. /\ UNCHANGED <<spec, input, report, next, outputs>>
      /\ worker = "loading"
  BY DEF Begin
<1>2. \A result : Earned(result)' = Earned(result)
  BY <1>1, MeaningSame
<1>3. \/ worker' = "executing" /\ answers' = answers
      \/ worker' = "done" /\ \E code, disposition :
            answers' = answers \cup {Answer(executionFailure(code, disposition))}
  BY DEF Begin, Post
<1>4. Traced'
  <2>1. Traced /\ next = 1
    BY <1>1 DEF EInv, Traced
  <2> QED BY <1>1, <1>3, <2>1, StillTraced
<1>5. \A answer \in answers' : Earned(answer.result)
  BY <1>3, FailureEarned DEF EInv, Answer
<1> QED BY <1>1, <1>2, <1>4, <1>5 DEF EInv

(* The step that is executed next means what it yields.                    *)
LEMMA NextMeaning ==
    ASSUME IInv, EInv, worker = "executing", next <= Len(Program.steps),
           Len(Program.steps) \in Nat
    PROVE  Meaning[next] = StepOutcome(Program.steps[next], outputs, input.supplied)
<1>1. next \in 1 .. Len(Program.steps)
  BY DEF IInv, Executed
<1>2. Meaning[next] = Meant(Meaning, next)
  BY <1>1, MeaningIsMeant
<1> DEFINE prior == 1 .. next - 1
           produced(id) == CHOOSE j \in prior : Program.steps[j].id = id
<1>3. {j \in 1 .. next - 1 : ~IsFailure(Meaning[j])} = prior
  BY DEF EInv, Traced
<1>4. Given(Meaning, prior) = outputs
  <2>1. outputs = [id \in {Program.steps[i].id : i \in prior} |-> outputs[id]]
    BY DEF EInv, Traced
  <2>2. \A i \in prior : outputs[Program.steps[i].id] =
                [port \in {PORT_CONTRACTS[Program.steps[i].op].output} |-> Meaning[i]]
    BY DEF EInv, Traced
  <2>3. \A id \in {Program.steps[j].id : j \in prior} :
          produced(id) \in prior /\ Program.steps[produced(id)].id = id
    OBVIOUS
  <2>4. \A id \in {Program.steps[j].id : j \in prior} :
          outputs[id] = [port \in {PORT_CONTRACTS[Program.steps[produced(id)].op].output} |->
                           Meaning[produced(id)]]
    <3> HIDE DEF produced, prior
    <3> QED BY <2>2, <2>3
  <2>5. Given(Meaning, prior) =
          [id \in {Program.steps[j].id : j \in prior} |->
             [port \in {PORT_CONTRACTS[Program.steps[produced(id)].op].output} |->
                Meaning[produced(id)]]]
    BY DEF Given
  <2> HIDE DEF produced, prior
  <2> QED BY <2>1, <2>4, <2>5
<1> HIDE DEF prior
<1> QED BY <1>2, <1>3, <1>4 DEF Meant

(* A step joins its meaning to the outputs; if it fails or decides, it is  *)
(* the last.                                                               *)
LEMMA StepEInv ==
    ASSUME IInv, EInv, ExecuteStep
    PROVE  EInv'
<1> DEFINE step == Program.steps[next]
           outcome == StepOutcome(step, outputs, input.supplied)
           contract == PORT_CONTRACTS[step.op].output
<1>1. /\ UNCHANGED <<spec, input, report>>
      /\ worker = "executing"
      /\ next <= Len(Program.steps)
  BY DEF ExecuteStep
<1>2. Program' = Program /\ Meaning' = Meaning /\ \A result : Earned(result)' = Earned(result)
  BY <1>1, MeaningSame
<1>3. /\ validateDagSpec(Program, input.declared)
      /\ \A i \in 1 .. Len(Program.steps) : Program.steps[i].op \notin NotComputed
  BY <1>1, ProgramShape DEF IInv, Executed
<1>4. /\ Len(Program.steps) \in Nat /\ next \in Nat \ {0}
      /\ next \in 1 .. Len(Program.steps)
      /\ validStep(Program, next, input.declared)
  BY <1>1, <1>3, LimitsArePositive DEF IInv, Executed, validateDagSpec
<1>5. Meaning[next] = outcome
  BY <1>1, <1>4, NextMeaning
<1>6. CASE IsFailure(outcome)
  <2>1. /\ Post(executionFailure(outcome.code, outcome.disposition))
        /\ UNCHANGED <<next, outputs>>
    BY <1>6 DEF ExecuteStep
  <2> HIDE DEF outcome
  <2>2. Traced'
    BY <1>1, <2>1, StillTraced DEF EInv, Post
  <2>3. \A answer \in answers' : Earned(answer.result)
    BY <2>1, FailureEarned DEF EInv, Post, Answer
  <2> QED BY <1>1, <1>2, <2>2, <2>3 DEF EInv
<1>7. CASE ~IsFailure(outcome)
  <2>1. /\ outputs' = Produced(step, outcome)
        /\ next' = next + 1
        /\ IF Decisive(outcome) THEN Post(executionResult("VIOLATED"))
           ELSE UNCHANGED <<worker, answers>>
    BY <1>7 DEF ExecuteStep
  <2>2. Fits(Files, step.op, outcome)
    <3>1. Resolvable(input.declared, input.supplied)
      BY BindingsAreSupplied DEF IInv, Resolvable, Is, IsJson, JsonKinds, IsFailure
    <3>2. Holds(Program, Files, outputs, next - 1)
      BY DEF IInv, Executed
    <3>3. next - 1 \in Nat /\ next - 1 < Len(Program.steps) /\ (next - 1) + 1 = next
      BY <1>4
    <3> QED BY <1>3, <1>4, <1>7, <3>1, <3>2, <3>3, OutcomeIsSound DEF Files
  <2>3. ASSUME Decisive(outcome)
        PROVE  step.op \in ASSERTION_OPS /\ outcome = Verdict(FALSE)
    <3>1. step.op \in Known \ NotComputed
      BY <1>3, <1>4 DEF validStep
    <3>2. LoadsBinding(step)
      BY <1>4, BytePorts DEF validStep, validInput, isInputRef, LoadsBinding
    <3>3. outcome = StepOutcome(step, outputs, input.supplied)
      OBVIOUS
    <3> HIDE DEF step, outcome
    <3> QED BY <2>2, <2>3, <3>1, <3>2, <3>3, DecisiveIsViolated DEF Verdict
  <2>4. outcome = Verdict(FALSE) => Decisive(outcome)
    BY DEF Verdict, Decisive, Is
  <2>5. \A i \in 1 .. next - 1 : Program.steps[i].id # step.id
    BY <1>4 DEF validStep, PriorSteps
  <2>6. 1 .. next' - 1 = 1 .. next - 1 \cup {next}
    BY <1>4, <2>1
  <2>7. DOMAIN outputs = {Program.steps[i].id : i \in 1 .. next - 1}
    BY DEF EInv, Traced
  <2> HIDE DEF outcome
  <2>8. outputs' = [id \in {Program.steps[i].id : i \in 1 .. next' - 1} |-> outputs'[id]]
    <3>1. {step.id} \cup DOMAIN outputs = {Program.steps[i].id : i \in 1 .. next' - 1}
      BY <2>6, <2>7
    <3>2. outputs' = [id \in {step.id} \cup DOMAIN outputs |-> outputs'[id]]
      BY <2>1 DEF Produced
    <3> QED BY <3>1, <3>2
  <2>9. outputs'[step.id] = [port \in {contract} |-> outcome]
    BY <2>1 DEF Produced
  <2>10. \A i \in 1 .. next - 1 : outputs'[Program.steps[i].id] = outputs[Program.steps[i].id]
    BY <2>1, <2>5, <2>7 DEF Produced
  <2>11. ASSUME NEW i \in 1 .. next' - 1
         PROVE  /\ ~IsFailure(Meaning[i])
                /\ outputs'[Program.steps[i].id] =
                     [port \in {PORT_CONTRACTS[Program.steps[i].op].output} |-> Meaning[i]]
                /\ worker' = "executing" => Meaning[i] # Verdict(FALSE)
    <3>1. CASE i = next
      <4>1. worker' = "executing" => ~Decisive(outcome)
        BY <2>1 DEF Post
      <4> QED BY <1>5, <1>7, <2>4, <2>9, <3>1, <4>1
    <3>2. CASE i \in 1 .. next - 1
      BY <1>1, <2>10, <3>2 DEF EInv, Traced
    <3> QED BY <2>6, <3>1, <3>2
  <2>12. Traced'
    <3>1. (\A i \in 1 .. next - 1 :
             /\ ~IsFailure(Meaning[i])
             /\ outputs[Program.steps[i].id] =
                  [port \in {PORT_CONTRACTS[Program.steps[i].op].output} |-> Meaning[i]]
             /\ worker = "executing" => Meaning[i] # Verdict(FALSE))'
      BY <1>2, <2>11 DEF IsFailure, Verdict
    <3>2. (outputs = [id \in {Program.steps[i].id : i \in 1 .. next - 1} |-> outputs[id]])'
      BY <1>2, <2>8
    <3>3. (worker \in {"none", "loading"} => next = 1)'
      BY <1>1, <2>1 DEF Post
    <3> QED BY <3>1, <3>2, <3>3 DEF Traced
  <2>13. Decisive(outcome) => Earned(executionResult("VIOLATED"))
    <3> SUFFICES ASSUME Decisive(outcome)
                 PROVE  \E i \in Refuted : \A j \in 1 .. i : j \notin Broken
      BY DEF Earned, executionResult
    <3>1. next \in Refuted
      BY <1>4, <1>5, <1>7, <2>3 DEF Refuted, Assertions
    <3>2. ASSUME NEW j \in 1 .. next PROVE j \notin Broken
      <4>1. j \in 1 .. next' - 1
        BY <1>4, <2>1
      <4> QED BY <2>11, <4>1 DEF Broken
    <3> QED BY <3>1, <3>2
  <2>14. \A answer \in answers' : Earned(answer.result)
    BY <2>1, <2>13 DEF EInv, Post, Answer
  <2> QED BY <1>1, <1>2, <2>12, <2>14 DEF EInv
<1> QED BY <1>6, <1>7

(* After the last step no step is broken and no assertion refuted, so the  *)
(* result that is named is satisfied.                                      *)
LEMMA ConcludeEInv ==
    ASSUME IInv, EInv, Conclude
    PROVE  EInv'
<1> DEFINE last == Len(Program.steps)
           result == Program.result
           verdict == outputs[result.stepRef][result.output]
<1>1. /\ UNCHANGED <<spec, input, report, next, outputs>>
      /\ worker = "executing" /\ worker' = "done" /\ next > last
  BY DEF Conclude, Post
<1>2. \A r : Earned(r)' = Earned(r)
  BY <1>1, MeaningSame
<1>3. validateDagSpec(Program, input.declared)
  BY <1>1, ProgramShape DEF IInv, Executed
<1>4. last \in 1 .. MaxSteps /\ next = last + 1 /\ next - 1 = last
  BY <1>1, <1>3, LimitsArePositive DEF IInv, Executed, validateDagSpec
<1>5. DOMAIN Program.steps = 1 .. last
  BY <1>1, ProgramShape DEF IInv, Executed
<1>6. PICK i \in 1 .. last :
         /\ Program.steps[i].id = result.stepRef
         /\ Program.steps[i].op \in ASSERTION_OPS
         /\ result.output = PORT_CONTRACTS[Program.steps[i].op].output
  BY <1>3, <1>5 DEF validateDagSpec, validResult, ToSet
<1>7. \A j \in 1 .. last : ~IsFailure(Meaning[j]) /\ Meaning[j] # Verdict(FALSE)
  BY <1>1, <1>4 DEF EInv, Traced
<1>8. Refuted = {} /\ Broken = {}
  BY <1>7 DEF Refuted, Broken, Assertions
<1>9. result.stepRef \in DOMAIN outputs /\ verdict = Meaning[i]
  <2>1. outputs[result.stepRef] =
            [port \in {PORT_CONTRACTS[Program.steps[i].op].output} |-> Meaning[i]]
    BY <1>4, <1>6 DEF EInv, Traced
  <2>2. DOMAIN outputs = {Program.steps[j].id : j \in 1 .. last}
    BY <1>4 DEF EInv, Traced
  <2> QED BY <1>6, <2>1, <2>2
<1>10. verdict \in Verdicts
  BY <1>4, <1>6 DEF IInv, Executed, Holds, Fits
<1>11. verdict = Verdict(TRUE)
  BY <1>7, <1>9, <1>10 DEF Verdicts
<1>12. answers' = answers \cup {Answer(executionResult("SATISFIED"))}
  BY <1>9, <1>11 DEF Conclude, Post, Verdict
<1>13. Earned(executionResult("SATISFIED"))
  BY <1>8 DEF Earned, executionResult
<1>14. \A answer \in answers' : Earned(answer.result)
  BY <1>12, <1>13 DEF EInv, Answer
<1>15. Traced'
  BY <1>1, StillTraced DEF EInv
<1> QED BY <1>1, <1>2, <1>14, <1>15 DEF EInv

(* Whatever the order of answers, failures and the deadline, a reported    *)
(* SATISFIED means that no step of the specification fails and every       *)
(* assertion of it holds, also those behind the one the result names, and  *)
(* a reported VIOLATED that an assertion fails to hold with no failing     *)
(* step before it; no sum either rests on was inexact, and neither comes   *)
(* from another build (execute, executeTest).                              *)
THEOREM DeterminationsEarned == Spec => []DeterminationEarned
<1>1. IInv /\ EInv /\ [Next]_vars => EInv'
  <2> SUFFICES ASSUME IInv, EInv, [Next]_vars PROVE EInv'
    OBVIOUS
  <2>1. CASE UNCHANGED vars
    <3>1. \A result : Earned(result)' = Earned(result)
      BY <2>1, MeaningSame DEF vars
    <3>2. Traced'
      BY <2>1, StillTraced DEF EInv, vars, Traced
    <3> QED BY <2>1, <3>1, <3>2 DEF vars, EInv
  <2>2. CASE \/ Execute \/ Unavailable \/ Deadline \/ WorkerError
             \/ \E answer \in answers : Receive(answer)
    BY <2>2, PageEInv
  <2>3. CASE Begin
    BY <2>3, BeginEInv
  <2>4. CASE ExecuteStep
    BY <2>4, StepEInv
  <2>5. CASE Conclude
    BY <2>5, ConcludeEInv
  <2> QED BY <2>1, <2>2, <2>3, <2>4, <2>5 DEF Next
<1>2. IInv /\ EInv => DeterminationEarned
  <2> SUFFICES ASSUME IInv, EInv PROVE DeterminationEarned
    OBVIOUS
  <2>1. Len(Program.steps) \in Nat
    BY ProgramLength DEF IInv
  <2>2. \A i \in Refuted : i \in 1 .. Len(Program.steps)
    BY DEF Refuted, Assertions
  <2>3. Earned(report) /\ FromThisBuild
    BY DEF IInv, EInv
  <2>4. ASSUME NEW i \in 1 .. Len(Program.steps), \A j \in 1 .. i : j \notin Broken
        PROVE  \A j \in 1 .. i : ~Overflows(j)
    BY <2>1, <2>4, SumsExact
  <2>5. Broken = {} => \A j \in 1 .. Len(Program.steps) : ~Overflows(j)
    BY <2>1, SumsExact
  <2> QED BY <2>2, <2>3, <2>4, <2>5 DEF Earned, DeterminationEarned
<1> QED BY <1>1, <1>2, InitEInv, Invariance, PTL DEF Spec
=============================================================================
