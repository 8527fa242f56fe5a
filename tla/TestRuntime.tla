---------------------------- MODULE TestRuntime ----------------------------
(***************************************************************************)
(* One execution of a deterministic test: the page validates the           *)
(* specification and gives it to a worker of its own with a deadline       *)
(* (executeTest in test-runtime.js), the worker validates it again and     *)
(* executes it step by step (test-worker.js, execute), and whichever comes *)
(* first of the worker's answer, its failure and the deadline settles the  *)
(* execution.                                                              *)
(***************************************************************************)
EXTENDS TestIR

CONSTANTS
    Specifications,   \* the specifications that may be executed
    Inputs,           \* [declared, supplied, genuine]: declared names,
                      \* the values supplied for them, and whether their
                      \* bytes have the digests they are declared with
    Builds,           \* build identities
    Manifested        \* whether the page runs a manifested build

ASSUME DeploymentKnown == Manifested \in BOOLEAN

(* The specifications keep to the operations whose results are modelled.   *)
ASSUME SpecificationsAreModelled ==
    \A s \in Specifications :
        /\ Len(s.steps) \in Nat
        /\ DOMAIN s.steps = 1 .. Len(s.steps)
        /\ \A step \in ToSet(s.steps) : step.op \notin NotComputed

(* nativeTestInputs gives every declared binding a file or a value.        *)
ASSUME BindingsAreSupplied ==
    \A i \in Inputs :
        /\ i.declared \subseteq DOMAIN i.supplied
        /\ \A name \in DOMAIN i.supplied :
              Is(i.supplied[name], "file") \/ IsJson(i.supplied[name])

VARIABLES
    spec,        \* the specification of the test
    input,       \* its bindings and their values
    build,       \* the build of the page, and of the script its worker loaded
    page,        \* "idle", "waiting" or "settled"
    report,      \* what executeTest resolved with
    worker,      \* "none", "loading", "executing", "done" or "terminated"
    next,        \* the step the worker executes next
    outputs,     \* the outputs of the executed steps, by step id
    answers      \* answers posted to the page and not yet received

vars == <<spec, input, build, page, report, worker, next, outputs, answers>>

None == [status |-> "NONE", determination |-> "NONE", code |-> "NONE"]

(* Wrong: what the error says of itself is taken for a determination.      *)
DispositionDetermines(code, disposition) ==
    [status |-> disposition, determination |-> disposition, code |-> code]

(* executionFailure: the only determination of a failure is UNDETERMINED.  *)
executionFailure(code, disposition) ==
    [status |-> IF disposition = "UNDETERMINED" THEN "UNDETERMINED"
                ELSE "EXECUTION_FAILED",
     determination |-> "UNDETERMINED", code |-> code]

executionResult(determination) ==
    [status |-> determination, determination |-> determination, code |-> "NONE"]

Answer(result) == [result |-> result, build |-> build.worker]

Init ==
    /\ spec \in Specifications
    /\ input \in Inputs
    /\ build \in [page : Builds, worker : Builds]
    /\ page = "idle"
    /\ report = None
    /\ worker = "none"
    /\ next = 1
    /\ outputs = <<>>
    /\ answers = {}

(***************************************************************************)
(* The page.                                                               *)
(***************************************************************************)

(* Wrong: a later call settles the execution again.                        *)
FinishAgain(result) ==
    /\ page' = "settled"
    /\ report' = result
    /\ worker' = "terminated"

(* finish: only the first call settles the execution; it clears the timer  *)
(* and terminates the worker.  An answer the worker has posted may be      *)
(* dispatched all the same.                                                *)
Finish(result) ==
    IF page = "settled"
      THEN UNCHANGED <<page, report, worker>>
      ELSE /\ page' = "settled"
           /\ report' = result
           /\ worker' = "terminated"

(* executeTest: an invalid specification, or a browser without workers,    *)
(* resolves at once.                                                       *)
Execute ==
    /\ page = "idle"
    /\ IF validateSpec(spec, input.declared)
         THEN /\ page' = "waiting"
              /\ worker' = "loading"
              /\ UNCHANGED report
         ELSE /\ page' = "settled"
              /\ report' = executionFailure("INVALID_TEST_IR", "EXECUTION_FAILED")
              /\ UNCHANGED worker
    /\ UNCHANGED <<spec, input, build, next, outputs, answers>>

Unavailable ==
    /\ page = "idle"
    /\ validateSpec(spec, input.declared)
    /\ page' = "settled"
    /\ report' = executionFailure("WORKER_UNAVAILABLE", "EXECUTION_FAILED")
    /\ UNCHANGED <<spec, input, build, worker, next, outputs, answers>>

(* Wrong: the timer is started when the worker has loaded.                 *)
DeadlineOnceLoaded ==
    /\ page = "waiting"
    /\ worker \in {"executing", "done"}
    /\ Finish(executionFailure("WORKER_TIMEOUT", "EXECUTION_FAILED"))
    /\ UNCHANGED <<spec, input, build, next, outputs, answers>>

Deadline ==
    /\ page = "waiting"
    /\ Finish(executionFailure("WORKER_TIMEOUT", "EXECUTION_FAILED"))
    /\ UNCHANGED <<spec, input, build, next, outputs, answers>>

(* worker.onerror: the scripts did not load, or threw outside a command.   *)
WorkerError ==
    /\ worker \in {"loading", "executing"}
    /\ Finish(executionFailure("WORKER_ERROR", "EXECUTION_FAILED"))
    /\ UNCHANGED <<spec, input, build, next, outputs, answers>>

(* worker.onmessage: a result of another build than the page's is refused. *)
Receive(answer) ==
    /\ answers' = answers \ {answer}
    /\ Finish(IF answer.result.code = "NONE" /\ Manifested /\ answer.build # build.page
                THEN executionFailure("WORKER_RESULT_IDENTITY_MISMATCH",
                                      "EXECUTION_FAILED")
                ELSE answer.result)
    /\ UNCHANGED <<spec, input, build, next, outputs>>

(***************************************************************************)
(* The worker.                                                             *)
(***************************************************************************)
Program == normalizeSpec(spec)

Post(result) ==
    /\ worker' = "done"
    /\ answers' = answers \cup {Answer(result)}

(* The worker validates the specification it was posted, and execute the   *)
(* bytes of every artifact and canonical value against their digests.      *)
Begin ==
    /\ worker = "loading"
    /\ IF ~validateSpec(Program, input.declared)
         THEN Post(executionFailure("INVALID_TEST_IR", "EXECUTION_FAILED"))
       ELSE IF ~input.genuine
         THEN Post(executionFailure("ARTIFACT_HASH_MISMATCH", "EXECUTION_FAILED"))
       ELSE worker' = "executing" /\ UNCHANGED answers
    /\ UNCHANGED <<spec, input, build, page, report, next, outputs>>

Produced(step, value) ==
    [id \in {step.id} \cup DOMAIN outputs |->
       IF id = step.id
         THEN [port \in {PORT_CONTRACTS[step.op].output} |-> value]
         ELSE outputs[id]]

(* Wrong: a violated assertion does not end the execution.                 *)
DecidesNothing(value) == FALSE

(* The first violated assertion is decisive.                               *)
Decisive(value) == Is(value, "verdict") /\ value.verdict = "VIOLATED"

ExecuteStep ==
    /\ worker = "executing"
    /\ next <= Len(Program.steps)
    /\ LET step == Program.steps[next]
           outcome == StepOutcome(step, outputs, input.supplied)
       IN  IF IsFailure(outcome)
             THEN /\ Post(executionFailure(outcome.code, outcome.disposition))
                  /\ UNCHANGED <<next, outputs>>
             ELSE /\ outputs' = Produced(step, outcome)
                  /\ next' = next + 1
                  /\ IF Decisive(outcome)
                       THEN Post(executionResult("VIOLATED"))
                       ELSE UNCHANGED <<worker, answers>>
    /\ UNCHANGED <<spec, input, build, page, report>>

(* After the last step the result the specification names is reported.     *)
Conclude ==
    /\ worker = "executing"
    /\ next > Len(Program.steps)
    /\ LET result == Program.result
       IN  Post(IF result.stepRef \in DOMAIN outputs
                  THEN executionResult(outputs[result.stepRef][result.output].verdict)
                  ELSE executionFailure("RESULT_OUTPUT_UNAVAILABLE", "EXECUTION_FAILED"))
    /\ UNCHANGED <<spec, input, build, page, report, next, outputs>>

Next ==
    \/ Execute
    \/ Unavailable
    \/ Deadline
    \/ WorkerError
    \/ \E answer \in answers : Receive(answer)
    \/ Begin
    \/ ExecuteStep
    \/ Conclude

(* The timer of the page fires, and a page executes the test it is given.  *)
Fairness == WF_vars(Execute) /\ WF_vars(Deadline)

Spec == Init /\ [][Next]_vars /\ Fairness

(***************************************************************************)
(* Properties.                                                             *)
(***************************************************************************)
Results == {None} \cup {answer.result : answer \in answers} \cup {report}

(* Every variable keeps its type.                                          *)
TypeOK ==
    /\ page \in {"idle", "waiting", "settled"}
    /\ worker \in {"none", "loading", "executing", "done", "terminated"}
    /\ next \in 1 .. MaxSteps + 1
    /\ DOMAIN outputs \subseteq {Program.steps[i].id : i \in 1 .. next - 1}
    /\ \A result \in Results :
          result.determination \in {"SATISFIED", "VIOLATED", "UNDETERMINED", "NONE"}

(* What every step of the specification means, whether or not an earlier   *)
(* assertion ends the execution before it: the reference for execute.      *)
Given(meaning, known) ==
    LET steps == Program.steps
        produced(id) == CHOOSE j \in known : steps[j].id = id
    IN  [id \in {steps[j].id : j \in known} |->
           [port \in {PORT_CONTRACTS[steps[produced(id)].op].output} |->
              meaning[produced(id)]]]
Meant(meaning, i) ==
    StepOutcome(Program.steps[i],
                Given(meaning, {j \in 1 .. i - 1 : ~IsFailure(meaning[j])}),
                input.supplied)
Meaning == LET meaning[i \in 1 .. Len(Program.steps)] == Meant(meaning, i) IN meaning

Assertions == {i \in 1 .. Len(Program.steps) : Program.steps[i].op \in ASSERTION_OPS}
Refuted == {i \in Assertions : ~IsFailure(Meaning[i]) /\ Meaning[i] = Verdict(FALSE)}
Broken == {i \in 1 .. Len(Program.steps) : IsFailure(Meaning[i])}

(* The list a SUM step adds up, and whether its total leaves the safe      *)
(* integers on the way, even if the rest of the list brings it back.       *)
Summed(i) ==
    LET before == Given(Meaning, {j \in 1 .. i - 1 : j \notin Broken})
        step == Program.steps[i]
        in == [port \in DOMAIN step.inputs |->
                 resolveDagInput(step.inputs[port], before, input.supplied)]
    IN  in.value.list
Overflows(i) ==
    /\ Program.steps[i].op = "SUM"
    /\ \E k \in 0 .. Len(Summed(i)) : ~Safe(PartialSum(Summed(i))[k])

(* A manifested page reports no determination of another build.            *)
FromThisBuild ==
    report.determination \in {"SATISFIED", "VIOLATED"} /\ Manifested =>
        build.worker = build.page

(* A test is reported satisfied only when no step fails and every one of   *)
(* its assertions holds, also those after the step the result names, and   *)
(* violated only for an assertion that no failing step precedes; neither   *)
(* rests on a sum that was not exact, and a manifested page takes neither  *)
(* from another build (execute breaks at the first violated assertion and  *)
(* adds up step by step; executeTest compares build identities).           *)
DeterminationEarned ==
    /\ report.determination = "SATISFIED" =>
          /\ Refuted = {} /\ Broken = {}
          /\ \A j \in 1 .. Len(Program.steps) : ~Overflows(j)
    /\ report.determination = "VIOLATED" =>
          \E i \in Refuted : \A j \in 1 .. i : j \notin Broken /\ ~Overflows(j)
    /\ FromThisBuild

(* A specification that validateSpec accepts never reaches a step whose    *)
(* operand was not produced, a result that is not there or, when all its   *)
(* bindings are files, an operation on bytes that is given something else. *)
ValidationIsSound ==
    \A result \in Results :
        /\ result.code \notin {"MISSING_STEP_OUTPUT", "RESULT_OUTPUT_UNAVAILABLE",
                               "MISSING_BINDING"}
        /\ result.code = "BYTES_REQUIRED" =>
              \E name \in input.declared : ~Is(input.supplied[name], "file")

(* Once settled, an execution keeps the result it reported and its worker  *)
(* computes nothing more, however late its answer or its failure arrives   *)
(* (finish in executeTest).                                                *)
SettledForGood ==
    [][page = "settled" => UNCHANGED <<page, report, worker, outputs>>]_vars

(* Every execution is settled, also when its worker never answers: its     *)
(* timer runs until then (setTimeout in executeTest).                      *)
ExecutionsSettle == <>(page = "settled")

=============================================================================
