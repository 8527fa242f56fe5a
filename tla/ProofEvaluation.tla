-------------------------- MODULE ProofEvaluation --------------------------
(***************************************************************************)
(* When is a requirement proven?  An author returns a verification suite   *)
(* at stage 6: for every proposition a proof expression over tests and     *)
(* over other propositions, with the stage from which each leaf may be     *)
(* evaluated and the stage by which it must be.  An independent reviewer   *)
(* accepts or disputes the suite, later stages return evidence, and after  *)
(* every command the engine derives what each proposition's verdict is,    *)
(* which stages are complete, and which stage is the current one.          *)
(* A project is a record:                                                  *)
(*   suite      the suite of the last author, version its number;          *)
(*   reviews    the reviews that stand, of this version or an earlier one; *)
(*   evidence   accepted entailments, each from an observation of a test;  *)
(*   ran        tests the application ran itself on the current product;   *)
(*   done       the stages with accepted work;                             *)
(*   complete, stage, verdict   what recalculate derived last.             *)
(* A suite has nodes, each of the expression of its owner; root gives the  *)
(* top node of a proposition's expression, 0 if it has none.               *)
(***************************************************************************)
EXTENDS Integers, Sequences, FiniteSets, FiniteSetsExt

CONSTANTS
    Propositions,
    Tests,
    Suites,          \* verification suites that an author may return
    Stages,          \* the modelled stages of the thirty
    EvidenceStages,  \* those whose responses bring observations
    MaxVersion,      \* bound: suites returned
    MaxEvidence      \* bound: accepted entailments that stand

AuthorStage == 6
ConvergenceStage == 18
ProductStage == 21
NativeStage == 22

ASSUME StagesAreModelled ==
    /\ {AuthorStage, ConvergenceStage, ProductStage, NativeStage} \subseteq Stages
    /\ Stages \subseteq 6..30
    /\ EvidenceStages \subseteq Stages \ {AuthorStage}
    /\ MaxVersion \in Nat
    /\ MaxEvidence \in Nat

VARIABLE project

Operators == {"ALL_OF", "ANY_OF", "AT_LEAST_K"}
NoTiming == [earliest |-> 0, requiredBy |-> 0, phase |-> "none"]
EmptySuite ==
    [nodes |-> <<>>, root |-> [q \in Propositions |-> 0],
     tests |-> [t \in Tests |-> [targets |-> {}, timing |-> NoTiming]],
     optional |-> {}, applicable |-> {}]

(***************************************************************************)
(* The suite: prerequisites, cycles, timing and review.                    *)
(***************************************************************************)
OwnNodes(suite, q) == {n \in DOMAIN suite.nodes : suite.nodes[n].owner = q}
IsTiming(timing) == timing.earliest \in Nat /\ timing.requiredBy \in Nat

(* Expressions are trees, their nodes numbered from the top down, over     *)
(* propositions and tests that exist; they may refer to one another in a   *)
(* circle.                                                                 *)
IsSuite(suite) ==
    /\ Len(suite.nodes) \in Nat
    /\ DOMAIN suite.nodes = 1..Len(suite.nodes)
    /\ \A n \in DOMAIN suite.nodes :
          LET x == suite.nodes[n]
          IN  /\ x.owner \in Propositions
              /\ x.type \in Operators \cup {"test", "proposition", "obligation", "applicability"}
              /\ x.children \subseteq {c \in OwnNodes(suite, x.owner) : c > n}
              /\ x.k \in Nat
              /\ x.type = "test" => x.target \in Tests
              /\ x.type \in {"proposition", "obligation"} => x.target \in Propositions
              /\ IsTiming(x.timing)
    /\ \A q \in Propositions : suite.root[q] \in OwnNodes(suite, q) \cup {0}
    /\ \A t \in Tests : suite.tests[t].targets \subseteq Propositions /\ IsTiming(suite.tests[t].timing)
    /\ suite.applicable \subseteq Propositions

ASSUME SuitesAreExpressions ==
    /\ IsFiniteSet(Propositions)
    /\ \A suite \in Suites : IsSuite(suite)

(* A leaf that names a proposition with an expression of its own: that     *)
(* expression is evaluated in its place.                                   *)
IsPrerequisite(suite, n) ==
    /\ suite.nodes[n].type \in {"proposition", "obligation"}
    /\ suite.root[suite.nodes[n].target] # 0
Prerequisites(suite, q) ==
    {suite.nodes[n].target : n \in {m \in OwnNodes(suite, q) : IsPrerequisite(suite, m)}}

(* What an expression needs, directly or through others: whatever a walk   *)
(* that leaves out no prerequisite visits.                                 *)
Closure(suite, from) ==
    {r \in Propositions :
        \A visited \in SUBSET Propositions :
            /\ from \subseteq visited
            /\ \A v \in visited : Prerequisites(suite, v) \subseteq visited
            => r \in visited}
Needs(suite, q) == Closure(suite, {q})
NodesOf(suite, q) ==
    LET needs == Needs(suite, q) IN {n \in DOMAIN suite.nodes : suite.nodes[n].owner \in needs}

(* proofReferenceCycleReason.                                              *)
Acyclic(suite, q) ==
    \A r \in Needs(suite, q) : r \notin Closure(suite, Prerequisites(suite, r))

LeafNodes(suite, q) ==
    {n \in NodesOf(suite, q) : suite.nodes[n].type \notin Operators /\ ~IsPrerequisite(suite, n)}
TimingOf(suite, n) ==
    IF suite.nodes[n].type = "test" THEN suite.tests[suite.nodes[n].target].timing
    ELSE suite.nodes[n].timing

(* acceptedProofReviews: one review speaks for the whole suite, and a      *)
(* dispute of the same suite withdraws it.                                 *)
Reviewed(p) ==
    LET current == {r \in p.reviews : r.version = p.version}
    IN  current # {} /\ \A r \in current : r.result = "ACCEPTED"

(* deriveLeafTimingSchedule.                                               *)
Scheduled(p, q) ==
    /\ p.suite.root[q] # 0
    /\ Reviewed(p)
    /\ Acyclic(p.suite, q)
    /\ \A n \in LeafNodes(p.suite, q) : TimingOf(p.suite, n) # NoTiming

(* testDueState: the target of a product phase is the current product.     *)
TargetAvailable(p, timing) == timing.phase = "PRODUCT" => ProductStage \in p.done
ExecutableNow(p, timing, s) == s >= timing.earliest /\ TargetAvailable(p, timing)
DueNow(p, timing, s) == ExecutableNow(p, timing, s) /\ s >= timing.requiredBy

(***************************************************************************)
(* Three-valued evaluation.                                                *)
(***************************************************************************)
Found(findings) ==
    LET yes == \E e \in findings : e.relation = "ESTABLISHES"
        no == \E e \in findings : e.relation = "REFUTES"
    IN  IF yes /\ no THEN "CONTRADICTED" ELSE IF no THEN "FALSE" ELSE IF yes THEN "TRUE" ELSE "UNKNOWN"
Unless(value, contradicted) == IF value = "CONTRADICTED" THEN contradicted ELSE value

ObservedTruth(p, q) == Found({e \in p.evidence : e.proposition = q})

(* leaf.                                                                   *)
LeafTruth(p, n) ==
    LET x == p.suite.nodes[n]
        observed == ObservedTruth(p, x.target)
    IN  CASE x.type = "test" ->
                 IF Reviewed(p) /\ x.owner \in p.suite.tests[x.target].targets
                   THEN Unless(Found({e \in p.evidence : e.proposition = x.owner /\ e.test = x.target}), "UNKNOWN")
                   ELSE "UNKNOWN"
          [] x.type = "proposition" -> Unless(observed, "UNKNOWN")
          [] x.type = "obligation" -> IF observed = "FALSE" THEN "FALSE" ELSE "UNKNOWN"
          [] x.type = "applicability" -> IF x.target \in p.suite.applicable THEN "TRUE" ELSE "FALSE"

(* Wrong: an unknown child decides nothing either way.                     *)
LogicOfKnown(x, t, f, u) ==
    CASE x.type = "ALL_OF" -> IF f > 0 THEN "FALSE" ELSE IF u > 0 THEN "UNKNOWN" ELSE "TRUE"
      [] x.type = "ANY_OF" -> IF t > 0 THEN "TRUE" ELSE IF u > 0 THEN "UNKNOWN" ELSE "FALSE"
      [] x.type = "AT_LEAST_K" -> IF t >= x.k THEN "TRUE" ELSE IF t < x.k /\ f > 0 THEN "FALSE" ELSE "UNKNOWN"

(* logic, from how many children are true, false and neither.              *)
Logic(x, t, f, u) ==
    CASE x.type = "ALL_OF" -> IF f > 0 THEN "FALSE" ELSE IF u > 0 THEN "UNKNOWN" ELSE "TRUE"
      [] x.type = "ANY_OF" -> IF t > 0 THEN "TRUE" ELSE IF u > 0 THEN "UNKNOWN" ELSE "FALSE"
      [] x.type = "AT_LEAST_K" -> IF t >= x.k THEN "TRUE" ELSE IF t + u < x.k THEN "FALSE" ELSE "UNKNOWN"

Settled(x, values) ==
    LET Count(v) == Cardinality({c \in x.children : values[c] = v})
    IN  Logic(x, Count("TRUE"), Count("FALSE"), Count("UNKNOWN") + Count("DEFERRED"))

(* evaluateCurrentProof, at the current stage: a node from the values of   *)
(* those it depends on.                                                    *)
CurrentValue(p, value, n) ==
    LET x == p.suite.nodes[n]
    IN  IF x.type \in Operators THEN Settled(x, [c \in x.children |-> value[c]])
        ELSE IF IsPrerequisite(p.suite, n) THEN value[p.suite.root[x.target]]
        ELSE IF ExecutableNow(p, TimingOf(p.suite, n), p.stage) THEN LeafTruth(p, n)
        ELSE "UNKNOWN"
CurrentValues(p, q) ==
    LET value[n \in NodesOf(p.suite, q)] == CurrentValue(p, value, n) IN value
ProofTruth(p, q) ==
    IF Scheduled(p, q) THEN CurrentValues(p, q)[p.suite.root[q]] ELSE "UNKNOWN"

(* Wrong: whatever has a deferred child is deferred.                       *)
PostponedAlways(x, values) == "DEFERRED"

(* stageProofTruth, for the gate of a stage: a leaf that is not required   *)
(* yet is deferred.                                                        *)
Postponed(x, values) ==
    LET Among(set) == Cardinality({c \in x.children : values[c] \in set})
    IN  CASE x.type = "ALL_OF" -> IF Among({"UNKNOWN"}) > 0 THEN "UNKNOWN" ELSE "DEFERRED"
          [] x.type = "ANY_OF" -> "DEFERRED"
          [] x.type = "AT_LEAST_K" -> IF Among({"TRUE", "DEFERRED"}) >= x.k THEN "DEFERRED" ELSE "UNKNOWN"

StageValue(p, s, value, n) ==
    LET x == p.suite.nodes[n]
        timing == TimingOf(p.suite, n)
        values == [c \in x.children |-> value[c]]
    IN  IF x.type \in Operators
          THEN IF /\ Settled(x, values) \notin {"TRUE", "FALSE"}
                  /\ \E c \in x.children : values[c] = "DEFERRED"
                 THEN Postponed(x, values)
                 ELSE Settled(x, values)
        ELSE IF IsPrerequisite(p.suite, n) THEN value[p.suite.root[x.target]]
        ELSE IF s < timing.requiredBy THEN "DEFERRED"
        ELSE IF DueNow(p, timing, s) THEN LeafTruth(p, n)
        ELSE "UNKNOWN"
StageValues(p, q, s) ==
    LET value[n \in NodesOf(p.suite, q)] == StageValue(p, s, value, n) IN value
StageProofTruth(p, q, s) ==
    IF Scheduled(p, q) THEN StageValues(p, q, s)[p.suite.root[q]] ELSE "UNKNOWN"

(* pstate: what was observed of a proposition itself comes first.          *)
Verdict(p, q) ==
    LET observed == ObservedTruth(p, q)
        truth == IF observed = "FALSE" THEN "FALSE" ELSE ProofTruth(p, q)
    IN  IF observed = "CONTRADICTED" THEN [truth |-> "UNKNOWN", status |-> "CONTRADICTED"]
        ELSE [truth |-> truth,
              status |-> CASE truth = "TRUE" -> "SATISFIED"
                           [] truth = "FALSE" -> "VIOLATED"
                           [] OTHER -> "UNDETERMINED"]

(***************************************************************************)
(* Gates and recalculation.                                                *)
(***************************************************************************)
Required(p) == {q \in p.suite.applicable : q \notin p.suite.optional}

(* reasons, from stage 6: no dispute stands, every expression is reviewed  *)
(* and free of cycles, and the required ones exist and have their timing.  *)
(* semanticReviewBlocks exempts a dispute recorded as reconciled; no       *)
(* command records one so: the status is REQUIRED or NOT_REQUIRED.         *)
SuiteAccepted(p) ==
    /\ \A r \in p.reviews : r.result = "ACCEPTED"
    /\ \A q \in Propositions :
          p.suite.root[q] # 0 => Reviewed(p) /\ Acyclic(p.suite, q)
    /\ \A q \in Required(p) : Scheduled(p, q)

(* Wrong: a deferred proof passes whatever was observed.                   *)
ConcludedIfDeferred(p, q, s) ==
    Verdict(p, q).status = "SATISFIED" \/ StageProofTruth(p, q, s) = "DEFERRED"

(* reasons, from stage 18.                                                 *)
Concluded(p, q, s) ==
    LET status == Verdict(p, q).status
    IN  \/ status = "SATISFIED"
        \/ status = "UNDETERMINED" /\ StageProofTruth(p, q, s) = "DEFERRED"

(* Wrong: the gate asks the records alone.                                 *)
GateOfRecords(p, s) ==
    /\ SuiteAccepted(p)
    /\ s >= ConvergenceStage => \A q \in Required(p) : Concluded(p, q, s)

Gate(p, s) ==
    /\ s \in p.done
    /\ SuiteAccepted(p)
    /\ s >= ConvergenceStage => \A q \in Required(p) : Concluded(p, q, s)

(* recalculate: the gates see the current stage of the last time, the      *)
(* verdicts the new one.                                                   *)
Recalculated(p) ==
    LET passed == {s \in Stages : Gate(p, s)}
        complete == {s \in Stages : \A t \in Stages : t <= s => t \in passed}
        next == [p EXCEPT !.complete = complete,
                          !.stage = IF complete = Stages THEN Max(Stages) ELSE Min(Stages \ complete)]
    IN  [next EXCEPT !.verdict = [q \in Propositions |-> Verdict(next, q)]]

(* A command recalculates, and so does the save of its result.             *)
Saved(p) == Recalculated(Recalculated(p))

(* An accepted response ends what later stages returned.                   *)
Accepted(p, s) ==
    [p EXCEPT !.done = {t \in @ : t < s} \cup {s},
              !.evidence = {e \in @ : e.stage <= s},
              !.ran = IF s < NativeStage THEN {} ELSE @]

Reachable(p, s) == \A t \in Stages : t < s => t \in p.complete

(***************************************************************************)
(* Commands.                                                               *)
(***************************************************************************)
(* The author's response at stage 6.  As a reconciliation it retires the   *)
(* reviews that stand (supersedeSemanticReconciliation); returned anew it  *)
(* does not.                                                               *)
Author(suite, reconciles) ==
    /\ project.version < MaxVersion
    /\ project' = Saved([Accepted(project, AuthorStage) EXCEPT
                           !.suite = suite,
                           !.version = @ + 1,
                           !.reviews = IF reconciles THEN {} ELSE @])

(* The independent review of the suite, PROOF_REVIEW.                      *)
Review(result) ==
    /\ project.version > 0
    /\ project' = Saved([Accepted(project, AuthorStage) EXCEPT
                           !.reviews = @ \cup {[version |-> project.version, result |-> result]}])

(* The work of a later stage; some bring observations, of any test and     *)
(* about any proposition.                                                  *)
Findings(s) ==
    IF s \in EvidenceStages
      THEN [proposition : Propositions, test : Tests, relation : {"ESTABLISHES", "REFUTES"}, stage : {s}]
      ELSE {}
Work(s, found) ==
    /\ Reachable(project, s)
    /\ Cardinality(project.evidence \cup found) <= MaxEvidence
    /\ project' = Saved([Accepted(project, s) EXCEPT !.evidence = @ \cup found])

(* runNativeStage22Tests, offered as soon as there is a product: tests     *)
(* that are due run once, and their outcome holds for every proposition    *)
(* they target.  Later stages keep their work.                             *)
Runnable(p) ==
    {t \in Tests \ p.ran :
        /\ p.suite.tests[t].timing.phase = "PRODUCT"
        /\ DueNow(p, p.suite.tests[t].timing, NativeStage)}
RunNativeTest(t, relation) ==
    LET found == {[proposition |-> q, test |-> t, relation |-> relation, stage |-> NativeStage] :
                     q \in {r \in project.suite.tests[t].targets : project.suite.root[r] # 0}}
    IN  /\ ProductStage \in project.done
        /\ t \in Runnable(project)
        /\ Cardinality(project.evidence \cup found) <= MaxEvidence
        /\ project' = Saved([project EXCEPT
                               !.ran = @ \cup {t},
                               !.evidence = IF Reviewed(project) THEN @ \cup found ELSE @])

Init ==
    project = Recalculated(
        [suite |-> EmptySuite, version |-> 0, reviews |-> {}, evidence |-> {}, ran |-> {},
         done |-> {}, complete |-> {}, stage |-> AuthorStage,
         verdict |-> [q \in Propositions |-> [truth |-> "UNKNOWN", status |-> "UNDETERMINED"]]])

Next ==
    \/ \E suite \in Suites, reconciles \in BOOLEAN : Author(suite, reconciles)
    \/ \E result \in {"ACCEPTED", "DISAGREED"} : Review(result)
    \/ \E s \in Stages \ {AuthorStage} :
          \E found \in {{}} \cup {{e} : e \in Findings(s)} : Work(s, found)
    \/ \E t \in Tests, relation \in {"ESTABLISHES", "REFUTES"} : RunNativeTest(t, relation)

Spec == Init /\ [][Next]_project

(***************************************************************************)
(* Properties.                                                             *)
(***************************************************************************)
TypeOK ==
    /\ project.suite \in Suites \cup {EmptySuite}
    /\ project.version \in 0..MaxVersion
    /\ project.reviews \subseteq [version : 1..MaxVersion, result : {"ACCEPTED", "DISAGREED"}]
    /\ project.evidence \subseteq
           [proposition : Propositions, test : Tests, relation : {"ESTABLISHES", "REFUTES"},
            stage : EvidenceStages \cup {NativeStage}]
    /\ project.ran \subseteq Tests
    /\ project.done \subseteq Stages
    /\ project.complete \subseteq project.done
    /\ project.stage \in Stages
    /\ \A q \in Propositions :
          project.verdict[q] \in
              {[truth |-> "TRUE", status |-> "SATISFIED"], [truth |-> "FALSE", status |-> "VIOLATED"],
               [truth |-> "UNKNOWN", status |-> "UNDETERMINED"],
               [truth |-> "UNKNOWN", status |-> "CONTRADICTED"]}

(* A proof in two-valued logic: is the expression of q true when exactly   *)
(* the given leaves are?                                                   *)
Combines(x, holding) ==
    CASE x.type = "ALL_OF" -> \A c \in x.children : c \in holding
      [] x.type = "ANY_OF" -> \E c \in x.children : c \in holding
      [] x.type = "AT_LEAST_K" -> Cardinality(holding) >= x.k
HoldsAt(suite, leaves, holds, n) ==
    LET x == suite.nodes[n]
    IN  IF x.type \in Operators THEN Combines(x, {c \in x.children : holds[c]})
        ELSE IF IsPrerequisite(suite, n) THEN holds[suite.root[x.target]]
        ELSE n \in leaves
Held(suite, q, leaves) ==
    LET holds[n \in NodesOf(suite, q)] == HoldsAt(suite, leaves, holds, n) IN holds
Proves(suite, q, leaves) == Held(suite, q, leaves)[suite.root[q]]

LeavesThat(p, q, truth) == {n \in LeafNodes(p.suite, q) : LeafTruth(p, n) = truth}
LeavesAt(p, q, s) == {n \in LeafNodes(p.suite, q) : ExecutableNow(p, TimingOf(p.suite, n), s)}
LeavesAhead(p, q, s) == {n \in LeafNodes(p.suite, q) : s < TimingOf(p.suite, n).requiredBy}
LeavesDue(p, q, s) == LeavesAt(p, q, s) \ LeavesAhead(p, q, s)

(* The verdict that is shown is exactly what the evidence of now decides:  *)
(* true when the leaves established so far prove the expression by         *)
(* themselves, false when the proposition was refuted or when no outcome   *)
(* of the open leaves could still prove it, and unknown otherwise          *)
(* (pstate, evaluateCurrentProof and logic, workflow-engine.js).           *)
VerdictsAreExact ==
    \A q \in Propositions :
        LET p == project
            observed == ObservedTruth(p, q)
            open == LeafNodes(p.suite, q) \ (LeavesAt(p, q, p.stage) \cap LeavesThat(p, q, "FALSE"))
            proven == LeavesAt(p, q, p.stage) \cap LeavesThat(p, q, "TRUE")
        IN  /\ p.verdict[q].truth = "TRUE" <=>
                   observed \notin {"FALSE", "CONTRADICTED"} /\ Scheduled(p, q) /\ Proves(p.suite, q, proven)
            /\ p.verdict[q].truth = "FALSE" <=>
                   \/ observed = "FALSE"
                   \/ observed # "CONTRADICTED" /\ Scheduled(p, q) /\ ~Proves(p.suite, q, open)

(* A stage may pass over a proof as deferred exactly when the leaves that  *)
(* are due do not prove it and those that are not required yet would: a    *)
(* deferral never covers a leaf that is due and was not established        *)
(* (stageProofTruth, workflow-engine.js:2478).                             *)
DeferralsAreHonest ==
    \A q \in Propositions, s \in {t \in Stages : t >= ConvergenceStage} :
        Scheduled(project, q) =>
            LET established == LeavesDue(project, q, s) \cap LeavesThat(project, q, "TRUE")
            IN  StageProofTruth(project, q, s) = "DEFERRED" <=>
                    /\ ~Proves(project.suite, q, established)
                    /\ Proves(project.suite, q, established \cup LeavesAhead(project, q, s))

(* A stage from 18 on is complete only while the suite stands reviewed and *)
(* every required proposition is neither refuted nor contradicted and is   *)
(* proven but for leaves not required by that stage: evidence that comes   *)
(* in afterwards, a disputed suite or a new one reopen it (gate and        *)
(* recalculate, workflow-engine.js).                                       *)
CompletionIsProven ==
    \A s \in {t \in project.complete : t >= ConvergenceStage}, q \in Required(project) :
        /\ ObservedTruth(project, q) \notin {"FALSE", "CONTRADICTED"}
        /\ Scheduled(project, q)
        /\ Proves(project.suite, q, LeavesThat(project, q, "TRUE") \cup LeavesAhead(project, q, s))
=============================================================================
