--------------------------- MODULE StageWorkflow ---------------------------
(***************************************************************************)
(* The rules of workflow-engine.js that every command on a project obeys:  *)
(* which stages are complete, which version of the human input a stage     *)
(* sees, what a change of input or of accepted work invalidates, how an    *)
(* instruction reserves its operation, and what a save does to reserved    *)
(* operations and to completed stages.  A project is a record:             *)
(*   rev           the canonical revision;                                 *)
(*   inputs        inputVersions, each the whole human input;              *)
(*   prompts       generatedPrompts, each with its reservation;            *)
(*   raws          rawResponses; proposals: responseProposals;             *)
(*   changes       acceptedChanges;                                        *)
(*   controls      requests, blockers and failures, by stage;              *)
(*   confirmation  the confirmation of stage 1 that stands;                *)
(*   complete      the stages whose status is COMPLETE;                    *)
(*   restored      restoredCandidates of the last activation.              *)
(* Stages have one operation each, and any accepted data fulfils what a    *)
(* stage's own gate asks of its records.                                   *)
(***************************************************************************)
EXTENDS Integers, FiniteSets, Sequences, FiniteSetsExt

CONSTANT StageCount

ASSUME StageCountIsPositive == StageCount \in Nat \ {0}

Stages == 1..StageCount

(***************************************************************************)
(* Reading a project.                                                      *)
(***************************************************************************)
LatestOf(ids) == IF ids = {} THEN 0 ELSE Max(ids)

AcceptedChanges(p, s) == {c \in DOMAIN p.changes : p.changes[c].stage = s /\ p.changes[c].live}
LivePrompts(p, s) == {i \in DOMAIN p.prompts : p.prompts[i].stage = s /\ p.prompts[i].standing = "live"}
Pending(p, s) == {i \in DOMAIN p.proposals : p.proposals[i].stage = s /\ p.proposals[i].status = "PENDING_OPERATOR_REVIEW"}

Preserving == {"RESERVED", "EXPORTED", "RESPONSE_STAGED"}

(* promptTransportBinding: a prompt whose reservation stands at this       *)
(* revision.                                                               *)
Bound(p, i) == p.prompts[i].state \in Preserving /\ p.prompts[i].rev = p.rev

(* Requests, blockers and failures of a stage, one of each kind.           *)
Controls == {"request", "blocker", "humanBlocker", "failure"}
NoControls == [c \in Controls |-> "none"]
Open(p, s) == {c \in Controls : p.controls[s][c] = "open"}
SetControl(p, s, c, to) == [p EXCEPT !.controls[s][c] = to]

(* hasStageActivity, and hasPriorWork of recordHumanInputVersion.          *)
HasStageActivity(p, s) ==
    \/ AcceptedChanges(p, s) # {}
    \/ \E r \in DOMAIN p.raws : p.raws[r].stage = s
    \/ "request" \in Open(p, s)
HasPriorWork(p) == \E s \in Stages : LivePrompts(p, s) # {} \/ HasStageActivity(p, s)

(* What a stage sees of the human input: the shared intake, and what was   *)
(* entered at this stage and before.  Its version is the last one in which *)
(* that changed.                                                           *)
Visible(input, s) ==
    [intake |-> input.intake,
     fields |-> [t \in 1..s |-> input.fields[t]],
     answers |-> [t \in 1..s |-> input.answers[t]]]

InputVersion(p, s) ==
    Max({v \in DOMAIN p.inputs :
            v = 1 \/ Visible(p.inputs[v], s) # Visible(p.inputs[v - 1], s)})

CurrentInput(p) == p.inputs[Len(p.inputs)]

(* What an instruction for a stage is written from.                        *)
Basis(p, s) ==
    [version |-> InputVersion(p, s), upstream |-> UNION {AcceptedChanges(p, t) : t \in 1..s}]

(***************************************************************************)
(* gate and recalculate.                                                   *)
(***************************************************************************)
NoConfirmation == [change |-> 0, version |-> 0]

Confirmed(p) ==
    p.confirmation = [change |-> LatestOf(AcceptedChanges(p, 1)), version |-> InputVersion(p, 1)]

GatePasses(p, s) ==
    /\ Open(p, s) = {}
    /\ AcceptedChanges(p, s) # {}
    /\ s = 1 => Confirmed(p)

Recalculated(p) ==
    [p EXCEPT !.complete = {s \in Stages : \A t \in 1..s : GatePasses(p, t)}]

(***************************************************************************)
(* Invalidation.                                                           *)
(***************************************************************************)
(* downstreamWorkImpact: work of the later stages.  Operations that were   *)
(* reserved, and responses that were validated, count until they are       *)
(* invalidated themselves.                                                 *)
HasWork(p, s) ==
    \/ AcceptedChanges(p, s) # {} \/ Pending(p, s) # {} \/ LivePrompts(p, s) # {}
    \/ \E i \in DOMAIN p.prompts : p.prompts[i].stage = s /\ p.prompts[i].state # "INVALIDATED"
    \/ \E r \in DOMAIN p.raws : p.raws[r].stage = s /\ p.raws[r].validated
    \/ p.controls[s] # NoControls
AffectedStages(p, s) == {t \in Stages : t > s /\ HasWork(p, t)}

(* Instructions, pending proposals and the confirmation of some stages end. *)
EndAttempts(p, stages) ==
    [p EXCEPT
       !.prompts = [i \in DOMAIN @ |->
           IF @[i].stage \in stages /\ @[i].standing = "live"
             THEN [@[i] EXCEPT !.standing = "invalidated"] ELSE @[i]],
       !.proposals = [i \in DOMAIN @ |->
           IF @[i].stage \in stages /\ @[i].status = "PENDING_OPERATOR_REVIEW"
             THEN [@[i] EXCEPT !.status = "STALE"] ELSE @[i]],
       !.confirmation = IF 1 \in stages THEN NoConfirmation ELSE @]

(* Their accepted work ends with them when its authority changed.          *)
EndWork(p, stages) ==
    [EndAttempts(p, stages) EXCEPT
       !.changes = [c \in DOMAIN @ |->
           IF @[c].stage \in stages THEN [@[c] EXCEPT !.live = FALSE] ELSE @[c]]]

(* What ends as well at the stages behind the one that changed.            *)
EndRecords(p, stages) ==
    [p EXCEPT
       !.prompts = [i \in DOMAIN @ |->
           IF @[i].stage \in stages THEN [@[i] EXCEPT !.state = "INVALIDATED"] ELSE @[i]],
       !.raws = [r \in DOMAIN @ |->
           IF @[r].stage \in stages THEN [@[r] EXCEPT !.validated = FALSE] ELSE @[r]],
       !.controls = [s \in Stages |-> IF s \in stages THEN NoControls ELSE @[s]]]

(* Wrong: accepted work and instructions of the later stages are kept.     *)
InvalidateRecordsOnly(p, s) == EndRecords(p, {t \in Stages : t > s})

InvalidateDownstream(p, s) ==
    LET later == {t \in Stages : t > s}
    IN  EndRecords(EndWork(p, later), later)

(* invalidateStageForAuthorityChange.                                      *)
InvalidateStage(p, s) == InvalidateDownstream(EndWork(p, {s}), s)

(* recordHumanInputVersion.                                                *)
RecordInput(p, input) ==
    LET next == [p EXCEPT !.inputs = Append(@, input)]
    IN  IF input = CurrentInput(p) THEN p
        ELSE IF input.intake # CurrentInput(p).intake /\ HasPriorWork(p)
               THEN InvalidateStage(next, 1)
        ELSE next

(***************************************************************************)
(* Reserving an operation with its instruction.                            *)
(***************************************************************************)
(* reconcileReservationRevisions.                                          *)
Reconciled(p) ==
    [p EXCEPT !.prompts = [i \in DOMAIN @ |->
        IF @[i].state \in Preserving /\ @[i].rev # p.rev
          THEN [@[i] EXCEPT !.state = "EXPIRED_BY_SCOPE"] ELSE @[i]]]

(* assertPromptPrerequisites, and reserveOperation, which refuses a slot   *)
(* that a standing reservation controls.                                   *)
MayReserve(p, s) ==
    /\ s > 1 => s - 1 \in p.complete
    /\ \A i \in DOMAIN p.prompts : p.prompts[i].stage = s => ~Bound(p, i)

(* reserveAndBuildPromptRecord and registerGeneratedPrompt, for the next   *)
(* revision.                                                               *)
Prompted(p, s) ==
    LET old == Reconciled(p).prompts
        superseded == [i \in DOMAIN old |->
            IF old[i].stage = s /\ old[i].standing = "live"
              THEN [old[i] EXCEPT !.standing = "superseded"] ELSE old[i]]
    IN  [p EXCEPT !.prompts = Append(superseded,
            [stage |-> s, rev |-> p.rev + 1, state |-> "RESERVED",
             standing |-> "live", basis |-> Basis(p, s)])]

(* advanceReservationToResponseStaged and finishReservation.               *)
Finished(p, i, state) ==
    [p EXCEPT !.prompts[i].state = IF @ \in Preserving THEN state ELSE @]

(***************************************************************************)
(* A canonical save: prepareProjectWrite, and the effect it is reviewed    *)
(* for (mutationImpact).                                                   *)
(***************************************************************************)
(* Wrong: the save does not derive the stages again.                       *)
SavedAsDerived(p) ==
    Reconciled([p EXCEPT !.rev = @ + 1, !.restored.raws = {}, !.restored.proposals = {}])

(* Restored candidates are bound to the revision of their activation.      *)
Saved(p) ==
    Recalculated(Reconciled(
        [p EXCEPT !.rev = @ + 1, !.restored.raws = {}, !.restored.proposals = {}]))

LostChanges(p, n) == {c \in DOMAIN p.changes : p.changes[c].live /\ ~n.changes[c].live}
LostStages(p, n) == p.complete \ n.complete

LosesOther(p, n) ==
    \/ /\ p.confirmation.change \in AcceptedChanges(p, 1)
       /\ p.confirmation.version = InputVersion(p, 1)
       /\ n.confirmation # p.confirmation
    \/ \E i \in DOMAIN p.prompts :
          \/ p.prompts[i].standing = "live" /\ n.prompts[i].standing = "invalidated"
          \/ p.prompts[i].state # "INVALIDATED" /\ n.prompts[i].state = "INVALIDATED"
    \/ \E i \in DOMAIN p.proposals : p.proposals[i].status # "STALE" /\ n.proposals[i].status = "STALE"
    \/ \E r \in DOMAIN p.raws : p.raws[r].validated /\ ~n.raws[r].validated
    \/ \E s \in Stages : \E c \in Controls : p.controls[s][c] # "none" /\ n.controls[s][c] = "none"

RequiresConfirmation(p, n) ==
    LostChanges(p, n) # {} \/ LostStages(p, n) # {} \/ LosesOther(p, n)
=============================================================================
