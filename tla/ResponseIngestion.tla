------------------------- MODULE ResponseIngestion -------------------------
(***************************************************************************)
(* How the response of an external agent becomes accepted work of a        *)
(* project (response-ingestion.js, driven by app-core.js): a returned file *)
(* is captured, validated against the instruction it answers, held as a    *)
(* proposal, and accepted, rejected or abandoned by the operator, while    *)
(* the human input changes, stages are blocked and unblocked, instructions *)
(* are replaced, reviews of destructive changes are left open, and earlier *)
(* versions are restored.                                                  *)
(***************************************************************************)
EXTENDS StageWorkflow

CONSTANTS
    Kinds,         \* what a response may be
    Layouts,       \* ways to write the same response as a file
    Intakes,       \* contents of the shared intake
    Entries,       \* contents of a stage's own fields
    MaxRevision, MaxInputs, MaxPrompts, MaxRaws    \* bounds of a run

(* The response types of an envelope; one that breaks the contract, and a  *)
(* file that does not parse.                                               *)
ResponseTypes == {"DATA_PROPOSAL", "HUMAN_INPUT_REQUIRED", "BLOCKED", "EXECUTION_FAILED"}
ASSUME KindsOfResponse == Kinds \subseteq ResponseTypes \cup {"INVALID", "MALFORMED"}
ASSUME ContentsAreGiven == Intakes # {} /\ Entries # {}
ASSUME RevisionsAreCounted == MaxRevision \in Nat \ {0}

VARIABLES
    project,       \* the stored project, which the page shows
    review,        \* replacementReview: the candidate being reviewed
    kept           \* a version of History that Undo or a choice restores

vars == <<project, review, kept>>

Blank == [intake |-> CHOOSE i \in Intakes : TRUE,
          fields |-> [s \in Stages |-> CHOOSE e \in Entries : TRUE],
          answers |-> [s \in Stages |-> 0]]
NewProject ==
    [rev |-> 1, inputs |-> <<Blank>>, prompts |-> <<>>, raws |-> <<>>,
     proposals |-> <<>>, changes |-> <<>>,
     controls |-> [s \in Stages |-> NoControls],
     confirmation |-> NoConfirmation, complete |-> {},
     restored |-> [prompts |-> 0, raws |-> {}, proposals |-> {}]]

NoReview == [open |-> FALSE]

Init ==
    /\ project = NewProject
    /\ review = NoReview
    /\ kept = NewProject

(***************************************************************************)
(* Validation.                                                             *)
(***************************************************************************)
(* canonicalEnvelopeSha256: one envelope, however it is laid out.          *)
SameEnvelope(one, other) ==
    /\ one.stage = other.stage /\ one.prompt = other.prompt
    /\ one.response.kind = other.response.kind

Others(p, r) == {q \in DOMAIN p.raws \ {r} : p.raws[q].checked /\ SameEnvelope(p.raws[q], p.raws[r])}

(* validateEnvelope: the response answers the latest instruction, whose    *)
(* reservation stands at this revision or came back with a restored        *)
(* version, and nothing else has answered it in the same way.              *)
ValidEnvelope(p, r) ==
    LET raw == p.raws[r]
        prompt == p.prompts[raw.prompt]
    IN  /\ raw.response.kind \in ResponseTypes
        /\ prompt.standing = "live"
        /\ prompt.state \in Preserving
        /\ prompt.rev = p.rev \/ r \in p.restored.raws
        /\ Others(p, r) = {}

(* Wrong: a proposal that is pending is taken to be current.               *)
ProposalIsPending(p, i) == p.proposals[i].status = "PENDING_OPERATOR_REVIEW"

(* ensureProposalCurrent.                                                  *)
ProposalCurrent(p, i) ==
    LET proposal == p.proposals[i]
    IN  /\ proposal.status = "PENDING_OPERATOR_REVIEW"
        /\ p.prompts[proposal.prompt].standing = "live"
        /\ proposal.rev = p.rev \/ i \in p.restored.proposals
        /\ ValidEnvelope(p, proposal.raw)

(* captureRaw.                                                             *)
Captured(p, s, i, response) ==
    [p EXCEPT !.raws = Append(@,
        [stage |-> s, prompt |-> i, response |-> response, status |-> "PRESERVED",
         proposal |-> 0, checked |-> FALSE, validated |-> FALSE])]

(* Wrong: the repetition is not tied to the proposal it repeats.           *)
RepeatedUnbound(p, r) ==
    [p EXCEPT !.raws[r].checked = TRUE, !.raws[r].status = "VALIDATED_PENDING_REVIEW"]

(* A response that repeats another one is put aside.                       *)
Repeated(p, r) ==
    LET prior == Min(Others(p, r))
    IN  [p EXCEPT !.raws[r].checked = TRUE, !.raws[r].status = "DUPLICATE_RESPONSE",
                  !.raws[r].proposal = p.raws[prior].proposal]

Judged(p, r) ==
    LET raw == p.raws[r]
        valid == ValidEnvelope(p, r)
        judged == [raw EXCEPT
            !.checked = @ \/ raw.response.kind # "MALFORMED",
            !.validated = TRUE,
            !.status = IF valid THEN "VALIDATED_PENDING_REVIEW" ELSE "VALIDATION_FAILED",
            !.proposal = IF valid THEN Len(p.proposals) + 1 ELSE @]
        next == [p EXCEPT
            !.raws[r] = judged,
            !.proposals = IF valid
                THEN Append(@, [stage |-> raw.stage, prompt |-> raw.prompt, raw |-> r,
                                rev |-> p.rev, status |-> "PENDING_OPERATOR_REVIEW"])
                ELSE @]
    IN  Finished(next, raw.prompt, IF valid THEN "RESPONSE_STAGED" ELSE "REJECTED")

(* prepareCaptured, for a response that is not settled.                    *)
Prepared(p, r) ==
    IF p.raws[r].response.kind # "MALFORMED" /\ Others(p, r) # {}
      THEN Repeated(p, r) ELSE Judged(p, r)

(***************************************************************************)
(* Accepting.                                                              *)
(***************************************************************************)
(* How a proposal, its raw response and the stage stand once it is         *)
(* accepted.                                                               *)
Accepted == [k \in ResponseTypes |->
    CASE k = "DATA_PROPOSAL" -> "ACCEPTED"
      [] k = "HUMAN_INPUT_REQUIRED" -> "QUESTIONS_CREATED"
      [] k = "BLOCKED" -> "BLOCKER_ACCEPTED"
      [] OTHER -> "EXECUTION_FAILURE_ACCEPTED"]
ControlOf == [k \in ResponseTypes \ {"DATA_PROPOSAL"} |->
    CASE k = "HUMAN_INPUT_REQUIRED" -> "request"
      [] k = "BLOCKED" -> "blocker"
      [] OTHER -> "failure"]

Settled(p, i, status, reservation) ==
    Finished([p EXCEPT !.proposals[i].status = status,
                       !.raws[p.proposals[i].raw].status = status],
             p.proposals[i].prompt, reservation)

KindOf(p, i) == p.raws[p.proposals[i].raw].response.kind

(* Wrong: work of the later stages is not taken for affected.              *)
AcceptanceImpactOfStage(p, i, replaces) ==
    [changes |-> replaces, stages |-> {}, affected |-> {}]

(* acceptanceImpact: what accepting data replaces, and the later work it   *)
(* invalidates.                                                            *)
AcceptanceImpact(p, i, replaces) ==
    LET affected == IF KindOf(p, i) = "DATA_PROPOSAL"
                      THEN AffectedStages(p, p.proposals[i].stage) ELSE {}
    IN  [changes |-> replaces \cup UNION {AcceptedChanges(p, t) : t \in affected},
         stages |-> affected \cap p.complete,
         affected |-> affected]

(* commit.                                                                 *)
CommittedData(p, i, replaces) ==
    LET s == p.proposals[i].stage
        kept1 == IF AcceptanceImpact(p, i, replaces).affected # {}
                   THEN InvalidateDownstream(p, s) ELSE p
    IN  [kept1 EXCEPT
           !.changes = Append([c \in DOMAIN @ |->
               IF c \in replaces THEN [@[c] EXCEPT !.live = FALSE] ELSE @[c]],
               [stage |-> s, prompt |-> p.proposals[i].prompt, live |-> TRUE]),
           !.confirmation = IF s = 1 /\ replaces # {} THEN NoConfirmation ELSE @,
           !.controls[s] = [c \in Controls |->
               IF c \in {"blocker", "failure"} /\ @[c] = "open" THEN "closed" ELSE @[c]]]

Committed(p, i, replaces) ==
    LET kind == KindOf(p, i)
        settled == Settled(p, i, Accepted[kind], "ACCEPTED")
    IN  Recalculated(IF kind = "DATA_PROPOSAL" THEN CommittedData(settled, i, replaces)
                     ELSE SetControl(settled, p.proposals[i].stage, ControlOf[kind], "open"))

(* prepareStageContinuation, when it reserves the next instruction.        *)
MayContinue(p, s) ==
    /\ s \notin p.complete
    /\ \A t \in 1..(s - 1) : t \in p.complete
    /\ "request" \notin Open(p, s)
    /\ Pending(p, s) = {}
    /\ MayReserve(p, s)

(***************************************************************************)
(* Saving.                                                                 *)
(***************************************************************************)
(* A new revision.  A review of an earlier one can only be dismissed from  *)
(* then on, and counts as dismissed here.                                  *)
Canonical(next) ==
    /\ next.rev <= MaxRevision
    /\ project' = next
    /\ kept' \in {kept, project}
    /\ review' = NoReview

Operational(next) ==
    /\ project' = next
    /\ UNCHANGED <<review, kept>>

(* showReplacementReview.  The proposal is 0 for a correction.             *)
Show(next, proposal, changes, stages) ==
    /\ next.rev < MaxRevision
    /\ review' = [open |-> TRUE, base |-> project, next |-> next, proposal |-> proposal,
                  changes |-> changes, stages |-> stages]
    /\ UNCHANGED <<project, kept>>

(* persistReplacement: a change that ends any work is shown first.         *)
Persist(next, proposal) ==
    LET saved == Saved(next)
    IN  IF RequiresConfirmation(project, saved)
          THEN Show(next, proposal, LostChanges(project, saved), LostStages(project, saved))
          ELSE Canonical(saved)

(***************************************************************************)
(* The operator's commands.                                                *)
(***************************************************************************)
(* saveJob and registerStageFiles.                                         *)
SaveIntake(content) ==
    /\ Len(project.inputs) < MaxInputs
    /\ content # CurrentInput(project).intake
    /\ Persist(RecordInput(project, [CurrentInput(project) EXCEPT !.intake = content]), 0)

(* saveHumanStageFields.                                                   *)
SaveFields(s, entry) ==
    /\ Len(project.inputs) < MaxInputs
    /\ entry # CurrentInput(project).fields[s]
    /\ LET next == RecordInput(project, [CurrentInput(project) EXCEPT !.fields[s] = entry])
       IN  Persist(IF s \in project.complete THEN InvalidateStage(next, s) ELSE next, 0)

(* answerHumanInput: the answer is a new input, and the question is asked  *)
(* again of the agent.                                                     *)
Answer(s) ==
    /\ Len(project.inputs) < MaxInputs /\ Len(project.prompts) < MaxPrompts
    /\ "request" \in Open(project, s)
    /\ MayReserve(project, s)
    /\ LET answered == RecordInput(SetControl(project, s, "request", "closed"),
                                   [CurrentInput(project) EXCEPT !.answers[s] = @ + 1])
       IN  Persist(Prompted(EndAttempts(answered, {s}), s), 0)

(* addBlocker, resolveHumanBlocker.                                        *)
Block(s) ==
    /\ "humanBlocker" \notin Open(project, s)
    /\ Persist(SetControl(project, s, "humanBlocker", "open"), 0)

Unblock(s) ==
    /\ "humanBlocker" \in Open(project, s)
    /\ Persist(SetControl(project, s, "humanBlocker", "closed"), 0)

(* confirmStageOne.                                                        *)
ConfirmStageOne ==
    /\ AcceptedChanges(project, 1) # {}
    /\ Persist([project EXCEPT !.confirmation =
                  [change |-> LatestOf(AcceptedChanges(project, 1)),
                   version |-> InputVersion(project, 1)]], 0)

(* savePromptRecord, saveRequiredContinuation.                             *)
Prompt(s) ==
    /\ Len(project.prompts) < MaxPrompts
    /\ MayReserve(project, s)
    /\ Persist(Prompted(project, s), 0)

(* recordInstructionExport.                                                *)
Export(i) ==
    /\ project.prompts[i].state = "RESERVED" /\ Bound(project, i)
    /\ Operational([project EXCEPT !.prompts[i].state = "EXPORTED"])

(* prepareStageResponseFile: the file names its instruction, or it is      *)
(* taken to answer the latest one of this activation.  A file that the     *)
(* pending proposal came from is not captured again.                       *)
Capture(s, i, response) ==
    LET current == {j \in LivePrompts(project, s) : j > project.restored.prompts}
        pending == LatestOf(Pending(project, s))
    IN  /\ Len(project.raws) < MaxRaws
        /\ current # {}
        /\ i \in IF response.kind = "MALFORMED" THEN {Max(current)}
                 ELSE {j \in DOMAIN project.prompts : project.prompts[j].stage = s}
        /\ ~ /\ pending # 0
             /\ project.proposals[pending].rev = project.rev
             /\ project.proposals[pending].prompt = i
             /\ project.raws[project.proposals[pending].raw].response = response
        /\ Operational(Captured(project, s, i, response))

(* The rest of prepareStageResponseFile, and validateReturnedResponse.     *)
Validate(r) ==
    /\ project.raws[r].status \in {"PRESERVED", "VALIDATION_FAILED"}
    /\ Operational(Prepared(project, r))

(* rejectPendingProposal, discardCurrentAttempt.                           *)
Dismissals == {[status |-> "REJECTED", reservation |-> "REJECTED"],
               [status |-> "ABANDONED_BY_OPERATOR", reservation |-> "CANCELLED"]}
Dismiss(s, dismissal) ==
    /\ Pending(project, s) # {}
    /\ Operational(Settled(project, Max(Pending(project, s)), dismissal.status,
                           dismissal.reservation))

(* acceptPendingProposal.  What data replaces is nothing of the stage, or  *)
(* all of it; the next instruction may be reserved with it.                *)
Accept(s) ==
    LET i == LatestOf(Pending(project, s))
    IN  /\ i # 0
        /\ ProposalCurrent(project, i)
        /\ \E replaces \in {{}, IF KindOf(project, i) = "DATA_PROPOSAL"
                                  THEN AcceptedChanges(project, s) ELSE {}} :
             LET impact == AcceptanceImpact(project, i, replaces)
                 done == Committed(project, i, replaces)
             IN  \E continued \in BOOLEAN :
                   /\ continued => MayContinue(done, s) /\ Len(done.prompts) < MaxPrompts
                   /\ LET next == IF continued THEN Prompted(done, s) ELSE done
                      IN  IF replaces # {} \/ impact.affected # {}
                            THEN Show(next, i, impact.changes, impact.stages)
                            ELSE Persist(next, i)

(* keepCurrentProgress.                                                    *)
Keep ==
    /\ review.open
    /\ review' = NoReview
    /\ UNCHANGED <<project, kept>>

(* Wrong: a review counts until the revision changes.                      *)
ReviewOfRevision == review.base.rev = project.rev

(* The candidate and the stored project are compared by their digests.     *)
ReviewIsCurrent == review.base = project

(* confirmReplacement.  A review of an earlier state saves nothing.        *)
Confirm ==
    /\ review.open
    /\ ReviewIsCurrent
    /\ Canonical(Saved(review.next))

(* restoreCheckpoint and bindRestoredCandidates; the page forgets its      *)
(* review.                                                                 *)
Restored(version) ==
    [version EXCEPT
       !.rev = Max({project.rev, version.rev}) + 1,
       !.restored = [prompts |-> Len(version.prompts),
                     raws |-> {r \in DOMAIN version.raws : version.raws[r].status \in
                         {"PRESERVED", "VALIDATION_FAILED", "VALIDATED_PENDING_REVIEW"}},
                     proposals |-> UNION {Pending(version, s) : s \in Stages}]]
Restore == Canonical(Restored(kept))

Next ==
    \/ \E content \in Intakes : SaveIntake(content)
    \/ \E s \in Stages : \E entry \in Entries : SaveFields(s, entry)
    \/ \E s \in Stages : Answer(s) \/ Block(s) \/ Unblock(s) \/ Prompt(s) \/ Accept(s)
    \/ ConfirmStageOne
    \/ \E i \in DOMAIN project.prompts : Export(i)
    \/ \E s \in Stages : \E i \in DOMAIN project.prompts :
         \E kind \in Kinds : \E layout \in Layouts :
            Capture(s, i, [kind |-> kind, layout |-> layout])
    \/ \E r \in DOMAIN project.raws : Validate(r)
    \/ \E s \in Stages : \E dismissal \in Dismissals : Dismiss(s, dismissal)
    \/ Keep \/ Confirm \/ Restore

Spec == Init /\ [][Next]_vars

(***************************************************************************)
(* Properties.                                                             *)
(***************************************************************************)
(* The records of a project refer to records that exist, and to those of   *)
(* their own stage (the shapes that ensureShape and the validators keep).  *)
WellFormed(p) ==
    /\ p.rev \in 1..MaxRevision
    /\ p.complete \subseteq Stages
    /\ \A i \in DOMAIN p.prompts :
         /\ p.prompts[i].stage \in Stages /\ p.prompts[i].rev <= p.rev
         /\ p.prompts[i].standing \in {"live", "superseded", "invalidated"}
         /\ p.prompts[i].basis.version \in DOMAIN p.inputs
         /\ p.prompts[i].basis.upstream \subseteq DOMAIN p.changes
    /\ \A r \in DOMAIN p.raws :
         /\ p.raws[r].prompt \in DOMAIN p.prompts
         /\ p.raws[r].stage = p.prompts[p.raws[r].prompt].stage
         /\ p.raws[r].proposal \in 0..Len(p.proposals)
         /\ p.raws[r].status = "VALIDATED_PENDING_REVIEW" => p.raws[r].proposal # 0
    /\ \A i \in DOMAIN p.proposals :
         /\ p.raws[p.proposals[i].raw].proposal = i
         /\ p.proposals[i].prompt = p.raws[p.proposals[i].raw].prompt
    /\ \A c \in DOMAIN p.changes :
         p.changes[c].stage = p.prompts[p.changes[c].prompt].stage

TypeOK ==
    /\ WellFormed(project) /\ WellFormed(kept)
    /\ review.open => WellFormed(review.base) /\ review.base.rev <= project.rev

(* A stage is complete only on live accepted work, with nothing open in it *)
(* or before it, and a confirmation of the present intake: also after any  *)
(* response, export or restoration that does not derive the stages again.  *)
CompleteIsEarned ==
    \A s \in project.complete : \A t \in 1..s :
        /\ t \in project.complete
        /\ AcceptedChanges(project, t) # {}
        /\ Open(project, t) = {}
        /\ t = 1 => /\ project.confirmation.change = Max(AcceptedChanges(project, 1))
                    /\ Visible(project.inputs[project.confirmation.version], 1)
                         = Visible(CurrentInput(project), 1)

(* Work of a later stage stands only on the accepted work and the intake   *)
(* that its instruction was written from: when they change, it ends        *)
(* (invalidateDownstream, invalidateStageForAuthorityChange).              *)
StandsOn(basis, s) ==
    /\ \A t \in 1..(s - 1) :
         {c \in basis.upstream : project.changes[c].stage = t} = AcceptedChanges(project, t)
    /\ project.inputs[basis.version].intake = CurrentInput(project).intake

NoOrphanedWork ==
    \A s \in Stages \ {1} :
        /\ \A c \in AcceptedChanges(project, s) :
             StandsOn(project.prompts[project.changes[c].prompt].basis, s)
        /\ \A i \in LivePrompts(project, s) : StandsOn(project.prompts[i].basis, s)
        /\ \A i \in Pending(project, s) :
             project.prompts[project.proposals[i].prompt].standing = "live"
               => StandsOn(project.prompts[project.proposals[i].prompt].basis, s)

(* A response is accepted only while its instruction is live and says what *)
(* an instruction would say now, whatever was saved, replaced, restored or *)
(* reviewed since it was validated (ensureProposalCurrent, the digest of   *)
(* the reviewed candidate).                                                *)
NewlyAccepted(i) ==
    /\ project'.proposals[i].status \in {Accepted[k] : k \in ResponseTypes}
    /\ project.proposals[i].status \notin {Accepted[k] : k \in ResponseTypes}

AcceptsCurrentWork ==
    [][~Restore => \A i \in DOMAIN project.proposals : NewlyAccepted(i) =>
         LET prompt == project.prompts[project.proposals[i].prompt]
         IN  prompt.standing = "live" /\ prompt.basis = Basis(project, prompt.stage)]_vars

(* Accepted work, and the completion of a stage after the one a response   *)
(* was accepted for, is lost only by confirming a review that listed it,   *)
(* or by restoring a version.                                              *)
ShownBeforeLost ==
    [][~Restore =>
         LET lost == LostChanges(project, project')
             own == IF review.open /\ review.proposal # 0
                      THEN project.proposals[review.proposal].stage ELSE 0
             behind == {s \in LostStages(project, project') : s > own}
         IN  lost # {} \/ behind # {} =>
               /\ review.open /\ ~review'.open
               /\ lost \subseteq review.changes
               /\ behind \subseteq review.stages]_vars

(* What an agent returned is never lost or altered by a save, also one of  *)
(* a candidate prepared before the response arrived; a response that was   *)
(* decided on stays decided.                                               *)
Undecided == {"PRESERVED", "VALIDATION_FAILED", "VALIDATED_PENDING_REVIEW"}
ResponsesKept ==
    [][~Restore => \A r \in DOMAIN project.raws :
         /\ r \in DOMAIN project'.raws
         /\ project'.raws[r].prompt = project.raws[r].prompt
         /\ project'.raws[r].response = project.raws[r].response
         /\ project.raws[r].status \notin Undecided
              => project'.raws[r].status = project.raws[r].status]_vars

(* Returning a response again, written another way, leaves the proposal    *)
(* under review acceptable ("Duplicate response is semantic, not           *)
(* whitespace-sensitive").  The code does not keep this.                   *)
ReturningAgainIsHarmless ==
    [][\A r \in DOMAIN project.raws : \A i \in DOMAIN project.proposals :
         /\ r \in DOMAIN project'.raws
         /\ project'.raws[r].status = "DUPLICATE_RESPONSE"
         /\ project.raws[r].status = "PRESERVED"
         /\ ProposalCurrent(project, i)
         => ProposalCurrent(project', i)]_vars
=============================================================================
