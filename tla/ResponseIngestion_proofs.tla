----------------------- MODULE ResponseIngestion_proofs -----------------------
(***************************************************************************)
(* Theorems about ResponseIngestion, for any number of stages, any intakes,*)
(* entries, kinds of response and layouts, and any bounds.                 *)
(*                                                                         *)
(* The inductive invariant says three things.  A stored project, and a     *)
(* version that may be restored, is Stored: its records refer to each      *)
(* other, an instruction that may still be answered says what one would    *)
(* say now, a complete stage passes its gate, and what is live rests on    *)
(* the accepted work and the intake its instruction was written from.  An  *)
(* open review holds a Candidate made from the project it was opened on,   *)
(* and lists all that saving it would end.  The steps are proved by what   *)
(* each rule of StageWorkflow does to a project (Keeps, Grows), composed   *)
(* as the commands compose the rules, and by one lemma for each of the     *)
(* two ways to save (OperationalKeeps, CanonicalKeeps).                    *)
(***************************************************************************)
EXTENDS ResponseIngestion, WellFoundedInduction, TLAPS

Below == {ss \in Nat \X Nat : ss[1] < ss[2]}

\* The numbers below one another are well founded.
LEMMA BelowIsWellFounded == IsWellFoundedOn(Below, Nat)
<1>1. IsWellFoundedOn(OpToRel(<, Nat), Nat)
  BY NatLessThanWellFounded
<1>2. OpToRel(<, Nat) = Below
  BY DEF OpToRel, Below
<1> QED
  BY <1>1, <1>2

\* Every nonempty set of numbers has a smallest one: what holds of every version
\* of an input follows from there being no first one of which it does not.
LEMMA SmallestOf ==
    ASSUME NEW S \in SUBSET Nat, S # {}
    PROVE  \E m \in S : \A y \in S : m <= y
<1>1. PICK x \in S : \A y \in S : ~ (<<y, x>> \in Below)
  BY BelowIsWellFounded, WFMin
<1>2. ASSUME NEW y \in S PROVE x <= y
  <2>1. <<y, x>> \in Nat \X Nat
    OBVIOUS
  <2>2. ~ (<<y, x>>[1] < <<y, x>>[2])
    BY <1>1, <2>1 DEF Below
  <2> QED
    BY <2>2
<1> QED
  BY <1>2

\* Max is a greatest element where one exists.
LEMMA MaxExists ==
    ASSUME NEW n \in Nat, NEW S \in SUBSET (1..n), S # {}
    PROVE  Max(S) \in S /\ \A x \in S : x <= Max(S)
<1> DEFINE T == {n - x : x \in S}
<1>1. T \in SUBSET Nat /\ T # {}
  <2>1. \A x \in S : n - x \in Nat
    OBVIOUS
  <2>2. \E x \in S : n - x \in T
    OBVIOUS
  <2> QED
    BY <2>1, <2>2
<1> HIDE DEF T
<1>2. PICK m \in T : \A y \in T : m <= y
  BY <1>1, SmallestOf
<1>3. PICK x \in S : m = n - x
  BY <1>2 DEF T
<1>4. ASSUME NEW y \in S PROVE x >= y
  <2>1. m <= n - y
    BY <1>2 DEF T
  <2> QED
    BY <2>1, <1>3
<1> QED
  BY <1>3, <1>4 DEF Max

\* Min is a smallest element where one exists.
LEMMA MinExists ==
    ASSUME NEW n \in Nat, NEW S \in SUBSET (1..n), S # {}
    PROVE  Min(S) \in S /\ \A x \in S : Min(S) <= x
<1>1. S \in SUBSET Nat
  OBVIOUS
<1>2. PICK m \in S : \A y \in S : m <= y
  BY <1>1, SmallestOf
<1> QED
  BY <1>2 DEF Min

\* The greater of two revisions.
LEMMA MaxOfTwo ==
    ASSUME NEW a \in Nat, NEW b \in Nat
    PROVE  Max({a, b}) \in Nat /\ a <= Max({a, b}) /\ b <= Max({a, b})
<1>1. \E x \in {a, b} : \A y \in {a, b} : x >= y
  OBVIOUS
<1> QED
  BY <1>1 DEF Max

\* What a stage sees of the version InputVersion names is what it sees now:
\* from that version on nothing it sees has changed.
LEMMA InputVersionIsCurrent ==
    ASSUME NEW p, NEW s \in Stages, NEW I, p.inputs \in Seq(I), Len(p.inputs) > 0
    PROVE  /\ InputVersion(p, s) \in DOMAIN p.inputs
           /\ Visible(p.inputs[InputVersion(p, s)], s) = Visible(CurrentInput(p), s)
<1> DEFINE n == Len(p.inputs)
           V(v) == Visible(p.inputs[v], s)
           S == {v \in DOMAIN p.inputs : v = 1 \/ V(v) # V(v - 1)}
           m == InputVersion(p, s)
<1>1. n \in Nat /\ n > 0 /\ DOMAIN p.inputs = 1..n
  OBVIOUS
<1>2. 1 \in S /\ S \in SUBSET (1..n)
  BY <1>1
<1>3. m = Max(S)
  BY DEF InputVersion
<1>4. m \in S /\ \A x \in S : x <= m
  BY <1>1, <1>2, <1>3, MaxExists
<1> DEFINE D == {v \in m..n : V(v) # V(m)}
<1>5. D = {}
  <2> SUFFICES ASSUME D # {} PROVE FALSE
    OBVIOUS
  <2>1. D \in SUBSET Nat
    BY <1>1, <1>4
  <2>2. PICK v \in D : \A y \in D : v <= y
    BY <2>1, SmallestOf
  <2>3. v \in m..n /\ V(v) # V(m) /\ v # m
    BY <2>2
  <2>4. v \in Nat /\ v > m /\ v - 1 \in m..n /\ v \in 1..n /\ m \in Nat
    BY <2>3, <1>1, <1>4
  <2>5. v \notin S
    BY <2>4, <1>4
  <2>6. V(v) = V(v - 1)
    BY <2>5, <2>4, <1>1
  <2>7. v - 1 \in D
    BY <2>6, <2>3, <2>4
  <2> QED
    BY <2>7, <2>2, <2>4
<1>6. n \in m..n
  BY <1>1, <1>4
<1>7. V(n) = V(m)
  BY <1>5, <1>6
<1> QED
  BY <1>7, <1>4, <1>1 DEF CurrentInput

-----------------------------------------------------------------------------
(* The shape of a project.                                                 *)
InputType == [intake : Intakes, fields : [Stages -> Entries], answers : [Stages -> Nat]]
Reservations ==
    Preserving \cup {"REJECTED", "CANCELLED", "ACCEPTED", "INVALIDATED", "EXPIRED_BY_SCOPE"}
AcceptedStatuses == {Accepted[k] : k \in ResponseTypes}
Decisions == AcceptedStatuses \cup {"REJECTED", "ABANDONED_BY_OPERATOR"}
RawStatuses == Undecided \cup {"DUPLICATE_RESPONSE"} \cup Decisions
ProposalStatuses == {"PENDING_OPERATOR_REVIEW", "STALE"} \cup Decisions
BasisType == [version : Nat, upstream : SUBSET Nat]
Standings == {"live", "superseded", "invalidated"}
PromptType == [stage : Stages, rev : Nat, state : Reservations, standing : Standings,
               basis : BasisType]
ResponseType == [kind : Kinds, layout : Layouts]
RawType == [stage : Stages, prompt : Nat, response : ResponseType, status : RawStatuses,
            proposal : Nat, checked : BOOLEAN, validated : BOOLEAN]
ProposalType == [stage : Stages, prompt : Nat, raw : Nat, rev : Nat, status : ProposalStatuses]
ChangeType == [stage : Stages, prompt : Nat, live : BOOLEAN]
ControlType == [Controls -> {"none", "open", "closed"}]
ConfirmationType == [change : Nat, version : Nat]
RestoredType == [prompts : Nat, raws : SUBSET Nat, proposals : SUBSET Nat]
Project == [rev : Nat, inputs : Seq(InputType), prompts : Seq(PromptType),
            raws : Seq(RawType), proposals : Seq(ProposalType), changes : Seq(ChangeType),
            controls : [Stages -> ControlType], confirmation : ConfirmationType,
            complete : SUBSET Stages, restored : RestoredType]

PromptsRefer(p) ==
    \A i \in DOMAIN p.prompts :
        /\ p.prompts[i].basis.version \in DOMAIN p.inputs
        /\ p.prompts[i].basis.upstream \subseteq DOMAIN p.changes
RawsRefer(p) ==
    \A r \in DOMAIN p.raws :
        /\ p.raws[r].prompt \in DOMAIN p.prompts
        /\ p.raws[r].stage = p.prompts[p.raws[r].prompt].stage
        /\ p.raws[r].proposal <= Len(p.proposals)
        /\ p.raws[r].status = "VALIDATED_PENDING_REVIEW" => p.raws[r].proposal # 0
Unsettled == {"PRESERVED", "VALIDATION_FAILED"}
IsPending(p, i) == p.proposals[i].status = "PENDING_OPERATOR_REVIEW"
ProposalsRefer(p) ==
    \A i \in DOMAIN p.proposals :
        LET r == p.proposals[i].raw
        IN  /\ r \in DOMAIN p.raws
            /\ p.raws[r].proposal = i
            /\ p.raws[r].prompt = p.proposals[i].prompt
            /\ p.raws[r].stage = p.proposals[i].stage
            /\ p.raws[r].status \notin Unsettled
            /\ IsPending(p, i) => p.raws[r].status = "VALIDATED_PENDING_REVIEW"
ChangesRefer(p) ==
    \A c \in DOMAIN p.changes :
        /\ p.changes[c].prompt \in DOMAIN p.prompts
        /\ p.changes[c].stage = p.prompts[p.changes[c].prompt].stage

Shape(p) ==
    /\ p \in Project
    /\ Len(p.inputs) > 0
    /\ PromptsRefer(p)
    /\ RawsRefer(p)
    /\ ProposalsRefer(p)
    /\ ChangesRefer(p)

RevsWithin(p, n) == \A i \in DOMAIN p.prompts : p.prompts[i].rev <= n

(* An instruction that may be answered: it says what one would say now.    *)
Usable(p, i) == p.prompts[i].standing = "live" /\ p.prompts[i].state \in Preserving
UsableIsCurrent(p) ==
    \A i \in DOMAIN p.prompts :
        Usable(p, i) => p.prompts[i].basis = Basis(p, p.prompts[i].stage)

Derived(p) == \A s \in p.complete : \A t \in 1..s : t \in p.complete /\ GatePasses(p, t)

(* An instruction that is live, or that accepted work answers, and what it *)
(* was written from.                                                       *)
Rests(p, i) ==
    \/ p.prompts[i].standing = "live"
    \/ \E c \in DOMAIN p.changes : p.changes[c].live /\ p.changes[c].prompt = i
Upstream(p, i, t) == {c \in p.prompts[i].basis.upstream : p.changes[c].stage = t}
Stands(p, i) ==
    /\ \A t \in 1..(p.prompts[i].stage - 1) : Upstream(p, i, t) = AcceptedChanges(p, t)
    /\ p.inputs[p.prompts[i].basis.version].intake = CurrentInput(p).intake
Rested(p) ==
    \A i \in DOMAIN p.prompts : p.prompts[i].stage # 1 /\ Rests(p, i) => Stands(p, i)

Stored(p) ==
    /\ Shape(p)
    /\ p.rev \in 1..MaxRevision
    /\ RevsWithin(p, p.rev)
    /\ UsableIsCurrent(p)
    /\ Derived(p)
    /\ Rested(p)

(* How a project follows another one when nothing is restored.             *)
FollowsInputs(p, n) ==
    \A v \in DOMAIN p.inputs : v \in DOMAIN n.inputs /\ n.inputs[v] = p.inputs[v]
FollowsPrompts(p, n) ==
    \A i \in DOMAIN p.prompts :
        /\ i \in DOMAIN n.prompts
        /\ n.prompts[i].stage = p.prompts[i].stage
        /\ n.prompts[i].rev = p.prompts[i].rev
        /\ n.prompts[i].basis = p.prompts[i].basis
        /\ n.prompts[i].standing = "live" => p.prompts[i].standing = "live"
        /\ n.prompts[i].state \in Preserving => p.prompts[i].state \in Preserving
FollowsRaws(p, n) ==
    \A r \in DOMAIN p.raws :
        /\ r \in DOMAIN n.raws
        /\ n.raws[r].stage = p.raws[r].stage
        /\ n.raws[r].prompt = p.raws[r].prompt
        /\ n.raws[r].response = p.raws[r].response
        /\ p.raws[r].status \notin Undecided => n.raws[r].status = p.raws[r].status
        /\ p.raws[r].status \notin Unsettled => n.raws[r].status \notin Unsettled
IsAccepted(p, i) == p.proposals[i].status \in AcceptedStatuses
FollowsProposals(p, n) ==
    \A i \in DOMAIN p.proposals :
        LET r == p.proposals[i].raw
        IN  /\ i \in DOMAIN n.proposals
            /\ n.proposals[i].stage = p.proposals[i].stage
            /\ n.proposals[i].prompt = p.proposals[i].prompt
            /\ n.proposals[i].raw = r
            /\ n.raws[r].proposal = p.raws[r].proposal
            /\ IsPending(n, i) => IsPending(p, i) /\ n.raws[r].status = p.raws[r].status
            /\ IsAccepted(n, i) => IsAccepted(p, i) \/ Usable(p, p.proposals[i].prompt)
FollowsChanges(p, n) ==
    \A c \in DOMAIN p.changes :
        /\ c \in DOMAIN n.changes
        /\ n.changes[c].stage = p.changes[c].stage
        /\ n.changes[c].prompt = p.changes[c].prompt
        /\ n.changes[c].live => p.changes[c].live
Follows(p, n) ==
    /\ FollowsInputs(p, n)
    /\ FollowsPrompts(p, n)
    /\ FollowsRaws(p, n)
    /\ FollowsProposals(p, n)
    /\ FollowsChanges(p, n)

(* A project that is ready to be saved.                                    *)
NewIsCurrent(n) ==
    \A i \in DOMAIN n.prompts :
        n.prompts[i].rev = n.rev + 1 => n.prompts[i].basis = Basis(n, n.prompts[i].stage)
Candidate(p, n) ==
    /\ n.rev = p.rev
    /\ Shape(n)
    /\ Follows(p, n)
    /\ RevsWithin(n, n.rev + 1)
    /\ NewIsCurrent(n)
    /\ Rested(n)

(* The stage whose completion a review of an acceptance does not list.     *)
Own(p, proposal) == IF proposal = 0 THEN 0 ELSE p.proposals[proposal].stage
Listed(p, n, proposal, changes, stages) ==
    /\ LostChanges(p, Saved(n)) \subseteq changes
    /\ \A s \in LostStages(p, Saved(n)) : s > Own(p, proposal) => s \in stages

Reviewed ==
    review.open =>
        /\ Stored(review.base)
        /\ review.base.rev <= project.rev
        /\ Candidate(review.base, review.next)
        /\ Listed(review.base, review.next, review.proposal, review.changes, review.stages)

IInv ==
    /\ Stored(project)
    /\ Stored(kept)
    /\ Reviewed

-----------------------------------------------------------------------------
(* What follows follows.                                                   *)
LEMMA FollowsItself ==
    ASSUME NEW p, Shape(p)
    PROVE  Follows(p, p)
BY DEF Follows, FollowsInputs, FollowsPrompts, FollowsRaws, FollowsProposals, FollowsChanges

\* An instruction that may be answered after a change could be before.
LEMMA FollowsUsable ==
    ASSUME NEW p, NEW n, FollowsPrompts(p, n), NEW i \in DOMAIN p.prompts, Usable(n, i)
    PROVE  Usable(p, i)
BY DEF FollowsPrompts, Usable

\* Two changes in a row are a change.
LEMMA FollowsTransitive ==
    ASSUME NEW p, NEW m, NEW n, Shape(p), Follows(p, m), Follows(m, n)
    PROVE  Follows(p, n)
<1>1. FollowsInputs(p, n)
  BY DEF Follows, FollowsInputs
<1>2. FollowsPrompts(p, n)
  BY DEF Follows, FollowsPrompts
<1>3. FollowsRaws(p, n)
  BY DEF Follows, FollowsRaws
<1>4. FollowsChanges(p, n)
  BY DEF Follows, FollowsChanges
<1>5. FollowsProposals(p, n)
  <2> SUFFICES ASSUME NEW i \in DOMAIN p.proposals
               PROVE  LET r == p.proposals[i].raw
                      IN  /\ i \in DOMAIN n.proposals
                          /\ n.proposals[i].stage = p.proposals[i].stage
                          /\ n.proposals[i].prompt = p.proposals[i].prompt
                          /\ n.proposals[i].raw = r
                          /\ n.raws[r].proposal = p.raws[r].proposal
                          /\ IsPending(n, i) => IsPending(p, i) /\ n.raws[r].status = p.raws[r].status
                          /\ IsAccepted(n, i) => IsAccepted(p, i) \/ Usable(p, p.proposals[i].prompt)
    BY DEF FollowsProposals
  <2>1. p.proposals[i].prompt \in DOMAIN p.prompts
    BY DEF Shape, ProposalsRefer, RawsRefer
  <2>2. Usable(m, p.proposals[i].prompt) => Usable(p, p.proposals[i].prompt)
    BY <2>1, FollowsUsable DEF Follows
  <2> QED
    BY <2>2 DEF Follows, FollowsProposals
<1> QED
  BY <1>1, <1>2, <1>3, <1>4, <1>5 DEF Follows

(* A project that follows another one has its shape if what is new in it   *)
(* does.                                                                   *)
LEMMA FollowsShape ==
    ASSUME NEW p, NEW n, Shape(p), Follows(p, n), n \in Project,
           \A i \in DOMAIN n.prompts \ DOMAIN p.prompts :
              /\ n.prompts[i].basis.version \in DOMAIN n.inputs
              /\ n.prompts[i].basis.upstream \subseteq DOMAIN n.changes,
           \A r \in DOMAIN n.raws \ DOMAIN p.raws :
              /\ n.raws[r].prompt \in DOMAIN n.prompts
              /\ n.raws[r].stage = n.prompts[n.raws[r].prompt].stage,
           \A r \in DOMAIN n.raws :
              /\ n.raws[r].proposal <= Len(n.proposals)
              /\ n.raws[r].status = "VALIDATED_PENDING_REVIEW" => n.raws[r].proposal # 0,
           \A i \in DOMAIN n.proposals \ DOMAIN p.proposals :
              LET r == n.proposals[i].raw
              IN  /\ r \in DOMAIN n.raws
                  /\ n.raws[r].proposal = i
                  /\ n.raws[r].prompt = n.proposals[i].prompt
                  /\ n.raws[r].stage = n.proposals[i].stage
                  /\ n.raws[r].status = "VALIDATED_PENDING_REVIEW",
           \A c \in DOMAIN n.changes \ DOMAIN p.changes :
              /\ n.changes[c].prompt \in DOMAIN n.prompts
              /\ n.changes[c].stage = n.prompts[n.changes[c].prompt].stage
    PROVE  Shape(n)
<1>1. Len(n.inputs) > 0
  <2>1. 1 \in DOMAIN p.inputs
    BY DEF Shape, Project
  <2>2. 1 \in DOMAIN n.inputs
    BY <2>1 DEF Follows, FollowsInputs
  <2> QED
    BY <2>2 DEF Project
<1>2. PromptsRefer(n)
  BY DEF Follows, FollowsPrompts, FollowsInputs, FollowsChanges, Shape, PromptsRefer
<1>3. RawsRefer(n)
  BY DEF Follows, FollowsPrompts, FollowsRaws, Shape, RawsRefer
<1>4. ProposalsRefer(n)
  <2> SUFFICES ASSUME NEW i \in DOMAIN n.proposals
               PROVE  LET r == n.proposals[i].raw
                      IN  /\ r \in DOMAIN n.raws
                          /\ n.raws[r].proposal = i
                          /\ n.raws[r].prompt = n.proposals[i].prompt
                          /\ n.raws[r].stage = n.proposals[i].stage
                          /\ n.raws[r].status \notin Unsettled
                          /\ IsPending(n, i) => n.raws[r].status = "VALIDATED_PENDING_REVIEW"
    BY DEF ProposalsRefer
  <2>1. CASE i \notin DOMAIN p.proposals
    BY <2>1 DEF Unsettled
  <2>2. CASE i \in DOMAIN p.proposals
    BY <2>2 DEF Follows, FollowsProposals, FollowsRaws, Shape, ProposalsRefer
  <2> QED
    BY <2>1, <2>2
<1>5. ChangesRefer(n)
  BY DEF Follows, FollowsPrompts, FollowsChanges, Shape, ChangesRefer
<1> QED
  BY <1>1, <1>2, <1>3, <1>4, <1>5 DEF Shape

-----------------------------------------------------------------------------
(* What the rules of a project keep.                                       *)
Ready(p) == Shape(p) /\ RevsWithin(p, p.rev) /\ Rested(p)
Grows(p, n) == n.rev = p.rev /\ Ready(n) /\ Follows(p, n)

\* An instruction is for a stage.
LEMMA StageOfPrompt ==
    ASSUME NEW p, Shape(p), NEW i \in DOMAIN p.prompts
    PROVE  p.prompts[i].stage \in Stages
<1>1. p.prompts \in Seq(PromptType)
  BY DEF Shape, Project
<1>2. p.prompts[i] \in PromptType
  BY <1>1
<1> QED
  BY <1>2 DEF PromptType

(* The same inputs, and no instruction or accepted change more.            *)
Keeps(p, n) ==
    /\ Shape(n)
    /\ Follows(p, n)
    /\ n.rev = p.rev
    /\ n.inputs = p.inputs
    /\ DOMAIN n.prompts = DOMAIN p.prompts
    /\ DOMAIN n.changes = DOMAIN p.changes
SameAccepted(p, n, s) == AcceptedChanges(n, s) = AcceptedChanges(p, s)
Unresting(p, stages) == \A i \in DOMAIN p.prompts : Rests(p, i) => p.prompts[i].stage \notin stages

\* Two rules in a row keep what each of them keeps.
LEMMA KeepsTransitive ==
    ASSUME NEW p, NEW m, NEW n, Shape(p), Keeps(p, m), Keeps(m, n)
    PROVE  Keeps(p, n)
BY FollowsTransitive DEF Keeps

\* A rule reserves for no later revision.
LEMMA KeepsRevs ==
    ASSUME NEW p, NEW n, NEW k, RevsWithin(p, k), Keeps(p, n)
    PROVE  RevsWithin(n, k)
BY DEF Keeps, RevsWithin, Follows, FollowsPrompts

\* A rule brings back no instruction and no accepted work.
LEMMA KeepsResting ==
    ASSUME NEW p, NEW n, Shape(p), Keeps(p, n), NEW i \in DOMAIN p.prompts, Rests(n, i)
    PROVE  Rests(p, i)
BY DEF Keeps, Rests, Follows, FollowsPrompts, FollowsChanges

\* Stages without live work stay without it.
LEMMA KeepsUnresting ==
    ASSUME NEW p, NEW n, NEW S, Shape(p), Keeps(p, n), Unresting(p, S)
    PROVE  Unresting(n, S)
<1>1. ASSUME NEW i \in DOMAIN n.prompts, Rests(n, i) PROVE n.prompts[i].stage \notin S
  <2>1. i \in DOMAIN p.prompts /\ n.prompts[i].stage = p.prompts[i].stage
    BY DEF Keeps, Follows, FollowsPrompts
  <2> QED
    BY <2>1, <1>1, KeepsResting DEF Unresting
<1> QED
  BY <1>1 DEF Unresting

(* Work rests on what it was written from as long as that stays.           *)
LEMMA StandsFollows ==
    ASSUME NEW p, NEW n, Shape(p), Follows(p, n), NEW i \in DOMAIN p.prompts, Stands(p, i),
           \A t \in 1..(p.prompts[i].stage - 1) : SameAccepted(p, n, t),
           CurrentInput(n).intake = CurrentInput(p).intake
    PROVE  Stands(n, i)
<1>1. n.prompts[i].stage = p.prompts[i].stage /\ n.prompts[i].basis = p.prompts[i].basis
  BY DEF Follows, FollowsPrompts
<1>2. /\ p.prompts[i].basis.version \in DOMAIN p.inputs
      /\ p.prompts[i].basis.upstream \subseteq DOMAIN p.changes
  BY DEF Shape, PromptsRefer
<1>3. n.inputs[n.prompts[i].basis.version].intake = p.inputs[p.prompts[i].basis.version].intake
  BY <1>1, <1>2 DEF Follows, FollowsInputs
<1>4. \A t : Upstream(n, i, t) = Upstream(p, i, t)
  BY <1>1, <1>2 DEF Follows, FollowsChanges, Upstream
<1> QED
  BY <1>1, <1>3, <1>4 DEF Stands, SameAccepted

\* Work still rests on what it was written from if none was added and the
\* accepted work before it is the same.
LEMMA RestedFollows ==
    ASSUME NEW p, NEW n, Shape(p), Shape(n), Follows(p, n), Rested(p),
           \A i \in DOMAIN n.prompts : n.prompts[i].stage # 1 /\ Rests(n, i) =>
              /\ i \in DOMAIN p.prompts
              /\ Rests(p, i)
              /\ \A t \in 1..(n.prompts[i].stage - 1) : SameAccepted(p, n, t)
              /\ CurrentInput(n).intake = CurrentInput(p).intake
    PROVE  Rested(n)
<1> SUFFICES ASSUME NEW i \in DOMAIN n.prompts, n.prompts[i].stage # 1, Rests(n, i)
             PROVE  Stands(n, i)
  BY DEF Rested
<1>1. /\ i \in DOMAIN p.prompts
      /\ Rests(p, i)
      /\ \A t \in 1..(n.prompts[i].stage - 1) : SameAccepted(p, n, t)
      /\ CurrentInput(n).intake = CurrentInput(p).intake
  OBVIOUS
<1>2. n.prompts[i].stage = p.prompts[i].stage
  BY <1>1 DEF Follows, FollowsPrompts
<1>3. Stands(p, i)
  BY <1>1, <1>2 DEF Rested
<1> QED
  BY <1>1, <1>2, <1>3, StandsFollows

(* Fields that no record refers to.                                        *)
LEMMA SameRecords ==
    ASSUME NEW p, NEW n, Shape(p), n \in Project,
           n.rev = p.rev, n.inputs = p.inputs, n.prompts = p.prompts, n.raws = p.raws,
           n.proposals = p.proposals, n.changes = p.changes
    PROVE  Keeps(p, n) /\ \A s : SameAccepted(p, n, s)
<1>1. Shape(n)
  BY DEF Shape, PromptsRefer, RawsRefer, ProposalsRefer, ChangesRefer, IsPending
<1>2. Follows(p, n)
  BY DEF Follows, FollowsInputs, FollowsPrompts, FollowsRaws, FollowsProposals, FollowsChanges,
         IsPending, IsAccepted
<1>3. \A s : SameAccepted(p, n, s)
  BY DEF SameAccepted, AcceptedChanges
<1> QED
  BY <1>1, <1>2, <1>3 DEF Keeps

\* A rule that leaves accepted work alone grows the project.
LEMMA KeepsReady ==
    ASSUME NEW p, NEW n, Ready(p), Keeps(p, n), \A s \in Stages : SameAccepted(p, n, s)
    PROVE  Grows(p, n)
<1>1. Shape(p) /\ Shape(n) /\ Follows(p, n) /\ Rested(p)
  BY DEF Ready, Keeps
<1>2. ASSUME NEW i \in DOMAIN n.prompts, n.prompts[i].stage # 1, Rests(n, i)
      PROVE  /\ i \in DOMAIN p.prompts
             /\ Rests(p, i)
             /\ \A t \in 1..(n.prompts[i].stage - 1) : SameAccepted(p, n, t)
             /\ CurrentInput(n).intake = CurrentInput(p).intake
  <2>1. i \in DOMAIN p.prompts /\ n.inputs = p.inputs
    BY DEF Keeps
  <2>2. Rests(p, i)
    BY <1>1, <1>2, <2>1, KeepsResting
  <2>3. n.prompts[i].stage \in Stages
    BY <1>1, <1>2, StageOfPrompt
  <2>4. \A t \in 1..(n.prompts[i].stage - 1) : t \in Stages
    BY <2>3, StageCountIsPositive DEF Stages
  <2> QED
    BY <2>1, <2>2, <2>4 DEF CurrentInput
<1>3. Rested(n)
  BY <1>1, <1>2, RestedFollows
<1>4. RevsWithin(n, n.rev)
  BY KeepsRevs DEF Keeps, Ready
<1> QED
  BY <1>1, <1>3, <1>4 DEF Grows, Ready, Keeps

\* Growing twice is growing.
LEMMA GrowsTransitive ==
    ASSUME NEW p, NEW m, NEW n, Ready(p), Grows(p, m), Grows(m, n)
    PROVE  Grows(p, n)
BY FollowsTransitive DEF Grows, Ready

\* A request, blocker or failure that opens or closes.
LEMMA SetControlGrows ==
    ASSUME NEW p, Ready(p), NEW s \in Stages, NEW c \in Controls,
           NEW to \in {"none", "open", "closed"}
    PROVE  Grows(p, SetControl(p, s, c, to))
<1> DEFINE n == SetControl(p, s, c, to)
<1>1. Shape(p) /\ p \in Project
  BY DEF Ready, Shape
<1>2. n \in Project
  BY <1>1 DEF Project, SetControl, ControlType
<1>3. /\ n.rev = p.rev /\ n.inputs = p.inputs /\ n.prompts = p.prompts /\ n.raws = p.raws
      /\ n.proposals = p.proposals /\ n.changes = p.changes
  BY <1>1 DEF Project, SetControl
<1>4. Keeps(p, n) /\ \A t : SameAccepted(p, n, t)
  BY <1>1, <1>2, <1>3, SameRecords
<1> QED
  BY <1>4, KeepsReady

\* Deriving the stages changes nothing that was written.
LEMMA RecalculatedGrows ==
    ASSUME NEW p, Ready(p)
    PROVE  Grows(p, Recalculated(p))
<1> DEFINE n == Recalculated(p)
<1>1. Shape(p) /\ p \in Project
  BY DEF Ready, Shape
<1>2. n \in Project
  BY <1>1 DEF Project, Recalculated
<1>3. /\ n.rev = p.rev /\ n.inputs = p.inputs /\ n.prompts = p.prompts /\ n.raws = p.raws
      /\ n.proposals = p.proposals /\ n.changes = p.changes
  BY <1>1 DEF Project, Recalculated
<1>4. Keeps(p, n) /\ \A t : SameAccepted(p, n, t)
  BY <1>1, <1>2, <1>3, SameRecords
<1> QED
  BY <1>4, KeepsReady

-----------------------------------------------------------------------------
(* Invalidation.                                                           *)
LEMMA IsSeq ==
    ASSUME NEW S, NEW T, NEW s \in Seq(S), NEW f \in [DOMAIN s -> T]
    PROVE  f \in Seq(T) /\ DOMAIN f = DOMAIN s /\ Len(f) = Len(s)
<1>1. DOMAIN s = 1..Len(s) /\ Len(s) \in Nat
  OBVIOUS
<1> QED
  BY <1>1

EndedPrompts(p, S) ==
    [i \in DOMAIN p.prompts |->
        IF p.prompts[i].stage \in S /\ p.prompts[i].standing = "live"
          THEN [p.prompts[i] EXCEPT !.standing = "invalidated"] ELSE p.prompts[i]]
EndedProposals(p, S) ==
    [i \in DOMAIN p.proposals |->
        IF p.proposals[i].stage \in S /\ p.proposals[i].status = "PENDING_OPERATOR_REVIEW"
          THEN [p.proposals[i] EXCEPT !.status = "STALE"] ELSE p.proposals[i]]

\* A stale proposal was not accepted.
LEMMA StaleIsNotAccepted == "STALE" \notin AcceptedStatuses
BY DEF AcceptedStatuses, Accepted, ResponseTypes

\* What EndAttempts writes, field by field.
LEMMA EndAttemptsFields ==
    ASSUME NEW p \in Project, NEW S
    PROVE  LET n == EndAttempts(p, S)
           IN  /\ n \in Project
               /\ n.rev = p.rev /\ n.inputs = p.inputs /\ n.raws = p.raws
               /\ n.changes = p.changes
               /\ n.prompts = EndedPrompts(p, S)
               /\ n.proposals = EndedProposals(p, S)
<1> DEFINE n == EndAttempts(p, S)
           P == EndedPrompts(p, S)
           R == EndedProposals(p, S)
           C == IF 1 \in S THEN NoConfirmation ELSE p.confirmation
<1>1. n = [p EXCEPT !.prompts = P, !.proposals = R, !.confirmation = C]
  BY DEF Project, EndAttempts, EndedPrompts, EndedProposals
<1>2. P \in [DOMAIN p.prompts -> PromptType]
  <2>1. p.prompts \in Seq(PromptType)
    BY DEF Project
  <2>2. \A x \in PromptType : [x EXCEPT !.standing = "invalidated"] \in PromptType
    BY DEF PromptType, Standings
  <2>3. \A i \in DOMAIN p.prompts : p.prompts[i] \in PromptType
    BY <2>1
  <2> QED
    BY <2>2, <2>3 DEF EndedPrompts
<1>3. P \in Seq(PromptType)
  <2>1. p.prompts \in Seq(PromptType)
    BY DEF Project
  <2> QED
    BY <2>1, <1>2, IsSeq
<1>4. R \in [DOMAIN p.proposals -> ProposalType]
  <2>1. p.proposals \in Seq(ProposalType)
    BY DEF Project
  <2>2. ASSUME NEW x \in ProposalType PROVE [x EXCEPT !.status = "STALE"] \in ProposalType
    BY DEF ProposalType, ProposalStatuses
  <2>3. \A i \in DOMAIN p.proposals : p.proposals[i] \in ProposalType
    BY <2>1
  <2> QED
    BY <2>2, <2>3 DEF EndedProposals
<1>5. R \in Seq(ProposalType)
  <2>1. p.proposals \in Seq(ProposalType)
    BY DEF Project
  <2> QED
    BY <2>1, <1>4, IsSeq
<1>6. C \in ConfirmationType
  BY DEF Project, ConfirmationType, NoConfirmation
<1> HIDE DEF n, P, R, C
<1>7. n \in Project
  BY <1>1, <1>3, <1>5, <1>6 DEF Project
<1>8. /\ n.rev = p.rev /\ n.inputs = p.inputs /\ n.raws = p.raws
      /\ n.changes = p.changes /\ n.prompts = P /\ n.proposals = R
  BY <1>1 DEF Project
<1> QED
  BY <1>7, <1>8 DEF n, P, R

\* EndAttempts ends the instructions of its stages and accepts nothing.
LEMMA EndAttemptsKeeps ==
    ASSUME NEW p, Shape(p), NEW S
    PROVE  LET n == EndAttempts(p, S)
           IN  /\ Keeps(p, n)
               /\ n.changes = p.changes
               /\ \A i \in DOMAIN n.prompts :
                     n.prompts[i].standing = "live" => p.prompts[i].stage \notin S
<1> DEFINE n == EndAttempts(p, S)
<1>0. p \in Project
  BY DEF Shape
<1>1. /\ n \in Project
      /\ n.rev = p.rev /\ n.inputs = p.inputs /\ n.raws = p.raws
      /\ n.changes = p.changes
      /\ n.prompts = EndedPrompts(p, S)
      /\ n.proposals = EndedProposals(p, S)
  BY <1>0, EndAttemptsFields
<1> HIDE DEF n
<1>2. /\ DOMAIN n.prompts = DOMAIN p.prompts
      /\ DOMAIN n.proposals = DOMAIN p.proposals
  BY <1>1 DEF EndedPrompts, EndedProposals
<1>3. \A i \in DOMAIN p.prompts :
        /\ n.prompts[i].stage = p.prompts[i].stage
        /\ n.prompts[i].rev = p.prompts[i].rev
        /\ n.prompts[i].basis = p.prompts[i].basis
        /\ n.prompts[i].state = p.prompts[i].state
        /\ n.prompts[i].standing = "live" =>
              p.prompts[i].standing = "live" /\ p.prompts[i].stage \notin S
  <2> SUFFICES ASSUME NEW i \in DOMAIN p.prompts
               PROVE  /\ n.prompts[i].stage = p.prompts[i].stage
                      /\ n.prompts[i].rev = p.prompts[i].rev
                      /\ n.prompts[i].basis = p.prompts[i].basis
                      /\ n.prompts[i].state = p.prompts[i].state
                      /\ n.prompts[i].standing = "live" =>
                            p.prompts[i].standing = "live" /\ p.prompts[i].stage \notin S
    OBVIOUS
  <2>1. p.prompts[i] \in PromptType
    BY <1>0 DEF Project
  <2>2. n.prompts[i] = IF p.prompts[i].stage \in S /\ p.prompts[i].standing = "live"
                         THEN [p.prompts[i] EXCEPT !.standing = "invalidated"]
                         ELSE p.prompts[i]
    BY <1>1 DEF EndedPrompts
  <2> QED
    BY <2>1, <2>2 DEF PromptType
<1>4. \A i \in DOMAIN p.proposals :
        /\ n.proposals[i].stage = p.proposals[i].stage
        /\ n.proposals[i].prompt = p.proposals[i].prompt
        /\ n.proposals[i].raw = p.proposals[i].raw
        /\ n.proposals[i].status \in {p.proposals[i].status, "STALE"}
  <2> SUFFICES ASSUME NEW i \in DOMAIN p.proposals
               PROVE  /\ n.proposals[i].stage = p.proposals[i].stage
                      /\ n.proposals[i].prompt = p.proposals[i].prompt
                      /\ n.proposals[i].raw = p.proposals[i].raw
                      /\ n.proposals[i].status \in {p.proposals[i].status, "STALE"}
    OBVIOUS
  <2>1. p.proposals[i] \in ProposalType
    BY <1>0 DEF Project
  <2>2. n.proposals[i] = IF p.proposals[i].stage \in S
                              /\ p.proposals[i].status = "PENDING_OPERATOR_REVIEW"
                           THEN [p.proposals[i] EXCEPT !.status = "STALE"]
                           ELSE p.proposals[i]
    BY <1>1 DEF EndedProposals
  <2> QED
    BY <2>1, <2>2 DEF ProposalType
<1>5. Follows(p, n)
  <2>1. FollowsInputs(p, n) /\ FollowsRaws(p, n) /\ FollowsChanges(p, n)
    BY <1>1 DEF FollowsInputs, FollowsRaws, FollowsChanges
  <2>2. FollowsPrompts(p, n)
    BY <1>2, <1>3 DEF FollowsPrompts
  <2>3. FollowsProposals(p, n)
    BY <1>1, <1>2, <1>4, StaleIsNotAccepted DEF FollowsProposals, IsPending, IsAccepted
  <2> QED
    BY <2>1, <2>2, <2>3 DEF Follows
<1>6. Shape(n)
  <2>1. \A r \in DOMAIN n.raws :
              /\ n.raws[r].proposal <= Len(n.proposals)
              /\ n.raws[r].status = "VALIDATED_PENDING_REVIEW" => n.raws[r].proposal # 0
    <3>1. n.proposals \in Seq(ProposalType) /\ p.proposals \in Seq(ProposalType)
      BY <1>0, <1>1 DEF Project
    <3>2. Len(n.proposals) = Len(p.proposals)
      BY <3>1, <1>2
    <3> QED
      BY <3>2, <1>1 DEF Shape, RawsRefer
  <2> QED
    BY <1>1, <1>2, <1>5, <2>1, FollowsShape
<1> QED
  BY <1>1, <1>2, <1>3, <1>5, <1>6 DEF Keeps, n

\* Accepted work that ends keeps its records.
LEMMA ChangesKeep ==
    ASSUME NEW p, NEW n, Shape(p), n \in Project,
           n.rev = p.rev, n.inputs = p.inputs, n.prompts = p.prompts, n.raws = p.raws,
           n.proposals = p.proposals, DOMAIN n.changes = DOMAIN p.changes,
           \A c \in DOMAIN p.changes :
              /\ n.changes[c].stage = p.changes[c].stage
              /\ n.changes[c].prompt = p.changes[c].prompt
              /\ n.changes[c].live => p.changes[c].live
    PROVE  Keeps(p, n)
<1>1. Follows(p, n)
  BY DEF Follows, FollowsInputs, FollowsPrompts, FollowsRaws, FollowsProposals, FollowsChanges,
         IsPending, IsAccepted
<1>2. Shape(n)
  <2>1. \A r \in DOMAIN n.raws :
              /\ n.raws[r].proposal <= Len(n.proposals)
              /\ n.raws[r].status = "VALIDATED_PENDING_REVIEW" => n.raws[r].proposal # 0
    BY DEF Shape, RawsRefer
  <2> QED
    BY <1>1, <2>1, FollowsShape
<1> QED
  BY <1>1, <1>2 DEF Keeps

\* EndWork leaves no live work in its stages, and that of the others alone.
LEMMA EndWorkKeeps ==
    ASSUME NEW p, Shape(p), NEW S
    PROVE  LET n == EndWork(p, S)
           IN  /\ Keeps(p, n)
               /\ Unresting(n, S)
               /\ \A s : s \notin S => SameAccepted(p, n, s)
<1> DEFINE m == EndAttempts(p, S)
           C == [c \in DOMAIN m.changes |->
                   IF m.changes[c].stage \in S THEN [m.changes[c] EXCEPT !.live = FALSE]
                   ELSE m.changes[c]]
           n == EndWork(p, S)
<1>1. /\ Keeps(p, m)
      /\ m.changes = p.changes
      /\ \A i \in DOMAIN m.prompts :
            m.prompts[i].standing = "live" => p.prompts[i].stage \notin S
  BY EndAttemptsKeeps
<1>2. Shape(m) /\ m \in Project
  BY <1>1 DEF Keeps, Shape
<1>3. n = [m EXCEPT !.changes = C]
  BY <1>2 DEF EndWork, Project
<1>4. C \in Seq(ChangeType)
  <2>1. m.changes \in Seq(ChangeType)
    BY <1>2 DEF Project
  <2>2. \A x \in ChangeType : [x EXCEPT !.live = FALSE] \in ChangeType
    BY DEF ChangeType
  <2>3. \A c \in DOMAIN m.changes : m.changes[c] \in ChangeType
    BY <2>1
  <2>4. C \in [DOMAIN m.changes -> ChangeType]
    BY <2>2, <2>3
  <2> QED
    BY <2>1, <2>4, IsSeq
<1>5. \A c \in DOMAIN m.changes :
        /\ C[c].stage = m.changes[c].stage
        /\ C[c].prompt = m.changes[c].prompt
        /\ C[c].live <=> m.changes[c].live /\ m.changes[c].stage \notin S
  <2> SUFFICES ASSUME NEW c \in DOMAIN m.changes
               PROVE  /\ C[c].stage = m.changes[c].stage
                      /\ C[c].prompt = m.changes[c].prompt
                      /\ C[c].live <=> m.changes[c].live /\ m.changes[c].stage \notin S
    OBVIOUS
  <2>1. m.changes[c] \in ChangeType
    BY <1>2 DEF Project
  <2>2. C[c] = IF m.changes[c].stage \in S THEN [m.changes[c] EXCEPT !.live = FALSE]
               ELSE m.changes[c]
    OBVIOUS
  <2> HIDE DEF m, C
  <2>3. CASE m.changes[c].stage \in S
    BY <2>1, <2>2, <2>3 DEF ChangeType
  <2>4. CASE m.changes[c].stage \notin S
    BY <2>1, <2>2, <2>4 DEF ChangeType
  <2> QED
    BY <2>3, <2>4
<1>6. DOMAIN C = DOMAIN m.changes
  OBVIOUS
<1> HIDE DEF m, C, n
<1>7. n \in Project
  BY <1>2, <1>3, <1>4 DEF Project
<1>8. /\ n.rev = m.rev /\ n.inputs = m.inputs /\ n.prompts = m.prompts /\ n.raws = m.raws
      /\ n.proposals = m.proposals /\ n.changes = C
  BY <1>2, <1>3 DEF Project
<1>9. Keeps(m, n)
  <2>1. \A c \in DOMAIN m.changes : n.changes[c].live => m.changes[c].live
    BY <1>5, <1>8
  <2> QED
    BY <1>2, <1>5, <1>6, <1>7, <1>8, <2>1, ChangesKeep
<1>10. Unresting(n, S)
  <2> SUFFICES ASSUME NEW i \in DOMAIN n.prompts, Rests(n, i)
               PROVE  n.prompts[i].stage \notin S
    BY DEF Unresting
  <2>1. i \in DOMAIN m.prompts /\ i \in DOMAIN p.prompts /\ n.prompts[i] = m.prompts[i]
        /\ n.prompts[i].stage = p.prompts[i].stage
    BY <1>8, <1>1 DEF Keeps, Follows, FollowsPrompts
  <2>2. CASE n.prompts[i].standing = "live"
    BY <2>1, <2>2, <1>1
  <2>3. CASE \E c \in DOMAIN n.changes : n.changes[c].live /\ n.changes[c].prompt = i
    <3>1. PICK c \in DOMAIN n.changes : n.changes[c].live /\ n.changes[c].prompt = i
      BY <2>3
    <3>2. m.changes[c].stage \notin S /\ m.changes[c].prompt = i /\ c \in DOMAIN m.changes
      BY <3>1, <1>5, <1>6, <1>8
    <3>3. m.changes[c].stage = m.prompts[i].stage
      BY <3>2, <1>2 DEF Shape, ChangesRefer
    <3> QED
      BY <3>2, <3>3, <2>1
  <2> QED
    BY <2>2, <2>3 DEF Rests
<1>11. \A s : s \notin S => SameAccepted(p, n, s)
  BY <1>1, <1>5, <1>6, <1>8 DEF SameAccepted, AcceptedChanges
<1>12. Keeps(p, n)
  BY <1>1, <1>9, KeepsTransitive
<1> QED
  BY <1>10, <1>11, <1>12 DEF n

\* EndRecords changes no accepted work.
LEMMA EndRecordsKeeps ==
    ASSUME NEW p, Shape(p), NEW S
    PROVE  LET n == EndRecords(p, S)
           IN  Keeps(p, n) /\ \A s : SameAccepted(p, n, s)
<1> DEFINE P == [i \in DOMAIN p.prompts |->
                   IF p.prompts[i].stage \in S THEN [p.prompts[i] EXCEPT !.state = "INVALIDATED"]
                   ELSE p.prompts[i]]
           R == [r \in DOMAIN p.raws |->
                   IF p.raws[r].stage \in S THEN [p.raws[r] EXCEPT !.validated = FALSE]
                   ELSE p.raws[r]]
           C == [s \in Stages |-> IF s \in S THEN NoControls ELSE p.controls[s]]
           n == EndRecords(p, S)
<1>0. p \in Project
  BY DEF Shape
<1>1. n = [p EXCEPT !.prompts = P, !.raws = R, !.controls = C]
  BY <1>0 DEF EndRecords, Project
<1>2. P \in Seq(PromptType)
  <2>1. p.prompts \in Seq(PromptType)
    BY <1>0 DEF Project
  <2>2. \A x \in PromptType : [x EXCEPT !.state = "INVALIDATED"] \in PromptType
    BY DEF PromptType, Reservations
  <2>3. \A i \in DOMAIN p.prompts : p.prompts[i] \in PromptType
    BY <2>1
  <2>4. P \in [DOMAIN p.prompts -> PromptType]
    BY <2>2, <2>3
  <2> QED
    BY <2>1, <2>4, IsSeq
<1>3. R \in Seq(RawType)
  <2>1. p.raws \in Seq(RawType)
    BY <1>0 DEF Project
  <2>2. \A x \in RawType : [x EXCEPT !.validated = FALSE] \in RawType
    BY DEF RawType
  <2>3. \A r \in DOMAIN p.raws : p.raws[r] \in RawType
    BY <2>1
  <2>4. R \in [DOMAIN p.raws -> RawType]
    BY <2>2, <2>3
  <2> QED
    BY <2>1, <2>4, IsSeq
<1>4. C \in [Stages -> ControlType]
  BY <1>0 DEF Project, ControlType, NoControls
<1>5. DOMAIN P = DOMAIN p.prompts /\ DOMAIN R = DOMAIN p.raws
  OBVIOUS
<1>6. ASSUME NEW i \in DOMAIN p.prompts
      PROVE  /\ P[i].stage = p.prompts[i].stage
             /\ P[i].rev = p.prompts[i].rev
             /\ P[i].basis = p.prompts[i].basis
             /\ P[i].standing = p.prompts[i].standing
             /\ P[i].state \in {p.prompts[i].state, "INVALIDATED"}
  <2>1. p.prompts[i] \in PromptType
    BY <1>0 DEF Project
  <2>2. P[i] = IF p.prompts[i].stage \in S THEN [p.prompts[i] EXCEPT !.state = "INVALIDATED"]
               ELSE p.prompts[i]
    OBVIOUS
  <2> HIDE DEF P
  <2> QED
    BY <2>1, <2>2 DEF PromptType
<1>7. ASSUME NEW r \in DOMAIN p.raws
      PROVE  /\ R[r].stage = p.raws[r].stage
             /\ R[r].prompt = p.raws[r].prompt
             /\ R[r].response = p.raws[r].response
             /\ R[r].status = p.raws[r].status
             /\ R[r].proposal = p.raws[r].proposal
  <2>1. p.raws[r] \in RawType
    BY <1>0 DEF Project
  <2>2. R[r] = IF p.raws[r].stage \in S THEN [p.raws[r] EXCEPT !.validated = FALSE]
               ELSE p.raws[r]
    OBVIOUS
  <2> HIDE DEF R
  <2> QED
    BY <2>1, <2>2 DEF RawType
<1> HIDE DEF P, R, C, n
<1>8. n \in Project
  BY <1>0, <1>1, <1>2, <1>3, <1>4 DEF Project
<1>9. /\ n.rev = p.rev /\ n.inputs = p.inputs /\ n.prompts = P /\ n.raws = R
      /\ n.proposals = p.proposals /\ n.changes = p.changes
  BY <1>0, <1>1 DEF Project
<1>10. Follows(p, n)
  <2>1. FollowsInputs(p, n) /\ FollowsChanges(p, n)
    BY <1>9 DEF FollowsInputs, FollowsChanges
  <2>2. FollowsPrompts(p, n)
    <3>1. "INVALIDATED" \notin Preserving
      BY DEF Preserving
    <3> QED
      BY <3>1, <1>5, <1>6, <1>9 DEF FollowsPrompts
  <2>3. FollowsRaws(p, n)
    BY <1>5, <1>7, <1>9 DEF FollowsRaws
  <2>4. FollowsProposals(p, n)
    BY <1>7, <1>9 DEF Shape, ProposalsRefer, FollowsProposals, IsPending, IsAccepted
  <2> QED
    BY <2>1, <2>2, <2>3, <2>4 DEF Follows
<1>11. Shape(n)
  <2>1. \A r \in DOMAIN n.raws :
              /\ n.raws[r].proposal <= Len(n.proposals)
              /\ n.raws[r].status = "VALIDATED_PENDING_REVIEW" => n.raws[r].proposal # 0
    BY <1>5, <1>7, <1>9 DEF Shape, RawsRefer
  <2> QED
    BY <1>5, <1>8, <1>9, <1>10, <2>1, FollowsShape
<1>12. \A s : SameAccepted(p, n, s)
  BY <1>9 DEF SameAccepted, AcceptedChanges
<1> QED
  BY <1>5, <1>9, <1>10, <1>11, <1>12 DEF Keeps, n

Later(s) == {t \in Stages : t > s}

\* InvalidateDownstream leaves no live work behind the stage.
LEMMA InvalidateDownstreamKeeps ==
    ASSUME NEW p, Shape(p), NEW s
    PROVE  LET n == InvalidateDownstream(p, s)
           IN  /\ Keeps(p, n)
               /\ Unresting(n, Later(s))
               /\ \A t : t \notin Later(s) => SameAccepted(p, n, t)
<1> DEFINE m == EndWork(p, Later(s))
           n == InvalidateDownstream(p, s)
<1>1. /\ Keeps(p, m)
      /\ Unresting(m, Later(s))
      /\ \A t : t \notin Later(s) => SameAccepted(p, m, t)
  BY EndWorkKeeps
<1>2. Shape(m)
  BY <1>1 DEF Keeps
<1>3. n = EndRecords(m, Later(s))
  BY DEF InvalidateDownstream, Later
<1> HIDE DEF m, n
<1>4. Keeps(m, n) /\ \A t : SameAccepted(m, n, t)
  BY <1>2, <1>3, EndRecordsKeeps
<1>5. Keeps(p, n)
  BY <1>1, <1>4, KeepsTransitive
<1>6. Unresting(n, Later(s))
  BY <1>1, <1>2, <1>4, KeepsUnresting
<1>7. \A t : t \notin Later(s) => SameAccepted(p, n, t)
  BY <1>1, <1>4 DEF SameAccepted
<1> QED
  BY <1>5, <1>6, <1>7 DEF n

\* InvalidateStage leaves none in the stage either.
LEMMA InvalidateStageKeeps ==
    ASSUME NEW p, Shape(p), NEW s \in Stages
    PROVE  LET n == InvalidateStage(p, s)
           IN  /\ Keeps(p, n)
               /\ Unresting(n, {t \in Stages : t >= s})
               /\ \A t \in 1..(s - 1) : SameAccepted(p, n, t)
<1> DEFINE m == EndWork(p, {s})
           n == InvalidateStage(p, s)
<1>1. /\ Keeps(p, m)
      /\ Unresting(m, {s})
      /\ \A t : t \notin {s} => SameAccepted(p, m, t)
  BY EndWorkKeeps
<1>2. Shape(m)
  BY <1>1 DEF Keeps
<1>3. n = InvalidateDownstream(m, s)
  BY DEF InvalidateStage
<1> HIDE DEF m, n
<1>4. /\ Keeps(m, n)
      /\ Unresting(n, Later(s))
      /\ \A t : t \notin Later(s) => SameAccepted(m, n, t)
  BY <1>2, <1>3, InvalidateDownstreamKeeps
<1>5. Keeps(p, n)
  BY <1>1, <1>4, KeepsTransitive
<1>6. Unresting(n, {s})
  BY <1>1, <1>2, <1>4, KeepsUnresting
<1>7. Unresting(n, {t \in Stages : t >= s})
  BY <1>4, <1>6 DEF Unresting, Later, Stages
<1>8. \A t \in 1..(s - 1) : SameAccepted(p, n, t)
  <2>1. \A t \in 1..(s - 1) : t \notin {s} /\ t \notin Later(s)
    BY StageCountIsPositive DEF Stages, Later
  <2> QED
    BY <2>1, <1>1, <1>4 DEF SameAccepted
<1> QED
  BY <1>5, <1>7, <1>8 DEF n

-----------------------------------------------------------------------------
(* Inputs and instructions.                                                *)
LEMMA InputAppended ==
    ASSUME NEW p, Shape(p), NEW input \in InputType
    PROVE  LET n == [p EXCEPT !.inputs = Append(@, input)]
           IN  /\ n \in Project
               /\ n.rev = p.rev /\ n.prompts = p.prompts /\ n.raws = p.raws
               /\ n.proposals = p.proposals /\ n.changes = p.changes
               /\ Shape(n)
               /\ Follows(p, n)
               /\ CurrentInput(n) = input
<1> DEFINE n == [p EXCEPT !.inputs = Append(@, input)]
           I == Append(p.inputs, input)
<1>0. p \in Project /\ p.inputs \in Seq(InputType)
  BY DEF Shape, Project
<1>1. n = [p EXCEPT !.inputs = I]
  BY <1>0 DEF Project
<1>2. /\ I \in Seq(InputType)
      /\ Len(I) = Len(p.inputs) + 1
      /\ DOMAIN p.inputs \subseteq DOMAIN I
      /\ \A v \in DOMAIN p.inputs : I[v] = p.inputs[v]
      /\ I[Len(I)] = input
  BY <1>0
<1> HIDE DEF n, I
<1>3. n \in Project
  BY <1>0, <1>1, <1>2 DEF Project
<1>4. /\ n.rev = p.rev /\ n.prompts = p.prompts /\ n.raws = p.raws
      /\ n.proposals = p.proposals /\ n.changes = p.changes /\ n.inputs = I
  BY <1>0, <1>1 DEF Project
<1>5. Follows(p, n)
  BY <1>2, <1>4 DEF Follows, FollowsInputs, FollowsPrompts, FollowsRaws, FollowsProposals,
                    FollowsChanges, IsPending, IsAccepted
<1>6. Shape(n)
  <2>1. \A r \in DOMAIN n.raws :
              /\ n.raws[r].proposal <= Len(n.proposals)
              /\ n.raws[r].status = "VALIDATED_PENDING_REVIEW" => n.raws[r].proposal # 0
    BY <1>4 DEF Shape, RawsRefer
  <2> QED
    BY <1>3, <1>4, <1>5, <2>1, FollowsShape
<1>7. CurrentInput(n) = input
  BY <1>2, <1>4 DEF CurrentInput
<1> QED
  BY <1>3, <1>4, <1>5, <1>6, <1>7 DEF n

\* A live instruction, or one that accepted work answers, is prior work.
LEMMA RestsIsWork ==
    ASSUME NEW p, Shape(p), NEW i \in DOMAIN p.prompts, Rests(p, i)
    PROVE  \/ i \in LivePrompts(p, p.prompts[i].stage)
           \/ AcceptedChanges(p, p.prompts[i].stage) # {}
<1>1. CASE p.prompts[i].standing = "live"
  BY <1>1 DEF LivePrompts
<1>2. CASE \E c \in DOMAIN p.changes : p.changes[c].live /\ p.changes[c].prompt = i
  BY <1>2 DEF Shape, ChangesRefer, AcceptedChanges
<1> QED
  BY <1>1, <1>2 DEF Rests

\* A new input leaves only work that rests on it: a change of the intake ends
\* all of it, a change of a stage's own fields touches no intake.
LEMMA RecordInputGrows ==
    ASSUME NEW p, Ready(p), NEW input \in InputType
    PROVE  Grows(p, RecordInput(p, input))
<1> DEFINE next == [p EXCEPT !.inputs = Append(@, input)]
           n == RecordInput(p, input)
<1>0. Shape(p) /\ Rested(p) /\ RevsWithin(p, p.rev)
  BY DEF Ready
<1>1. /\ next.rev = p.rev /\ next.prompts = p.prompts /\ next.changes = p.changes
      /\ Shape(next)
      /\ Follows(p, next)
      /\ CurrentInput(next) = input
  BY <1>0, InputAppended
<1>2. /\ n = IF input = CurrentInput(p) THEN p
             ELSE IF input.intake # CurrentInput(p).intake /\ HasPriorWork(p)
                    THEN InvalidateStage(next, 1)
             ELSE next
  BY DEF RecordInput
<1>3. RevsWithin(next, next.rev)
  BY <1>0, <1>1 DEF RevsWithin
<1> HIDE DEF next, n
<1>4. CASE n = p
  BY <1>0, <1>4, FollowsItself DEF Grows, Ready, n
<1>5. CASE n = InvalidateStage(next, 1)
  <2>1. 1 \in Stages
    BY StageCountIsPositive DEF Stages
  <2>2. Keeps(next, n) /\ Unresting(n, {t \in Stages : t >= 1})
    BY <1>1, <1>5, <2>1, InvalidateStageKeeps
  <2>3. Shape(n) /\ n.rev = p.rev
    BY <1>1, <2>2 DEF Keeps
  <2>4. RevsWithin(n, n.rev)
    BY <1>1, <1>3, <2>2, <2>3, KeepsRevs
  <2>5. Rested(n)
    <3> SUFFICES ASSUME NEW i \in DOMAIN n.prompts, Rests(n, i)
                 PROVE  FALSE
      BY DEF Rested
    <3>1. n.prompts[i].stage \in Stages
      BY <2>3, StageOfPrompt
    <3>2. n.prompts[i].stage \in {t \in Stages : t >= 1}
      BY <3>1 DEF Stages
    <3> QED
      BY <3>2, <2>2 DEF Unresting
  <2>6. Follows(p, n)
    BY <1>0, <1>1, <2>2, FollowsTransitive DEF Keeps
  <2> QED
    BY <2>3, <2>4, <2>5, <2>6 DEF Grows, Ready, n
<1>6. CASE n = next /\ (input.intake = CurrentInput(p).intake \/ ~ HasPriorWork(p))
  <2>1. ASSUME NEW i \in DOMAIN next.prompts, next.prompts[i].stage # 1, Rests(next, i)
        PROVE  /\ i \in DOMAIN p.prompts
               /\ Rests(p, i)
               /\ \A t \in 1..(next.prompts[i].stage - 1) : SameAccepted(p, next, t)
               /\ CurrentInput(next).intake = CurrentInput(p).intake
    <3>1. i \in DOMAIN p.prompts /\ Rests(p, i)
      BY <1>1, <2>1 DEF Rests
    <3>2. \A t : SameAccepted(p, next, t)
      BY <1>1 DEF SameAccepted, AcceptedChanges
    <3>3. HasPriorWork(p)
      BY <1>0, <3>1, StageOfPrompt, RestsIsWork DEF HasPriorWork, HasStageActivity
    <3> QED
      BY <3>1, <3>2, <3>3, <1>1, <1>6
  <2>2. Rested(next)
    BY <1>0, <1>1, <2>1, RestedFollows
  <2> QED
    BY <1>1, <1>3, <1>6, <2>2 DEF Grows, Ready, n
<1> QED
  BY <1>2, <1>4, <1>5, <1>6 DEF n

\* What an instruction would say depends on the input and on accepted work only.
LEMMA BasisFollows ==
    ASSUME NEW p, NEW n, n.inputs = p.inputs, NEW s, \A t \in 1..s : SameAccepted(p, n, t)
    PROVE  Basis(n, s) = Basis(p, s)
BY DEF Basis, InputVersion, SameAccepted

\* What an instruction is written from exists, and is the accepted work.
LEMMA BasisFits ==
    ASSUME NEW p, Shape(p), NEW s \in Stages
    PROVE  /\ Basis(p, s) \in BasisType
           /\ Basis(p, s).version \in DOMAIN p.inputs
           /\ Basis(p, s).upstream \subseteq DOMAIN p.changes
           /\ p.inputs[Basis(p, s).version].intake = CurrentInput(p).intake
           /\ \A t \in 1..s :
                {c \in Basis(p, s).upstream : p.changes[c].stage = t} = AcceptedChanges(p, t)
<1>1. p.inputs \in Seq(InputType) /\ Len(p.inputs) > 0 /\ p.changes \in Seq(ChangeType)
  BY DEF Shape, Project
<1>2. /\ InputVersion(p, s) \in DOMAIN p.inputs
      /\ Visible(p.inputs[InputVersion(p, s)], s) = Visible(CurrentInput(p), s)
  BY <1>1, InputVersionIsCurrent
<1>3. p.inputs[InputVersion(p, s)].intake = CurrentInput(p).intake
  BY <1>2 DEF Visible
<1>4. UNION {AcceptedChanges(p, t) : t \in 1..s} \subseteq DOMAIN p.changes
  BY DEF AcceptedChanges
<1>5. DOMAIN p.changes \subseteq Nat /\ DOMAIN p.inputs \subseteq Nat
  BY <1>1
<1>6. \A t \in 1..s :
        {c \in UNION {AcceptedChanges(p, u) : u \in 1..s} : p.changes[c].stage = t}
          = AcceptedChanges(p, t)
  BY DEF AcceptedChanges
<1> QED
  BY <1>2, <1>3, <1>4, <1>5, <1>6 DEF Basis, BasisType

\* Instructions whose reservation or standing ends keep their records.
LEMMA PromptsKeep ==
    ASSUME NEW p, Shape(p), NEW P \in Seq(PromptType), DOMAIN P = DOMAIN p.prompts,
           \A i \in DOMAIN p.prompts :
              /\ P[i].stage = p.prompts[i].stage
              /\ P[i].rev = p.prompts[i].rev
              /\ P[i].basis = p.prompts[i].basis
              /\ P[i].standing = "live" => p.prompts[i].standing = "live"
              /\ P[i].state \in Preserving => p.prompts[i].state \in Preserving
    PROVE  LET n == [p EXCEPT !.prompts = P]
           IN  /\ Keeps(p, n)
               /\ \A s : SameAccepted(p, n, s)
               /\ n.prompts = P
               /\ n.raws = p.raws /\ n.proposals = p.proposals /\ n.changes = p.changes
<1> DEFINE n == [p EXCEPT !.prompts = P]
<1>0. p \in Project
  BY DEF Shape
<1>1. n \in Project
  BY <1>0 DEF Project
<1>2. /\ n.rev = p.rev /\ n.inputs = p.inputs /\ n.raws = p.raws
      /\ n.proposals = p.proposals /\ n.changes = p.changes /\ n.prompts = P
  BY <1>0 DEF Project
<1> HIDE DEF n
<1>3. Follows(p, n)
  <2>1. FollowsInputs(p, n) /\ FollowsRaws(p, n) /\ FollowsChanges(p, n)
    BY <1>2 DEF FollowsInputs, FollowsRaws, FollowsChanges
  <2>2. FollowsPrompts(p, n)
    BY <1>2 DEF FollowsPrompts
  <2>3. FollowsProposals(p, n)
    BY <1>2 DEF FollowsProposals, IsPending, IsAccepted
  <2> QED
    BY <2>1, <2>2, <2>3 DEF Follows
<1>4. Shape(n)
  <2>1. \A r \in DOMAIN n.raws :
              /\ n.raws[r].proposal <= Len(n.proposals)
              /\ n.raws[r].status = "VALIDATED_PENDING_REVIEW" => n.raws[r].proposal # 0
    BY <1>2 DEF Shape, RawsRefer
  <2> QED
    BY <1>1, <1>2, <1>3, <2>1, FollowsShape
<1>5. \A s : SameAccepted(p, n, s)
  BY <1>2 DEF SameAccepted, AcceptedChanges
<1> QED
  BY <1>2, <1>3, <1>4, <1>5 DEF Keeps, n

ReconciledPrompts(p) ==
    [i \in DOMAIN p.prompts |->
        IF p.prompts[i].state \in Preserving /\ p.prompts[i].rev # p.rev
          THEN [p.prompts[i] EXCEPT !.state = "EXPIRED_BY_SCOPE"] ELSE p.prompts[i]]

(* Only reservations of this revision stand.                               *)
LEMMA ReconciledFields ==
    ASSUME NEW p \in Project
    PROVE  /\ Reconciled(p) = [p EXCEPT !.prompts = ReconciledPrompts(p)]
           /\ ReconciledPrompts(p) \in Seq(PromptType)
           /\ DOMAIN ReconciledPrompts(p) = DOMAIN p.prompts
           /\ \A i \in DOMAIN p.prompts :
                LET q == ReconciledPrompts(p)[i]
                IN  /\ q.stage = p.prompts[i].stage
                    /\ q.rev = p.prompts[i].rev
                    /\ q.basis = p.prompts[i].basis
                    /\ q.standing = p.prompts[i].standing
                    /\ q.state \in Preserving =>
                          p.prompts[i].state \in Preserving /\ p.prompts[i].rev = p.rev
<1> DEFINE P == ReconciledPrompts(p)
<1>1. Reconciled(p) = [p EXCEPT !.prompts = P]
  BY DEF Reconciled, ReconciledPrompts, Project
<1>2. \A i \in DOMAIN p.prompts : p.prompts[i] \in PromptType
  <2>1. p.prompts \in Seq(PromptType)
    BY DEF Project
  <2> QED
    BY <2>1
<1>3. P \in Seq(PromptType) /\ DOMAIN P = DOMAIN p.prompts
  <2>1. p.prompts \in Seq(PromptType)
    BY DEF Project
  <2>2. \A x \in PromptType : [x EXCEPT !.state = "EXPIRED_BY_SCOPE"] \in PromptType
    BY DEF PromptType, Reservations
  <2>3. P \in [DOMAIN p.prompts -> PromptType]
    BY <1>2, <2>2 DEF ReconciledPrompts
  <2> QED
    BY <2>1, <2>3, IsSeq
<1>4. ASSUME NEW i \in DOMAIN p.prompts
      PROVE  /\ P[i].stage = p.prompts[i].stage
             /\ P[i].rev = p.prompts[i].rev
             /\ P[i].basis = p.prompts[i].basis
             /\ P[i].standing = p.prompts[i].standing
             /\ P[i].state \in Preserving =>
                   p.prompts[i].state \in Preserving /\ p.prompts[i].rev = p.rev
  <2>1. p.prompts[i] \in PromptType
    BY <1>2
  <2>2. P[i] = IF p.prompts[i].state \in Preserving /\ p.prompts[i].rev # p.rev
                 THEN [p.prompts[i] EXCEPT !.state = "EXPIRED_BY_SCOPE"] ELSE p.prompts[i]
    BY DEF ReconciledPrompts
  <2> HIDE DEF P
  <2>3. "EXPIRED_BY_SCOPE" \notin Preserving
    BY DEF Preserving
  <2> QED
    BY <2>1, <2>2, <2>3 DEF PromptType
<1> QED
  BY <1>1, <1>3, <1>4

NewPrompt(p, s) ==
    [stage |-> s, rev |-> p.rev + 1, state |-> "RESERVED", standing |-> "live",
     basis |-> Basis(p, s)]
SupersededPrompts(p, s) ==
    LET old == ReconciledPrompts(p)
    IN  [i \in DOMAIN old |->
            IF old[i].stage = s /\ old[i].standing = "live"
              THEN [old[i] EXCEPT !.standing = "superseded"] ELSE old[i]]

\* What Prompted makes of the instructions there are.
LEMMA SupersededFields ==
    ASSUME NEW p \in Project, NEW s
    PROVE  /\ SupersededPrompts(p, s) \in Seq(PromptType)
           /\ DOMAIN SupersededPrompts(p, s) = DOMAIN p.prompts
           /\ \A i \in DOMAIN p.prompts :
                LET q == SupersededPrompts(p, s)[i]
                IN  /\ q.stage = p.prompts[i].stage
                    /\ q.rev = p.prompts[i].rev
                    /\ q.basis = p.prompts[i].basis
                    /\ q.standing = "live" => p.prompts[i].standing = "live"
                    /\ q.state \in Preserving => p.prompts[i].state \in Preserving
<1> DEFINE old == ReconciledPrompts(p)
           P == SupersededPrompts(p, s)
<1>1. /\ old \in Seq(PromptType)
      /\ DOMAIN old = DOMAIN p.prompts
      /\ \A i \in DOMAIN p.prompts :
           /\ old[i].stage = p.prompts[i].stage
           /\ old[i].rev = p.prompts[i].rev
           /\ old[i].basis = p.prompts[i].basis
           /\ old[i].standing = p.prompts[i].standing
           /\ old[i].state \in Preserving => p.prompts[i].state \in Preserving
  BY ReconciledFields
<1>2. P = [i \in DOMAIN old |->
            IF old[i].stage = s /\ old[i].standing = "live"
              THEN [old[i] EXCEPT !.standing = "superseded"] ELSE old[i]]
  BY DEF SupersededPrompts
<1> HIDE DEF old, P
<1>3. \A i \in DOMAIN old : old[i] \in PromptType
  BY <1>1
<1>4. P \in Seq(PromptType) /\ DOMAIN P = DOMAIN old
  <2>1. \A x \in PromptType : [x EXCEPT !.standing = "superseded"] \in PromptType
    BY DEF PromptType, Standings
  <2>2. P \in [DOMAIN old -> PromptType]
    BY <1>2, <1>3, <2>1
  <2> QED
    BY <1>1, <2>2, IsSeq
<1>5. ASSUME NEW i \in DOMAIN old
      PROVE  /\ P[i].stage = old[i].stage
             /\ P[i].rev = old[i].rev
             /\ P[i].basis = old[i].basis
             /\ P[i].standing = "live" => old[i].standing = "live"
             /\ P[i].state = old[i].state
  <2>1. old[i] \in PromptType
    BY <1>3
  <2>2. P[i] = IF old[i].stage = s /\ old[i].standing = "live"
                 THEN [old[i] EXCEPT !.standing = "superseded"] ELSE old[i]
    BY <1>2
  <2> QED
    BY <2>1, <2>2 DEF PromptType
<1> QED
  BY <1>1, <1>4, <1>5 DEF P

(* A project that grew is ready to be saved; so it is with one more        *)
(* instruction, written from it as it then is.                             *)
LEMMA GrowsCandidate ==
    ASSUME NEW p, NEW n, p.rev \in Nat, Grows(p, n)
    PROVE  Candidate(p, n)
<1>1. n.rev = p.rev /\ Shape(n) /\ RevsWithin(n, n.rev) /\ Rested(n) /\ Follows(p, n)
  BY DEF Grows, Ready
<1>2. \A i \in DOMAIN n.prompts : n.prompts[i].rev \in Nat /\ n.prompts[i].rev <= n.rev
  <2>1. n.prompts \in Seq(PromptType)
    BY <1>1 DEF Shape, Project
  <2>2. \A i \in DOMAIN n.prompts : n.prompts[i] \in PromptType
    BY <2>1
  <2> QED
    BY <2>2, <1>1 DEF PromptType, RevsWithin
<1>3. RevsWithin(n, n.rev + 1) /\ NewIsCurrent(n)
  BY <1>1, <1>2 DEF RevsWithin, NewIsCurrent
<1> QED
  BY <1>1, <1>3 DEF Candidate

\* The new instruction says what one says now, and supersedes the one before it.
LEMMA PromptedCandidate ==
    ASSUME NEW p, NEW m, p.rev \in Nat, Grows(p, m), Shape(p), NEW s \in Stages
    PROVE  Candidate(p, Prompted(m, s))
<1> DEFINE P == SupersededPrompts(m, s)
           new == NewPrompt(m, s)
           Q == Append(P, new)
           k == Len(P) + 1
           n == Prompted(m, s)
<1>0. m.rev = p.rev /\ Shape(m) /\ m \in Project /\ RevsWithin(m, m.rev) /\ Rested(m)
      /\ Follows(p, m)
  BY DEF Grows, Ready, Shape
<1>1. n = [m EXCEPT !.prompts = Q]
  <2>1. Reconciled(m).prompts = ReconciledPrompts(m)
    BY <1>0, ReconciledFields DEF Project
  <2> QED
    BY <2>1 DEF Prompted, SupersededPrompts, NewPrompt
<1>2. /\ P \in Seq(PromptType)
      /\ DOMAIN P = DOMAIN m.prompts
      /\ \A i \in DOMAIN m.prompts :
           /\ P[i].stage = m.prompts[i].stage
           /\ P[i].rev = m.prompts[i].rev
           /\ P[i].basis = m.prompts[i].basis
           /\ P[i].standing = "live" => m.prompts[i].standing = "live"
           /\ P[i].state \in Preserving => m.prompts[i].state \in Preserving
  BY <1>0, SupersededFields
<1>3. /\ Basis(m, s) \in BasisType
      /\ Basis(m, s).version \in DOMAIN m.inputs
      /\ Basis(m, s).upstream \subseteq DOMAIN m.changes
      /\ m.inputs[Basis(m, s).version].intake = CurrentInput(m).intake
      /\ \A t \in 1..s :
            {c \in Basis(m, s).upstream : m.changes[c].stage = t} = AcceptedChanges(m, t)
  BY <1>0, BasisFits
<1>4. /\ new.stage = s /\ new.rev = m.rev + 1 /\ new.basis = Basis(m, s)
      /\ new \in PromptType
  BY <1>0, <1>3 DEF NewPrompt, PromptType, Reservations, Preserving, Standings
<1> HIDE DEF P, new
<1>5. /\ Q \in Seq(PromptType)
      /\ k \in DOMAIN Q
      /\ \A i \in DOMAIN Q : i \in DOMAIN m.prompts \/ i = k
      /\ DOMAIN m.prompts \subseteq DOMAIN Q
      /\ \A i \in DOMAIN m.prompts : Q[i] = P[i]
      /\ k \notin DOMAIN m.prompts
      /\ Q[k] = new
  BY <1>2, <1>4
<1> HIDE DEF Q, k, n
<1>6. n \in Project
  BY <1>0, <1>1, <1>5 DEF Project
<1>7. /\ n.rev = m.rev /\ n.inputs = m.inputs /\ n.raws = m.raws
      /\ n.proposals = m.proposals /\ n.changes = m.changes /\ n.prompts = Q
  BY <1>0, <1>1 DEF Project
<1>8. Follows(m, n)
  <2>1. FollowsInputs(m, n) /\ FollowsRaws(m, n) /\ FollowsChanges(m, n)
    BY <1>7 DEF FollowsInputs, FollowsRaws, FollowsChanges
  <2>2. FollowsPrompts(m, n)
    BY <1>2, <1>5, <1>7 DEF FollowsPrompts
  <2>3. FollowsProposals(m, n)
    BY <1>7 DEF FollowsProposals, IsPending, IsAccepted
  <2> QED
    BY <2>1, <2>2, <2>3 DEF Follows
<1>9. Shape(n)
  <2>1. \A r \in DOMAIN n.raws :
              /\ n.raws[r].proposal <= Len(n.proposals)
              /\ n.raws[r].status = "VALIDATED_PENDING_REVIEW" => n.raws[r].proposal # 0
    BY <1>0, <1>7 DEF Shape, RawsRefer
  <2>2. \A i \in DOMAIN n.prompts \ DOMAIN m.prompts :
              /\ n.prompts[i].basis.version \in DOMAIN n.inputs
              /\ n.prompts[i].basis.upstream \subseteq DOMAIN n.changes
    BY <1>3, <1>4, <1>5, <1>7
  <2> QED
    BY <1>0, <1>6, <1>7, <1>8, <2>1, <2>2, FollowsShape
<1>10. \A t : SameAccepted(m, n, t)
  BY <1>7 DEF SameAccepted, AcceptedChanges
<1>11. \A t : Basis(n, t) = Basis(m, t)
  BY <1>7, <1>10, BasisFollows
<1>12. \A i \in DOMAIN m.prompts : m.prompts[i].rev \in Nat /\ m.prompts[i].rev <= m.rev
  <2>1. m.prompts \in Seq(PromptType)
    BY <1>0 DEF Project
  <2>2. \A i \in DOMAIN m.prompts : m.prompts[i] \in PromptType
    BY <2>1
  <2> QED
    BY <2>2, <1>0 DEF PromptType, RevsWithin
<1>13. RevsWithin(n, n.rev + 1)
  <2> SUFFICES ASSUME NEW i \in DOMAIN n.prompts
               PROVE  n.prompts[i].rev <= n.rev + 1
    BY DEF RevsWithin
  <2>1. m.rev \in Nat /\ n.rev = m.rev
    BY <1>0, <1>7
  <2>2. CASE i = k
    BY <2>1, <2>2, <1>4, <1>5, <1>7
  <2>3. CASE i \in DOMAIN m.prompts
    <3>1. n.prompts[i].rev = m.prompts[i].rev
      BY <2>3, <1>2, <1>5, <1>7
    <3> QED
      BY <2>1, <2>3, <3>1, <1>12
  <2> QED
    BY <2>2, <2>3, <1>5, <1>7
<1>14. NewIsCurrent(n)
  <2> SUFFICES ASSUME NEW i \in DOMAIN n.prompts, n.prompts[i].rev = n.rev + 1
               PROVE  n.prompts[i].basis = Basis(n, n.prompts[i].stage)
    BY DEF NewIsCurrent
  <2>1. i = k
    BY <1>0, <1>2, <1>5, <1>7, <1>12
  <2> QED
    BY <2>1, <1>4, <1>5, <1>7, <1>11
<1>15. Rested(n)
  <2> SUFFICES ASSUME NEW i \in DOMAIN n.prompts, n.prompts[i].stage # 1, Rests(n, i)
               PROVE  Stands(n, i)
    BY DEF Rested
  <2>1. CASE i = k
    <3>1. n.prompts[i].stage = s /\ n.prompts[i].basis = Basis(m, s)
      BY <2>1, <1>4, <1>5, <1>7
    <3>2. \A t \in 1..(s - 1) : t \in 1..s
      BY StageCountIsPositive DEF Stages
    <3>3. \A t \in 1..(s - 1) : Upstream(n, i, t) = AcceptedChanges(n, t)
      BY <3>1, <3>2, <1>3, <1>7, <1>10 DEF Upstream, SameAccepted
    <3> QED
      BY <3>1, <3>3, <1>3, <1>7 DEF Stands, CurrentInput
  <2>2. CASE i \in DOMAIN m.prompts
    <3>1. n.prompts[i].stage = m.prompts[i].stage
      BY <2>2, <1>2, <1>5, <1>7
    <3>2. Rests(m, i)
      BY <2>2, <1>2, <1>5, <1>7 DEF Rests
    <3>3. Stands(m, i)
      BY <2>2, <3>1, <3>2, <1>0 DEF Rested
    <3>4. CurrentInput(n).intake = CurrentInput(m).intake
      BY <1>7 DEF CurrentInput
    <3> QED
      BY <2>2, <3>3, <3>4, <1>0, <1>8, <1>10, StandsFollows
  <2> QED
    BY <2>1, <2>2, <1>5, <1>7
<1>16. Follows(p, n)
  BY <1>0, <1>8, FollowsTransitive
<1> QED
  BY <1>0, <1>7, <1>9, <1>13, <1>14, <1>15, <1>16 DEF Candidate, n

(* What a save makes of it.                                                *)
LEMMA SavedStored ==
    ASSUME NEW p, NEW n, Shape(p), Candidate(p, n), n.rev \in Nat, Saved(n).rev <= MaxRevision
    PROVE  Stored(Saved(n)) /\ Follows(p, Saved(n)) /\ Saved(n).rev = n.rev + 1
<1> DEFINE a == [n EXCEPT !.rev = @ + 1, !.restored.raws = {}, !.restored.proposals = {}]
           P == ReconciledPrompts(a)
           b == [a EXCEPT !.prompts = P]
           d == Saved(n)
           T == {s \in Stages : \A t \in 1..s : GatePasses(b, t)}
<1>0. n.rev = p.rev /\ Shape(n) /\ n \in Project /\ Follows(p, n) /\ RevsWithin(n, n.rev + 1)
      /\ NewIsCurrent(n) /\ Rested(n)
  BY DEF Candidate, Shape
<1>1. a \in Project /\ a.rev = n.rev + 1
  <2> DEFINE R == [n.restored EXCEPT !.raws = {}, !.proposals = {}]
  <2>1. n.restored \in RestoredType
    BY <1>0 DEF Project
  <2>2. R \in RestoredType
    BY <2>1 DEF RestoredType
  <2>3. a = [n EXCEPT !.rev = n.rev + 1, !.restored = R]
    BY <1>0, <2>1 DEF Project, RestoredType
  <2> HIDE DEF R, a
  <2>4. n.rev \in Nat /\ n.rev + 1 \in Nat
    BY <1>0 DEF Project
  <2>5. a.rev = n.rev + 1
    BY <1>0, <2>3 DEF Project
  <2>6. a \in Project
    <3> DEFINE k == n.rev + 1
    <3>1. k \in Nat /\ a = [n EXCEPT !.rev = k, !.restored = R]
      BY <2>3, <2>4
    <3> HIDE DEF k
    <3> QED
      BY <3>1, <1>0, <2>2 DEF Project
  <2> QED
    BY <2>5, <2>6
<1>2. /\ a.inputs = n.inputs /\ a.prompts = n.prompts /\ a.raws = n.raws
      /\ a.proposals = n.proposals /\ a.changes = n.changes
  BY <1>0 DEF Project
<1>3. Follows(n, a) /\ Shape(a) /\ Rested(a)
  <2>1. Follows(n, a)
    BY <1>2 DEF Follows, FollowsInputs, FollowsPrompts, FollowsRaws, FollowsProposals,
                FollowsChanges, IsPending, IsAccepted
  <2>2. Shape(a)
    BY <1>0, <1>1, <1>2 DEF Shape, PromptsRefer, RawsRefer, ProposalsRefer, ChangesRefer, IsPending
  <2>3. Rested(a)
    BY <1>0, <1>2 DEF Rested, Rests, Stands, Upstream, AcceptedChanges, CurrentInput
  <2> QED
    BY <2>1, <2>2, <2>3
<1>4. d = Recalculated(b) /\ d = [b EXCEPT !.complete = T]
  <2>1. Reconciled(a) = b
    BY <1>1, ReconciledFields
  <2>2. d = Recalculated(Reconciled(a))
    BY DEF Saved
  <2> HIDE DEF a, b, d
  <2> QED
    BY <2>1, <2>2 DEF Recalculated
<1> HIDE DEF a, d, T
<1>5. /\ P \in Seq(PromptType)
      /\ DOMAIN P = DOMAIN a.prompts
      /\ \A i \in DOMAIN a.prompts :
           /\ P[i].stage = a.prompts[i].stage
           /\ P[i].rev = a.prompts[i].rev
           /\ P[i].basis = a.prompts[i].basis
           /\ P[i].standing = a.prompts[i].standing
           /\ P[i].state \in Preserving => a.prompts[i].state \in Preserving /\ a.prompts[i].rev = a.rev
  BY <1>1, ReconciledFields
<1> HIDE DEF P
<1>6. /\ Keeps(a, b)
      /\ \A s : SameAccepted(a, b, s)
      /\ b.prompts = P
      /\ b.changes = a.changes
  BY <1>3, <1>5, PromptsKeep
<1>7. RevsWithin(a, a.rev)
  BY <1>0, <1>1, <1>2 DEF RevsWithin
<1>8. Ready(b) /\ b \in Project /\ b.rev = a.rev /\ b.inputs = a.inputs /\ Follows(a, b)
  <2>1. Ready(a)
    BY <1>3, <1>7 DEF Ready
  <2>2. Grows(a, b)
    BY <2>1, <1>6, KeepsReady
  <2> QED
    BY <2>2, <1>6 DEF Grows, Ready, Shape, Keeps
<1> HIDE DEF b
<1>9. Grows(b, d)
  BY <1>4, <1>8, RecalculatedGrows
<1>10. Shape(d) /\ RevsWithin(d, d.rev) /\ Rested(d) /\ Follows(b, d) /\ d.rev = n.rev + 1
  BY <1>1, <1>8, <1>9 DEF Grows, Ready
<1>11. Follows(p, d)
  <2>1. Shape(b)
    BY <1>8 DEF Ready
  <2>2. Follows(n, d)
    BY <1>0, <1>3, <1>8, <1>10, FollowsTransitive
  <2> QED
    BY <2>2, <1>0, FollowsTransitive
<1>12. /\ d.prompts = P /\ d.inputs = n.inputs /\ d.changes = n.changes
       /\ d.complete = T /\ d.controls = b.controls /\ d.confirmation = b.confirmation
       /\ d.inputs = b.inputs /\ d.changes = b.changes
  BY <1>2, <1>4, <1>6, <1>8 DEF Project
<1>13. UsableIsCurrent(d)
  <2> SUFFICES ASSUME NEW i \in DOMAIN d.prompts, Usable(d, i)
               PROVE  d.prompts[i].basis = Basis(d, d.prompts[i].stage)
    BY DEF UsableIsCurrent
  <2>1. i \in DOMAIN n.prompts /\ n.prompts[i].rev = n.rev + 1
    BY <1>1, <1>2, <1>5, <1>12 DEF Usable
  <2>2. n.prompts[i].basis = Basis(n, n.prompts[i].stage)
    BY <2>1, <1>0 DEF NewIsCurrent
  <2>3. \A t : SameAccepted(n, d, t)
    BY <1>12 DEF SameAccepted, AcceptedChanges
  <2>4. \A t : Basis(d, t) = Basis(n, t)
    BY <2>3, <1>12, BasisFollows
  <2> QED
    BY <2>1, <2>2, <2>4, <1>2, <1>5, <1>12
<1>14. Derived(d)
  <2>1. \A t : GatePasses(d, t) <=> GatePasses(b, t)
    BY <1>12 DEF GatePasses, Open, AcceptedChanges, Confirmed, InputVersion
  <2>2. ASSUME NEW s \in d.complete, NEW t \in 1..s
        PROVE  t \in d.complete /\ GatePasses(d, t)
    <3>1. s \in Stages /\ \A u \in 1..s : GatePasses(b, u)
      BY <1>12 DEF T
    <3>2. t \in Stages /\ \A u \in 1..t : u \in 1..s
      BY <3>1, StageCountIsPositive DEF Stages
    <3> QED
      BY <3>1, <3>2, <2>1, <1>12 DEF T
  <2> QED
    BY <2>2 DEF Derived
<1>15. d.rev \in 1..MaxRevision
  BY <1>10, RevisionsAreCounted DEF d
<1> QED
  BY <1>10, <1>11, <1>13, <1>14, <1>15 DEF Stored, d

-----------------------------------------------------------------------------
(* Settling a proposal, and committing it.                                 *)
LEMMA AcceptedStatusesAre ==
    AcceptedStatuses = {"ACCEPTED", "QUESTIONS_CREATED", "BLOCKER_ACCEPTED",
                        "EXECUTION_FAILURE_ACCEPTED"}
<1>1. /\ Accepted["DATA_PROPOSAL"] = "ACCEPTED"
      /\ Accepted["HUMAN_INPUT_REQUIRED"] = "QUESTIONS_CREATED"
      /\ Accepted["BLOCKED"] = "BLOCKER_ACCEPTED"
      /\ Accepted["EXECUTION_FAILED"] = "EXECUTION_FAILURE_ACCEPTED"
  BY DEF Accepted, ResponseTypes
<1> QED
  BY <1>1 DEF AcceptedStatuses, ResponseTypes

\* What may have been decided on a proposal.
LEMMA DecisionsAre ==
    Decisions = {"ACCEPTED", "QUESTIONS_CREATED", "BLOCKER_ACCEPTED",
                 "EXECUTION_FAILURE_ACCEPTED", "REJECTED", "ABANDONED_BY_OPERATOR"}
BY AcceptedStatusesAre DEF Decisions

\* Replacing one element keeps a sequence.
LEMMA SeqExcept ==
    ASSUME NEW T, NEW s \in Seq(T), NEW i \in DOMAIN s, NEW x \in T
    PROVE  LET z == [s EXCEPT ![i] = x]
           IN  /\ z \in Seq(T) /\ DOMAIN z = DOMAIN s /\ Len(z) = Len(s)
               /\ z[i] = x
               /\ \A j \in DOMAIN s : j # i => z[j] = s[j]
<1>1. [s EXCEPT ![i] = x] \in [DOMAIN s -> T]
  <2>1. \A j \in DOMAIN s : s[j] \in T
    OBVIOUS
  <2>2. s \in [DOMAIN s -> T]
    OBVIOUS
  <2> QED
    BY <2>2
<1> QED
  BY <1>1, IsSeq

\* Deciding on a proposal that is pending changes it, its response and the
\* reservation, and no other record.
LEMMA SettledGrows ==
    ASSUME NEW p, Ready(p), NEW i \in DOMAIN p.proposals, IsPending(p, i),
           NEW status \in Decisions, NEW reservation \in Reservations \ Preserving,
           status \in AcceptedStatuses => Usable(p, p.proposals[i].prompt)
    PROVE  LET n == Settled(p, i, status, reservation)
           IN  /\ Grows(p, n)
               /\ n.changes = p.changes
               /\ n.inputs = p.inputs
               /\ n.complete = p.complete
               /\ n.controls = p.controls
               /\ n.confirmation = p.confirmation
<1> DEFINE r == p.proposals[i].raw
           k == p.proposals[i].prompt
           y == [p.proposals[i] EXCEPT !.status = status]
           x == [p.raws[r] EXCEPT !.status = status]
           w == [p.prompts[k] EXCEPT !.state = IF @ \in Preserving THEN reservation ELSE @]
           Q == [p.proposals EXCEPT ![i] = y]
           R == [p.raws EXCEPT ![r] = x]
           P == [p.prompts EXCEPT ![k] = w]
           n == Settled(p, i, status, reservation)
<1>0. Shape(p) /\ p \in Project /\ RevsWithin(p, p.rev) /\ Rested(p)
  BY DEF Ready, Shape
<1>1. /\ r \in DOMAIN p.raws /\ k \in DOMAIN p.prompts
      /\ p.raws[r].proposal = i /\ p.raws[r].status = "VALIDATED_PENDING_REVIEW"
  BY <1>0 DEF Shape, ProposalsRefer, RawsRefer
<1>2. /\ p.proposals \in Seq(ProposalType) /\ p.raws \in Seq(RawType)
      /\ p.prompts \in Seq(PromptType)
  BY <1>0 DEF Project
<1>3. p.proposals[i] \in ProposalType /\ p.raws[r] \in RawType /\ p.prompts[k] \in PromptType
  BY <1>1, <1>2
<1>4. n = [p EXCEPT !.proposals = Q, !.raws = R, !.prompts = P]
  BY <1>0 DEF Settled, Finished, Project
<1>5. /\ y \in ProposalType /\ y.status = status /\ y.stage = p.proposals[i].stage
      /\ y.prompt = k /\ y.raw = r
  BY <1>3 DEF ProposalType, ProposalStatuses
<1>6. /\ x \in RawType /\ x.status = status /\ x.stage = p.raws[r].stage
      /\ x.prompt = p.raws[r].prompt /\ x.response = p.raws[r].response
      /\ x.proposal = i
  BY <1>1, <1>3 DEF RawType, RawStatuses
<1>7. /\ w \in PromptType /\ w.stage = p.prompts[k].stage /\ w.rev = p.prompts[k].rev
      /\ w.basis = p.prompts[k].basis /\ w.standing = p.prompts[k].standing
      /\ w.state \notin Preserving
  BY <1>3 DEF PromptType
<1> HIDE DEF r, k, y, x, w
<1>8. /\ Q \in Seq(ProposalType) /\ DOMAIN Q = DOMAIN p.proposals
      /\ Len(Q) = Len(p.proposals)
      /\ Q[i] = y /\ \A j \in DOMAIN p.proposals : j # i => Q[j] = p.proposals[j]
  BY <1>2, <1>5, SeqExcept
<1>9. /\ R \in Seq(RawType) /\ DOMAIN R = DOMAIN p.raws
      /\ R[r] = x /\ \A j \in DOMAIN p.raws : j # r => R[j] = p.raws[j]
  BY <1>1, <1>2, <1>6, SeqExcept
<1>10. /\ P \in Seq(PromptType) /\ DOMAIN P = DOMAIN p.prompts
       /\ P[k] = w /\ \A j \in DOMAIN p.prompts : j # k => P[j] = p.prompts[j]
  BY <1>1, <1>2, <1>7, SeqExcept
<1> HIDE DEF Q, R, P, n
<1>11. n \in Project
  BY <1>0, <1>4, <1>8, <1>9, <1>10 DEF Project
<1>12. /\ n.rev = p.rev /\ n.inputs = p.inputs /\ n.changes = p.changes
       /\ n.prompts = P /\ n.raws = R /\ n.proposals = Q
       /\ n.complete = p.complete /\ n.controls = p.controls /\ n.confirmation = p.confirmation
  BY <1>0, <1>4 DEF Project
<1>13. /\ status \notin Unsettled /\ status # "PENDING_OPERATOR_REVIEW"
       /\ status # "VALIDATED_PENDING_REVIEW"
  BY DecisionsAre DEF Unsettled
<1>14. Follows(p, n)
  <2>1. FollowsInputs(p, n) /\ FollowsChanges(p, n)
    BY <1>12 DEF FollowsInputs, FollowsChanges
  <2>2. FollowsPrompts(p, n)
    BY <1>7, <1>10, <1>12 DEF FollowsPrompts
  <2>3. FollowsRaws(p, n)
    BY <1>1, <1>6, <1>9, <1>12, <1>13 DEF FollowsRaws, Undecided
  <2>4. FollowsProposals(p, n)
    <3> SUFFICES ASSUME NEW j \in DOMAIN p.proposals
                 PROVE  LET q == p.proposals[j].raw
                        IN  /\ j \in DOMAIN n.proposals
                            /\ n.proposals[j].stage = p.proposals[j].stage
                            /\ n.proposals[j].prompt = p.proposals[j].prompt
                            /\ n.proposals[j].raw = q
                            /\ n.raws[q].proposal = p.raws[q].proposal
                            /\ IsPending(n, j) => IsPending(p, j) /\ n.raws[q].status = p.raws[q].status
                            /\ IsAccepted(n, j) => IsAccepted(p, j) \/ Usable(p, p.proposals[j].prompt)
      BY DEF FollowsProposals
    <3>1. CASE j = i
      BY <3>1, <1>1, <1>5, <1>6, <1>8, <1>9, <1>12, <1>13 DEF IsPending, IsAccepted, r, k
    <3>2. CASE j # i
      <4>1. p.proposals[j].raw \in DOMAIN p.raws /\ p.raws[p.proposals[j].raw].proposal = j
        BY <1>0 DEF Shape, ProposalsRefer
      <4>2. p.proposals[j].raw # r
        BY <4>1, <3>2, <1>1
      <4> QED
        BY <3>2, <4>1, <4>2, <1>8, <1>9, <1>12 DEF IsPending, IsAccepted
    <3> QED
      BY <3>1, <3>2
  <2> QED
    BY <2>1, <2>2, <2>3, <2>4 DEF Follows
<1>15. Shape(n)
  <2>1. \A q \in DOMAIN n.raws :
              /\ n.raws[q].proposal <= Len(n.proposals)
              /\ n.raws[q].status = "VALIDATED_PENDING_REVIEW" => n.raws[q].proposal # 0
    <3> SUFFICES ASSUME NEW q \in DOMAIN p.raws
                 PROVE  /\ R[q].proposal <= Len(Q)
                        /\ R[q].status = "VALIDATED_PENDING_REVIEW" => R[q].proposal # 0
      BY <1>9, <1>12
    <3>1. /\ p.raws[q].proposal <= Len(p.proposals)
          /\ p.raws[q].status = "VALIDATED_PENDING_REVIEW" => p.raws[q].proposal # 0
      BY <1>0 DEF Shape, RawsRefer
    <3>2. CASE q = r
      BY <3>1, <3>2, <1>1, <1>6, <1>8, <1>9, <1>13
    <3>3. CASE q # r
      BY <3>1, <3>3, <1>8, <1>9
    <3> QED
      BY <3>2, <3>3
  <2> QED
    BY <1>0, <1>8, <1>9, <1>10, <1>11, <1>12, <1>14, <2>1, FollowsShape
<1>16. Keeps(p, n) /\ \A s : SameAccepted(p, n, s)
  BY <1>10, <1>12, <1>14, <1>15 DEF Keeps, SameAccepted, AcceptedChanges
<1>17. Grows(p, n)
  BY <1>16, KeepsReady
<1> QED
  BY <1>12, <1>17 DEF n

LostOnly(p, n, replaces, s) ==
    \A c \in DOMAIN p.changes :
        p.changes[c].live /\ ~ n.changes[c].live => c \in replaces \/ p.changes[c].stage > s

\* Accepted data ends what it replaces and the work behind its stage, and adds
\* one change that rests on what its instruction was written from.
LEMMA CommittedDataGrows ==
    ASSUME NEW p, Ready(p), NEW i \in DOMAIN p.proposals, KindOf(p, i) = "DATA_PROPOSAL",
           NEW replaces \in SUBSET AcceptedChanges(p, p.proposals[i].stage),
           p.prompts[p.proposals[i].prompt].basis = Basis(p, p.proposals[i].stage)
    PROVE  LET n == CommittedData(p, i, replaces)
           IN  /\ Grows(p, n)
               /\ LostOnly(p, n, replaces, p.proposals[i].stage)
<1> DEFINE s == p.proposals[i].stage
           k == p.proposals[i].prompt
           affected == AcceptanceImpact(p, i, replaces).affected
           m == IF affected # {} THEN InvalidateDownstream(p, s) ELSE p
           C == [c \in DOMAIN m.changes |->
                   IF c \in replaces THEN [m.changes[c] EXCEPT !.live = FALSE] ELSE m.changes[c]]
           new == [stage |-> s, prompt |-> k, live |-> TRUE]
           D == Append(C, new)
           F == IF s = 1 /\ replaces # {} THEN NoConfirmation ELSE m.confirmation
           G == [c \in Controls |->
                   IF c \in {"blocker", "failure"} /\ m.controls[s][c] = "open" THEN "closed"
                   ELSE m.controls[s][c]]
           H == [m.controls EXCEPT ![s] = G]
           n == CommittedData(p, i, replaces)
<1>0. Shape(p) /\ p \in Project /\ RevsWithin(p, p.rev) /\ Rested(p)
  BY DEF Ready, Shape
<1>1. k \in DOMAIN p.prompts /\ p.prompts[k].stage = s /\ s \in Stages
  <2>1. k \in DOMAIN p.prompts /\ p.prompts[k].stage = s
    BY <1>0 DEF Shape, ProposalsRefer, RawsRefer
  <2> QED
    BY <2>1, <1>0, StageOfPrompt
<1>2. affected = AffectedStages(p, s)
  BY DEF AcceptanceImpact
<1> HIDE DEF affected
<1>3. Keeps(p, m) /\ \A t : t \notin Later(s) => SameAccepted(p, m, t)
  <2>1. CASE affected # {}
    BY <2>1, <1>0, InvalidateDownstreamKeeps
  <2>2. CASE affected = {}
    BY <2>2, <1>0, FollowsItself DEF Keeps, SameAccepted
  <2> QED
    BY <2>1, <2>2
<1>4. Unresting(m, Later(s))
  <2>1. CASE affected # {}
    BY <2>1, <1>0, InvalidateDownstreamKeeps
  <2>2. CASE affected = {}
    <3> SUFFICES ASSUME NEW j \in DOMAIN p.prompts, Rests(p, j)
                 PROVE  p.prompts[j].stage \notin Later(s)
      BY <2>2 DEF Unresting
    <3>1. HasWork(p, p.prompts[j].stage)
      BY <1>0, RestsIsWork DEF HasWork
    <3> QED
      BY <2>2, <3>1, <1>2 DEF AffectedStages, Later
  <2> QED
    BY <2>1, <2>2
<1>5. n = [m EXCEPT !.changes = D, !.confirmation = F, !.controls = H]
  <2>1. Shape(m) /\ m \in Project
    BY <1>3 DEF Keeps, Shape
  <2> QED
    BY <2>1 DEF CommittedData, affected, Project
<1>6. Shape(m) /\ m \in Project /\ m.rev = p.rev /\ m.inputs = p.inputs
      /\ DOMAIN m.prompts = DOMAIN p.prompts /\ DOMAIN m.changes = DOMAIN p.changes /\ Follows(p, m)
  BY <1>3 DEF Keeps, Shape
<1> HIDE DEF m
<1>7. \A c \in DOMAIN m.changes :
        /\ C[c] \in ChangeType
        /\ C[c].stage = m.changes[c].stage
        /\ C[c].prompt = m.changes[c].prompt
        /\ C[c].live <=> m.changes[c].live /\ c \notin replaces
  <2> SUFFICES ASSUME NEW c \in DOMAIN m.changes
               PROVE  /\ C[c] \in ChangeType
                      /\ C[c].stage = m.changes[c].stage
                      /\ C[c].prompt = m.changes[c].prompt
                      /\ C[c].live <=> m.changes[c].live /\ c \notin replaces
    OBVIOUS
  <2>1. m.changes[c] \in ChangeType
    BY <1>6 DEF Project
  <2>2. C[c] = IF c \in replaces THEN [m.changes[c] EXCEPT !.live = FALSE] ELSE m.changes[c]
    OBVIOUS
  <2> HIDE DEF C
  <2>3. CASE c \in replaces
    BY <2>1, <2>2, <2>3 DEF ChangeType
  <2>4. CASE c \notin replaces
    BY <2>1, <2>2, <2>4 DEF ChangeType
  <2> QED
    BY <2>3, <2>4
<1>8. C \in Seq(ChangeType) /\ DOMAIN C = DOMAIN m.changes
  <2>1. C \in [DOMAIN m.changes -> ChangeType]
    BY <1>7
  <2>2. m.changes \in Seq(ChangeType)
    BY <1>6 DEF Project
  <2> QED
    BY <2>1, <2>2, IsSeq
<1>9. new \in ChangeType /\ new.stage = s /\ new.prompt = k
  <2>1. k \in Nat
    <3>1. p.prompts \in Seq(PromptType)
      BY <1>0 DEF Project
    <3> QED
      BY <3>1, <1>1
  <2> QED
    BY <2>1, <1>1 DEF ChangeType
<1> DEFINE l == Len(C) + 1
<1> HIDE DEF C, new
<1>10. /\ D \in Seq(ChangeType)
       /\ l \in DOMAIN D /\ l \notin DOMAIN m.changes /\ D[l] = new
       /\ \A c \in DOMAIN D : c \in DOMAIN m.changes \/ c = l
       /\ DOMAIN m.changes \subseteq DOMAIN D
       /\ \A c \in DOMAIN m.changes : D[c] = C[c]
  BY <1>8, <1>9
<1>11. F \in ConfirmationType /\ H \in [Stages -> ControlType]
  <2>1. m.confirmation \in ConfirmationType /\ m.controls \in [Stages -> ControlType]
    BY <1>6 DEF Project
  <2>2. F \in ConfirmationType
    BY <2>1 DEF ConfirmationType, NoConfirmation
  <2>3. m.controls[s] \in ControlType
    BY <2>1, <1>1
  <2>4. G \in ControlType
    BY <2>3 DEF ControlType
  <2> HIDE DEF G
  <2> QED
    BY <2>1, <2>2, <2>4, <1>1
<1> HIDE DEF D, F, H, l, n
<1>12. n \in Project
  BY <1>5, <1>6, <1>10, <1>11 DEF Project
<1>13. /\ n.rev = m.rev /\ n.inputs = m.inputs /\ n.prompts = m.prompts /\ n.raws = m.raws
       /\ n.proposals = m.proposals /\ n.changes = D
  BY <1>5, <1>6 DEF Project
<1>14. Follows(m, n)
  <2>1. FollowsInputs(m, n) /\ FollowsPrompts(m, n) /\ FollowsRaws(m, n)
    BY <1>13 DEF FollowsInputs, FollowsPrompts, FollowsRaws
  <2>2. FollowsProposals(m, n)
    BY <1>13 DEF FollowsProposals, IsPending, IsAccepted
  <2>3. FollowsChanges(m, n)
    BY <1>7, <1>10, <1>13 DEF FollowsChanges
  <2> QED
    BY <2>1, <2>2, <2>3 DEF Follows
<1>15. p.prompts[k].stage = m.prompts[k].stage /\ p.prompts[k].basis = m.prompts[k].basis
  BY <1>1, <1>6 DEF Follows, FollowsPrompts
<1>16. Shape(n)
  <2>1. \A r \in DOMAIN n.raws :
              /\ n.raws[r].proposal <= Len(n.proposals)
              /\ n.raws[r].status = "VALIDATED_PENDING_REVIEW" => n.raws[r].proposal # 0
    BY <1>6, <1>13 DEF Shape, RawsRefer
  <2>2. \A c \in DOMAIN n.changes \ DOMAIN m.changes :
              /\ n.changes[c].prompt \in DOMAIN n.prompts
              /\ n.changes[c].stage = n.prompts[n.changes[c].prompt].stage
    BY <1>1, <1>6, <1>9, <1>10, <1>13, <1>15
  <2> QED
    BY <1>6, <1>12, <1>13, <1>14, <2>1, <2>2, FollowsShape
<1>17. \A c \in replaces : c \in DOMAIN p.changes /\ p.changes[c].stage = s /\ m.changes[c].stage = s
  <2>1. \A c \in replaces : c \in DOMAIN p.changes /\ p.changes[c].stage = s
    BY DEF AcceptedChanges
  <2> QED
    BY <2>1, <1>6 DEF Follows, FollowsChanges
<1>18. \A t : t # s => SameAccepted(m, n, t)
  <2> SUFFICES ASSUME NEW t, t # s
               PROVE  AcceptedChanges(n, t) = AcceptedChanges(m, t)
    BY DEF SameAccepted
  <2>1. \A c \in DOMAIN m.changes : m.changes[c].stage = t => (D[c].live <=> m.changes[c].live)
    BY <1>7, <1>10, <1>17
  <2>2. \A c \in DOMAIN D : D[c].stage = t => c \in DOMAIN m.changes
    BY <1>9, <1>10
  <2> QED
    BY <2>1, <2>2, <1>7, <1>10, <1>13 DEF AcceptedChanges
<1>19. \A t \in 1..(s - 1) : SameAccepted(p, n, t) /\ SameAccepted(m, n, t)
  <2>1. \A t \in 1..(s - 1) : t \notin Later(s) /\ t # s
    BY <1>1 DEF Stages, Later
  <2> QED
    BY <2>1, <1>3, <1>18 DEF SameAccepted
<1>20. RevsWithin(n, n.rev)
  <2>1. RevsWithin(m, p.rev)
    BY <1>0, <1>3, KeepsRevs
  <2> QED
    BY <2>1, <1>6, <1>13 DEF RevsWithin
<1>21. Follows(p, n)
  BY <1>0, <1>6, <1>14, FollowsTransitive
<1>22. CurrentInput(n).intake = CurrentInput(p).intake /\ CurrentInput(n).intake = CurrentInput(m).intake
  BY <1>6, <1>13 DEF CurrentInput
<1>23. Stands(p, k)
  <2>1. /\ p.inputs[Basis(p, s).version].intake = CurrentInput(p).intake
        /\ \A t \in 1..s :
              {c \in Basis(p, s).upstream : p.changes[c].stage = t} = AcceptedChanges(p, t)
    BY <1>0, <1>1, BasisFits
  <2>2. \A t \in 1..(s - 1) : t \in 1..s
    BY <1>1 DEF Stages
  <2> QED
    BY <2>1, <2>2, <1>1 DEF Stands, Upstream
<1>24. Rested(n)
  <2> SUFFICES ASSUME NEW j \in DOMAIN n.prompts, n.prompts[j].stage # 1, Rests(n, j)
               PROVE  Stands(n, j)
    BY DEF Rested
  <2>1. CASE j = k
    BY <2>1, <1>0, <1>1, <1>19, <1>21, <1>22, <1>23, StandsFollows
  <2>2. CASE j # k
    <3>1. j \in DOMAIN m.prompts /\ j \in DOMAIN p.prompts /\ n.prompts[j] = m.prompts[j]
      BY <1>6, <1>13
    <3>2. Rests(m, j)
      <4>1. CASE n.prompts[j].standing = "live"
        BY <3>1, <4>1 DEF Rests
      <4>2. CASE \E c \in DOMAIN n.changes : n.changes[c].live /\ n.changes[c].prompt = j
        <5>1. PICK c \in DOMAIN n.changes : n.changes[c].live /\ n.changes[c].prompt = j
          BY <4>2
        <5>2. c # l
          BY <5>1, <2>2, <1>9, <1>10, <1>13
        <5> QED
          BY <5>1, <5>2, <1>7, <1>10, <1>13 DEF Rests
      <4> QED
        BY <4>1, <4>2 DEF Rests
    <3>3. Rests(p, j)
      BY <1>0, <1>3, <3>1, <3>2, KeepsResting
    <3>4. n.prompts[j].stage = p.prompts[j].stage /\ p.prompts[j].stage \in Stages
      BY <1>0, <1>21, <3>1, StageOfPrompt DEF Follows, FollowsPrompts
    <3>5. Stands(p, j)
      BY <1>0, <3>1, <3>3, <3>4 DEF Rested
    <3>6. p.prompts[j].stage <= s
      BY <3>1, <3>2, <3>4, <1>1, <1>4 DEF Unresting, Later, Stages
    <3>7. \A t \in 1..(p.prompts[j].stage - 1) : t \in 1..(s - 1)
      BY <3>4, <3>6, <1>1 DEF Stages
    <3> QED
      BY <3>1, <3>5, <3>7, <1>0, <1>19, <1>21, <1>22, StandsFollows
  <2> QED
    BY <2>1, <2>2
<1>25. Grows(p, n)
  BY <1>6, <1>13, <1>16, <1>20, <1>21, <1>24 DEF Grows, Ready
<1>26. LostOnly(p, n, replaces, s)
  <2> SUFFICES ASSUME NEW c \in DOMAIN p.changes, p.changes[c].live, ~ n.changes[c].live,
                      c \notin replaces
               PROVE  p.changes[c].stage > s
    BY DEF LostOnly
  <2>1. ~ m.changes[c].live
    BY <1>6, <1>7, <1>10, <1>13
  <2>2. p.changes[c].stage \in Stages
    <3>1. p.changes \in Seq(ChangeType)
      BY <1>0 DEF Project
    <3>2. p.changes[c] \in ChangeType
      BY <3>1
    <3> QED
      BY <3>2 DEF ChangeType
  <2>3. c \in AcceptedChanges(p, p.changes[c].stage) /\ c \notin AcceptedChanges(m, p.changes[c].stage)
    BY <2>1 DEF AcceptedChanges
  <2>4. p.changes[c].stage \in Later(s)
    BY <2>3, <1>3 DEF SameAccepted
  <2> QED
    BY <2>4 DEF Later
<1> QED
  BY <1>25, <1>26 DEF n

\* Ending a stage and those behind it leaves only work that rests.
LEMMA InvalidateStageGrows ==
    ASSUME NEW p, Ready(p), NEW s \in Stages
    PROVE  Grows(p, InvalidateStage(p, s))
<1> DEFINE n == InvalidateStage(p, s)
<1>0. Shape(p) /\ RevsWithin(p, p.rev) /\ Rested(p)
  BY DEF Ready
<1>1. /\ Keeps(p, n)
      /\ Unresting(n, {t \in Stages : t >= s})
      /\ \A t \in 1..(s - 1) : SameAccepted(p, n, t)
  BY <1>0, InvalidateStageKeeps
<1> HIDE DEF n
<1>2. Shape(n) /\ Follows(p, n) /\ n.rev = p.rev /\ n.inputs = p.inputs
      /\ DOMAIN n.prompts = DOMAIN p.prompts
  BY <1>1 DEF Keeps
<1>3. ASSUME NEW i \in DOMAIN n.prompts, n.prompts[i].stage # 1, Rests(n, i)
      PROVE  /\ i \in DOMAIN p.prompts
             /\ Rests(p, i)
             /\ \A t \in 1..(n.prompts[i].stage - 1) : SameAccepted(p, n, t)
             /\ CurrentInput(n).intake = CurrentInput(p).intake
  <2>1. Rests(p, i)
    BY <1>0, <1>1, <1>2, <1>3, KeepsResting
  <2>2. n.prompts[i].stage \in Stages
    BY <1>2, StageOfPrompt
  <2>3. n.prompts[i].stage \notin {t \in Stages : t >= s}
    BY <1>1, <1>3 DEF Unresting
  <2>4. \A t \in 1..(n.prompts[i].stage - 1) : t \in 1..(s - 1)
    BY <2>2, <2>3 DEF Stages
  <2> QED
    BY <1>1, <1>2, <2>1, <2>4 DEF CurrentInput
<1>4. Rested(n)
  BY <1>0, <1>2, <1>3, RestedFollows
<1>5. RevsWithin(n, n.rev)
  BY <1>0, <1>1, <1>2, KeepsRevs
<1> QED
  BY <1>2, <1>4, <1>5 DEF Grows, Ready, n

\* So does ending the attempts of a stage.
LEMMA EndAttemptsGrows ==
    ASSUME NEW p, Ready(p), NEW S
    PROVE  Grows(p, EndAttempts(p, S))
<1>1. Keeps(p, EndAttempts(p, S)) /\ EndAttempts(p, S).changes = p.changes
  BY EndAttemptsKeeps DEF Ready
<1>2. \A s : SameAccepted(p, EndAttempts(p, S), s)
  BY <1>1 DEF SameAccepted, AcceptedChanges
<1> QED
  BY <1>1, <1>2, KeepsReady

(* A proposal that is current answers an instruction that is usable.       *)
LEMMA CurrentIsUsable ==
    ASSUME NEW p, Shape(p), NEW i \in DOMAIN p.proposals, ProposalCurrent(p, i)
    PROVE  /\ IsPending(p, i)
           /\ Usable(p, p.proposals[i].prompt)
           /\ KindOf(p, i) \in ResponseTypes
<1>1. p.raws[p.proposals[i].raw].prompt = p.proposals[i].prompt
  BY DEF Shape, ProposalsRefer
<1> QED
  BY <1>1 DEF ProposalCurrent, ValidEnvelope, IsPending, Usable, KindOf

\* Accepting a proposal, of any kind, grows the project.
LEMMA CommittedGrows ==
    ASSUME NEW p, Ready(p), UsableIsCurrent(p), NEW i \in DOMAIN p.proposals,
           ProposalCurrent(p, i), NEW replaces \in SUBSET AcceptedChanges(p, p.proposals[i].stage)
    PROVE  LET n == Committed(p, i, replaces)
           IN  /\ Grows(p, n)
               /\ KindOf(p, i) = "DATA_PROPOSAL" => LostOnly(p, n, replaces, p.proposals[i].stage)
<1> DEFINE s == p.proposals[i].stage
           kind == KindOf(p, i)
           m == Settled(p, i, Accepted[kind], "ACCEPTED")
           d == IF kind = "DATA_PROPOSAL" THEN CommittedData(m, i, replaces)
                ELSE SetControl(m, s, ControlOf[kind], "open")
           n == Committed(p, i, replaces)
<1>0. Shape(p)
  BY DEF Ready
<1>1. /\ IsPending(p, i) /\ Usable(p, p.proposals[i].prompt) /\ kind \in ResponseTypes
  BY <1>0, CurrentIsUsable
<1>2. Accepted[kind] \in Decisions
  BY <1>1 DEF Decisions, AcceptedStatuses
<1>3. "ACCEPTED" \in Reservations \ Preserving
  BY DEF Reservations, Preserving
<1>4. /\ Grows(p, m) /\ m.changes = p.changes /\ m.inputs = p.inputs
  BY <1>1, <1>2, <1>3, SettledGrows
<1>5. n = Recalculated(d)
  BY DEF Committed
<1>6. p.proposals[i].prompt \in DOMAIN p.prompts /\ p.proposals[i].raw \in DOMAIN p.raws
      /\ p.prompts[p.proposals[i].prompt].stage = s
  BY <1>0 DEF Shape, ProposalsRefer, RawsRefer
<1>7. s \in Stages
  BY <1>0, <1>6, StageOfPrompt
<1> HIDE DEF m
<1>8. /\ i \in DOMAIN m.proposals /\ m.proposals[i].stage = s
      /\ m.proposals[i].prompt = p.proposals[i].prompt
      /\ m.proposals[i].raw = p.proposals[i].raw
  BY <1>4 DEF Grows, Follows, FollowsProposals
<1>9. KindOf(m, i) = kind
  BY <1>4, <1>6, <1>8 DEF Grows, Follows, FollowsRaws, KindOf
<1>10. \A t : AcceptedChanges(m, t) = AcceptedChanges(p, t) /\ SameAccepted(p, m, t)
  BY <1>4 DEF AcceptedChanges, SameAccepted
<1>11. m.prompts[m.proposals[i].prompt].basis = Basis(m, s)
  <2>1. Basis(m, s) = Basis(p, s)
    BY <1>4, <1>10, BasisFollows
  <2>2. p.prompts[p.proposals[i].prompt].basis = Basis(p, s)
    BY <1>1, <1>6 DEF UsableIsCurrent
  <2>3. m.prompts[p.proposals[i].prompt].basis = p.prompts[p.proposals[i].prompt].basis
    BY <1>4, <1>6 DEF Grows, Follows, FollowsPrompts
  <2> QED
    BY <1>8, <2>1, <2>2, <2>3
<1>12. Ready(m)
  BY <1>4 DEF Grows
<1>13. Grows(m, d) /\ (kind = "DATA_PROPOSAL" => LostOnly(m, d, replaces, s))
  <2>1. CASE kind = "DATA_PROPOSAL"
    BY <2>1, <1>8, <1>9, <1>10, <1>11, <1>12, CommittedDataGrows
  <2>2. CASE kind # "DATA_PROPOSAL"
    <3>1. ControlOf[kind] \in Controls
      BY <1>1, <2>2 DEF ControlOf, Controls, ResponseTypes
    <3> QED
      BY <2>2, <3>1, <1>7, <1>12, SetControlGrows
  <2> QED
    BY <2>1, <2>2
<1> HIDE DEF d, n
<1>14. Ready(d)
  BY <1>13 DEF Grows
<1>15. Grows(d, n)
  BY <1>5, <1>14, RecalculatedGrows
<1>16. Grows(p, n)
  BY <1>4, <1>12, <1>13, <1>15, GrowsTransitive
<1>17. n.changes = d.changes
  BY <1>5, <1>14 DEF Ready, Shape, Project, Recalculated
<1>18. kind = "DATA_PROPOSAL" => LostOnly(p, n, replaces, s)
  BY <1>4, <1>13, <1>17 DEF LostOnly
<1> QED
  BY <1>16, <1>18 DEF n

(* A change of records that no derivation reads.                           *)
LEMMA OperationalStored ==
    ASSUME NEW p, NEW n, Stored(p), Shape(n), Follows(p, n), n.rev = p.rev, n.inputs = p.inputs,
           n.changes = p.changes, n.complete = p.complete, n.controls = p.controls,
           n.confirmation = p.confirmation, DOMAIN n.prompts = DOMAIN p.prompts
    PROVE  Stored(n)
<1>0. Shape(p) /\ RevsWithin(p, p.rev) /\ Rested(p) /\ UsableIsCurrent(p) /\ Derived(p)
      /\ p.rev \in 1..MaxRevision
  BY DEF Stored
<1>1. Keeps(p, n) /\ \A s : SameAccepted(p, n, s)
  BY DEF Keeps, SameAccepted, AcceptedChanges
<1>2. Grows(p, n)
  BY <1>0, <1>1, KeepsReady DEF Ready
<1>3. UsableIsCurrent(n)
  <2> SUFFICES ASSUME NEW i \in DOMAIN n.prompts, Usable(n, i)
               PROVE  n.prompts[i].basis = Basis(n, n.prompts[i].stage)
    BY DEF UsableIsCurrent
  <2>1. i \in DOMAIN p.prompts /\ Usable(p, i)
    BY FollowsUsable DEF Follows
  <2>2. p.prompts[i].basis = Basis(p, p.prompts[i].stage)
    BY <2>1, <1>0 DEF UsableIsCurrent
  <2>3. \A s : Basis(n, s) = Basis(p, s)
    BY <1>1, BasisFollows
  <2> QED
    BY <2>1, <2>2, <2>3 DEF Follows, FollowsPrompts
<1>4. Derived(n)
  <2>1. \A t : GatePasses(p, t) => GatePasses(n, t)
    BY DEF GatePasses, Open, AcceptedChanges, Confirmed, InputVersion
  <2> QED
    BY <2>1, <1>0 DEF Derived
<1> QED
  BY <1>0, <1>2, <1>3, <1>4 DEF Stored, Grows, Ready

(* A response that was not settled is settled, or judged again.            *)
Answers(p, r, x, Q) ==
    /\ x \in RawType
    /\ x.stage = p.raws[r].stage /\ x.prompt = p.raws[r].prompt
    /\ x.response = p.raws[r].response
    /\ x.proposal <= Len(Q)
    /\ x.status = "VALIDATED_PENDING_REVIEW" => x.proposal # 0
Extends(p, r, x, Q) ==
    /\ Q \in Seq(ProposalType)
    /\ Len(p.proposals) <= Len(Q)
    /\ \A j \in DOMAIN p.proposals : j \in DOMAIN Q /\ Q[j] = p.proposals[j]
    /\ \A j \in DOMAIN Q \ DOMAIN p.proposals :
          /\ Q[j].raw = r /\ Q[j].prompt = x.prompt /\ Q[j].stage = x.stage
          /\ x.proposal = j /\ x.status = "VALIDATED_PENDING_REVIEW"
Revises(p, P) ==
    /\ P \in Seq(PromptType)
    /\ DOMAIN P = DOMAIN p.prompts
    /\ \A i \in DOMAIN p.prompts :
         /\ P[i].stage = p.prompts[i].stage
         /\ P[i].rev = p.prompts[i].rev
         /\ P[i].basis = p.prompts[i].basis
         /\ P[i].standing = "live" => p.prompts[i].standing = "live"
         /\ P[i].state \in Preserving => p.prompts[i].state \in Preserving
SameBesides(p, n) ==
    /\ n.rev = p.rev /\ n.inputs = p.inputs /\ n.changes = p.changes
    /\ n.complete = p.complete /\ n.controls = p.controls /\ n.confirmation = p.confirmation

\* An operational save that leaves instructions' bases, accepted work, input and
\* derived stages alone stores a project as good as the one before.
LEMMA RevisedStored ==
    ASSUME NEW p, NEW n, Stored(p), NEW r \in DOMAIN p.raws, p.raws[r].status \in Unsettled,
           NEW x, NEW Q, NEW P, Answers(p, r, x, Q), Extends(p, r, x, Q), Revises(p, P),
           n \in Project, SameBesides(p, n),
           n.raws = [p.raws EXCEPT ![r] = x], n.proposals = Q, n.prompts = P
    PROVE  Stored(n) /\ Follows(p, n)
<1>0. Shape(p) /\ p \in Project
  BY DEF Stored, Shape
<1>1. p.raws \in Seq(RawType) /\ x \in RawType
  BY <1>0 DEF Project, Answers
<1>2. /\ DOMAIN n.raws = DOMAIN p.raws /\ n.raws[r] = x
      /\ \A q \in DOMAIN p.raws : q # r => n.raws[q] = p.raws[q]
  BY <1>1, SeqExcept
<1>3. /\ x.stage = p.raws[r].stage /\ x.prompt = p.raws[r].prompt
      /\ x.response = p.raws[r].response
      /\ x.proposal <= Len(Q) /\ (x.status = "VALIDATED_PENDING_REVIEW" => x.proposal # 0)
  BY DEF Answers
<1>4. /\ Len(p.proposals) <= Len(Q)
      /\ \A j \in DOMAIN p.proposals : j \in DOMAIN Q /\ Q[j] = p.proposals[j]
      /\ \A j \in DOMAIN Q \ DOMAIN p.proposals :
          /\ Q[j].raw = r /\ Q[j].prompt = x.prompt /\ Q[j].stage = x.stage
          /\ x.proposal = j /\ x.status = "VALIDATED_PENDING_REVIEW"
  BY DEF Extends
<1>5. \A j \in DOMAIN p.proposals :
        /\ p.proposals[j].raw \in DOMAIN p.raws /\ p.proposals[j].raw # r
  BY <1>0 DEF Shape, ProposalsRefer
<1>6. Follows(p, n)
  <2>1. FollowsInputs(p, n) /\ FollowsChanges(p, n)
    BY DEF SameBesides, FollowsInputs, FollowsChanges
  <2>2. FollowsPrompts(p, n)
    BY DEF Revises, FollowsPrompts
  <2>3. FollowsRaws(p, n)
    BY <1>2, <1>3 DEF FollowsRaws, Undecided, Unsettled
  <2>4. FollowsProposals(p, n)
    BY <1>2, <1>4, <1>5 DEF FollowsProposals, IsPending, IsAccepted
  <2> QED
    BY <2>1, <2>2, <2>3, <2>4 DEF Follows
<1>7. Shape(n)
  <2>1. \A q \in DOMAIN n.raws :
              /\ n.raws[q].proposal <= Len(n.proposals)
              /\ n.raws[q].status = "VALIDATED_PENDING_REVIEW" => n.raws[q].proposal # 0
    <3> SUFFICES ASSUME NEW q \in DOMAIN p.raws
                 PROVE  /\ n.raws[q].proposal <= Len(n.proposals)
                        /\ n.raws[q].status = "VALIDATED_PENDING_REVIEW" => n.raws[q].proposal # 0
      BY <1>2
    <3>1. CASE q = r
      BY <3>1, <1>2, <1>3
    <3>2. CASE q # r
      <4>1. n.raws[q] = p.raws[q]
        BY <3>2, <1>2
      <4>2. /\ p.raws[q].proposal <= Len(p.proposals)
            /\ p.raws[q].status = "VALIDATED_PENDING_REVIEW" => p.raws[q].proposal # 0
        BY <1>0 DEF Shape, RawsRefer
      <4>3. p.raws[q].proposal \in Nat
        <5>1. p.raws[q] \in RawType
          BY <1>1
        <5> QED
          BY <5>1 DEF RawType
      <4>4. Len(p.proposals) \in Nat /\ Len(Q) \in Nat
        <5>1. p.proposals \in Seq(ProposalType) /\ Q \in Seq(ProposalType)
          BY <1>0 DEF Project, Extends
        <5> QED
          BY <5>1
      <4>5. p.raws[q].proposal <= Len(Q)
        BY <4>2, <4>3, <4>4, <1>4
      <4> QED
        BY <4>1, <4>2, <4>5
    <3> QED
      BY <3>1, <3>2
  <2>2. \A j \in DOMAIN n.proposals \ DOMAIN p.proposals :
              LET q == n.proposals[j].raw
              IN  /\ q \in DOMAIN n.raws
                  /\ n.raws[q].proposal = j
                  /\ n.raws[q].prompt = n.proposals[j].prompt
                  /\ n.raws[q].stage = n.proposals[j].stage
                  /\ n.raws[q].status = "VALIDATED_PENDING_REVIEW"
    BY <1>2, <1>4
  <2>3. DOMAIN n.prompts = DOMAIN p.prompts /\ DOMAIN n.changes = DOMAIN p.changes
    BY DEF Revises, SameBesides
  <2> QED
    BY <1>0, <1>2, <1>6, <2>1, <2>2, <2>3, FollowsShape
<1>8. DOMAIN n.prompts = DOMAIN p.prompts
  BY DEF Revises
<1> QED
  BY <1>6, <1>7, <1>8, OperationalStored DEF SameBesides

\* A repetition that is put aside.
LEMMA RepeatedStored ==
    ASSUME NEW p, Stored(p), NEW r \in DOMAIN p.raws, p.raws[r].status \in Unsettled,
           Others(p, r) # {}
    PROVE  Stored(Repeated(p, r)) /\ Follows(p, Repeated(p, r)) /\ SameBesides(p, Repeated(p, r))
<1> DEFINE prior == Min(Others(p, r))
           x == [p.raws[r] EXCEPT !.checked = TRUE, !.status = "DUPLICATE_RESPONSE",
                                  !.proposal = p.raws[prior].proposal]
           R == [p.raws EXCEPT ![r] = x]
           n == Repeated(p, r)
<1>0. Shape(p) /\ p \in Project
  BY DEF Stored, Shape
<1>1. p.raws \in Seq(RawType) /\ p.raws[r] \in RawType
  <2>1. p.raws \in Seq(RawType)
    BY <1>0 DEF Project
  <2> QED
    BY <2>1
<1>2. prior \in DOMAIN p.raws
  <2>1. Others(p, r) \in SUBSET (1..Len(p.raws)) /\ Len(p.raws) \in Nat
    BY <1>1 DEF Others
  <2>2. prior \in Others(p, r)
    BY <2>1, MinExists
  <2> QED
    BY <2>2 DEF Others
<1>3. p.raws[prior] \in RawType /\ p.raws[prior].proposal <= Len(p.proposals)
  <2>1. p.raws[prior] \in RawType
    BY <1>1, <1>2
  <2>2. p.raws[prior].proposal <= Len(p.proposals)
    BY <1>0, <1>2 DEF Shape, RawsRefer
  <2> QED
    BY <2>1, <2>2
<1>4. n = [p EXCEPT !.raws = R]
  BY <1>0, <1>1 DEF Repeated, Project, RawType
<1> HIDE DEF prior
<1>5. /\ x \in RawType /\ x.status = "DUPLICATE_RESPONSE"
      /\ x.stage = p.raws[r].stage /\ x.prompt = p.raws[r].prompt
      /\ x.response = p.raws[r].response
      /\ x.proposal = p.raws[prior].proposal
  BY <1>1, <1>3 DEF RawType, RawStatuses
<1> HIDE DEF x
<1>6. R \in Seq(RawType)
  BY <1>1, <1>5, SeqExcept
<1> HIDE DEF R, n
<1>7. n \in Project
  BY <1>0, <1>4, <1>6 DEF Project
<1>8. SameBesides(p, n) /\ n.prompts = p.prompts /\ n.proposals = p.proposals /\ n.raws = R
  BY <1>0, <1>4 DEF Project, SameBesides
<1>9. Answers(p, r, x, p.proposals)
  BY <1>3, <1>5 DEF Answers
<1>10. Extends(p, r, x, p.proposals)
  <2>1. p.proposals \in Seq(ProposalType)
    BY <1>0 DEF Project
  <2>2. Len(p.proposals) \in Nat
    BY <2>1
  <2> QED
    BY <2>1, <2>2 DEF Extends
<1>11. Revises(p, p.prompts)
  BY <1>0 DEF Revises, Project
<1> QED
  BY <1>7, <1>8, <1>9, <1>10, <1>11, RevisedStored DEF R, n

\* A reservation that takes another state.
LEMMA ReservationRevises ==
    ASSUME NEW p, Shape(p), NEW k \in DOMAIN p.prompts, NEW state \in Reservations
    PROVE  LET w == [p.prompts[k] EXCEPT !.state = IF @ \in Preserving THEN state ELSE @]
           IN  Revises(p, [p.prompts EXCEPT ![k] = w])
<1> DEFINE w == [p.prompts[k] EXCEPT !.state = IF @ \in Preserving THEN state ELSE @]
           P == [p.prompts EXCEPT ![k] = w]
<1>1. p.prompts \in Seq(PromptType)
  BY DEF Shape, Project
<1>2. p.prompts[k] \in PromptType
  BY <1>1
<1>3. /\ w \in PromptType /\ w.stage = p.prompts[k].stage /\ w.rev = p.prompts[k].rev
      /\ w.basis = p.prompts[k].basis /\ w.standing = p.prompts[k].standing
      /\ w.state \in Preserving => p.prompts[k].state \in Preserving
  BY <1>2 DEF PromptType
<1> HIDE DEF w
<1>4. /\ P \in Seq(PromptType) /\ DOMAIN P = DOMAIN p.prompts
      /\ P[k] = w /\ \A j \in DOMAIN p.prompts : j # k => P[j] = p.prompts[j]
  BY <1>1, <1>3, SeqExcept
<1> HIDE DEF P
<1>5. Revises(p, P)
  BY <1>3, <1>4 DEF Revises
<1> QED
  BY <1>5 DEF P, w

\* A response that is validated, staged as a proposal or refused.
LEMMA JudgedStored ==
    ASSUME NEW p, Stored(p), NEW r \in DOMAIN p.raws, p.raws[r].status \in Unsettled
    PROVE  Stored(Judged(p, r)) /\ Follows(p, Judged(p, r)) /\ SameBesides(p, Judged(p, r))
<1> DEFINE raw == p.raws[r]
           k == raw.prompt
           valid == ValidEnvelope(p, r)
           x == [raw EXCEPT
                   !.checked = @ \/ raw.response.kind # "MALFORMED",
                   !.validated = TRUE,
                   !.status = IF valid THEN "VALIDATED_PENDING_REVIEW" ELSE "VALIDATION_FAILED",
                   !.proposal = IF valid THEN Len(p.proposals) + 1 ELSE @]
           y == [stage |-> raw.stage, prompt |-> raw.prompt, raw |-> r,
                 rev |-> p.rev, status |-> "PENDING_OPERATOR_REVIEW"]
           R == [p.raws EXCEPT ![r] = x]
           Q == IF valid THEN Append(p.proposals, y) ELSE p.proposals
           state == IF valid THEN "RESPONSE_STAGED" ELSE "REJECTED"
           w == [p.prompts[k] EXCEPT !.state = IF @ \in Preserving THEN state ELSE @]
           P == [p.prompts EXCEPT ![k] = w]
           n == Judged(p, r)
<1>0. Shape(p) /\ p \in Project
  BY DEF Stored, Shape
<1>1. /\ p.raws \in Seq(RawType) /\ raw \in RawType /\ r \in Nat /\ k \in DOMAIN p.prompts
      /\ p.proposals \in Seq(ProposalType) /\ Len(p.proposals) \in Nat
  <2>1. p.raws \in Seq(RawType) /\ p.proposals \in Seq(ProposalType)
    BY <1>0 DEF Project
  <2>2. k \in DOMAIN p.prompts
    BY <1>0 DEF Shape, RawsRefer
  <2> QED
    BY <2>1, <2>2
<1>2. n = [p EXCEPT !.raws = R, !.proposals = Q, !.prompts = P]
  <2> DEFINE next ==
        [p EXCEPT
            !.raws[r] = x,
            !.proposals = IF valid
                THEN Append(@, [stage |-> raw.stage, prompt |-> raw.prompt, raw |-> r,
                                rev |-> p.rev, status |-> "PENDING_OPERATOR_REVIEW"])
                ELSE @]
             next1 == [p EXCEPT !.raws = R, !.proposals = Q]
  <2>1. n = Finished(next, k, state)
    BY Zenon DEF Judged
  <2>2. next = next1
    <3> HIDE DEF valid, x
    <3> QED
      BY <1>0 DEF Project
  <2> HIDE DEF next, n
  <2>3. n = Finished(next1, k, state)
    BY <2>1, <2>2
  <2>4. next1.prompts = p.prompts
    BY <1>0 DEF Project
  <2> HIDE DEF next1, state
  <2>5. n = [next1 EXCEPT !.prompts = P]
    BY <2>3, <2>4 DEF Finished
  <2> HIDE DEF P
  <2> QED
    BY <2>5, <1>0 DEF next1, Project
<1> HIDE DEF valid
<1>3. /\ x \in RawType
      /\ x.stage = raw.stage /\ x.prompt = raw.prompt /\ x.response = raw.response
      /\ x.status = IF valid THEN "VALIDATED_PENDING_REVIEW" ELSE "VALIDATION_FAILED"
      /\ x.proposal = IF valid THEN Len(p.proposals) + 1 ELSE raw.proposal
  <2>1. /\ x.stage = raw.stage /\ x.prompt = raw.prompt /\ x.response = raw.response
        /\ x.status = IF valid THEN "VALIDATED_PENDING_REVIEW" ELSE "VALIDATION_FAILED"
        /\ x.proposal = IF valid THEN Len(p.proposals) + 1 ELSE raw.proposal
    BY <1>1 DEF RawType
  <2>2. x \in RawType
    <3>1. (IF valid THEN Len(p.proposals) + 1 ELSE raw.proposal) \in Nat
      BY <1>1 DEF RawType
    <3>2. (IF valid THEN "VALIDATED_PENDING_REVIEW" ELSE "VALIDATION_FAILED") \in RawStatuses
      BY DEF RawStatuses, Undecided
    <3> QED
      BY <1>1, <3>1, <3>2 DEF RawType
  <2> QED
    BY <2>1, <2>2
<1>4. y \in ProposalType
  BY <1>0, <1>1 DEF Project, RawType, ProposalType, ProposalStatuses
<1>5. Revises(p, P)
  <2>1. state \in Reservations
    BY DEF Reservations, Preserving
  <2> HIDE DEF state
  <2> QED
    BY <1>0, <1>1, <2>1, ReservationRevises
<1>6. R \in Seq(RawType)
  BY <1>1, <1>3, SeqExcept
<1>7. raw.proposal <= Len(p.proposals)
  BY <1>0 DEF Shape, RawsRefer
<1> HIDE DEF raw, x, P
<1>8. Answers(p, r, x, Q) /\ Extends(p, r, x, Q)
  <2>1. CASE valid
    <3>1. /\ Q \in Seq(ProposalType) /\ Len(Q) = Len(p.proposals) + 1
          /\ \A j \in DOMAIN p.proposals : j \in DOMAIN Q /\ Q[j] = p.proposals[j]
          /\ \A j \in DOMAIN Q \ DOMAIN p.proposals : j = Len(p.proposals) + 1 /\ Q[j] = y
      BY <2>1, <1>1, <1>4
    <3> HIDE DEF Q
    <3>2. Answers(p, r, x, Q)
      BY <2>1, <3>1, <1>1, <1>3 DEF Answers, raw
    <3>3. Extends(p, r, x, Q)
      BY <2>1, <3>1, <1>1, <1>3 DEF Extends
    <3> QED
      BY <3>2, <3>3
  <2>2. CASE ~ valid
    <3>1. Q = p.proposals
      BY <2>2
    <3> HIDE DEF Q
    <3>2. Answers(p, r, x, Q)
      BY <2>2, <3>1, <1>3, <1>7 DEF Answers, raw
    <3>3. Extends(p, r, x, Q)
      BY <3>1, <1>1 DEF Extends
    <3> QED
      BY <3>2, <3>3
  <2> QED
    BY <2>1, <2>2
<1>9. Q \in Seq(ProposalType) /\ P \in Seq(PromptType)
  BY <1>5, <1>8 DEF Extends, Revises
<1> HIDE DEF R, Q, n
<1>10. n \in Project
  BY <1>0, <1>2, <1>6, <1>9 DEF Project
<1>11. SameBesides(p, n) /\ n.prompts = P /\ n.proposals = Q /\ n.raws = R
  BY <1>0, <1>2 DEF Project, SameBesides
<1> QED
  BY <1>5, <1>8, <1>10, <1>11, RevisedStored DEF R, n

\* Preparing a response does one of the two.
LEMMA PreparedStored ==
    ASSUME NEW p, Stored(p), NEW r \in DOMAIN p.raws, p.raws[r].status \in Unsettled
    PROVE  Stored(Prepared(p, r)) /\ Follows(p, Prepared(p, r)) /\ SameBesides(p, Prepared(p, r))
BY RepeatedStored, JudgedStored DEF Prepared

\* A file that is captured.
LEMMA CapturedStored ==
    ASSUME NEW p, Stored(p), NEW i \in DOMAIN p.prompts, NEW response \in ResponseType
    PROVE  LET n == Captured(p, p.prompts[i].stage, i, response)
           IN  Stored(n) /\ Follows(p, n) /\ SameBesides(p, n)
<1> DEFINE s == p.prompts[i].stage
           x == [stage |-> s, prompt |-> i, response |-> response, status |-> "PRESERVED",
                 proposal |-> 0, checked |-> FALSE, validated |-> FALSE]
           R == Append(p.raws, x)
           l == Len(p.raws) + 1
           n == Captured(p, s, i, response)
<1>0. Shape(p) /\ p \in Project
  BY DEF Stored, Shape
<1>1. /\ p.raws \in Seq(RawType) /\ p.prompts \in Seq(PromptType)
      /\ p.proposals \in Seq(ProposalType)
  BY <1>0 DEF Project
<1>2. x \in RawType
  <2>1. s \in Stages
    BY <1>0, StageOfPrompt
  <2>2. i \in Nat
    BY <1>1
  <2> HIDE DEF s
  <2> QED
    BY <2>1, <2>2 DEF RawType, RawStatuses, Undecided
<1>3. n = [p EXCEPT !.raws = R]
  BY <1>0 DEF Captured, Project
<1>4. x.stage = s /\ x.prompt = i /\ x.proposal = 0 /\ x.status = "PRESERVED"
  OBVIOUS
<1> HIDE DEF x
<1>5. /\ R \in Seq(RawType)
      /\ DOMAIN p.raws \subseteq DOMAIN R /\ \A r \in DOMAIN p.raws : R[r] = p.raws[r]
      /\ \A r \in DOMAIN R \ DOMAIN p.raws : R[r] = x
  BY <1>1, <1>2
<1> HIDE DEF R, n
<1>6. n \in Project
  BY <1>0, <1>3, <1>5 DEF Project
<1>7. SameBesides(p, n) /\ n.prompts = p.prompts /\ n.proposals = p.proposals /\ n.raws = R
  BY <1>0, <1>3 DEF Project, SameBesides
<1>8. Follows(p, n)
  <2>1. FollowsInputs(p, n) /\ FollowsChanges(p, n) /\ FollowsPrompts(p, n)
    BY <1>7 DEF SameBesides, FollowsInputs, FollowsChanges, FollowsPrompts
  <2>2. FollowsRaws(p, n)
    BY <1>5, <1>7 DEF FollowsRaws
  <2>3. FollowsProposals(p, n)
    BY <1>0, <1>5, <1>7 DEF FollowsProposals, IsPending, IsAccepted, Shape, ProposalsRefer
  <2> QED
    BY <2>1, <2>2, <2>3 DEF Follows
<1>9. Shape(n)
  <2>1. \A r \in DOMAIN n.raws :
              /\ n.raws[r].proposal <= Len(n.proposals)
              /\ n.raws[r].status = "VALIDATED_PENDING_REVIEW" => n.raws[r].proposal # 0
    <3>1. Len(p.proposals) \in Nat
      BY <1>1
    <3> QED
      BY <3>1, <1>0, <1>4, <1>5, <1>7 DEF Shape, RawsRefer
  <2>2. \A r \in DOMAIN n.raws \ DOMAIN p.raws :
              /\ n.raws[r].prompt \in DOMAIN n.prompts
              /\ n.raws[r].stage = n.prompts[n.raws[r].prompt].stage
    BY <1>4, <1>5, <1>7
  <2>3. DOMAIN n.changes = DOMAIN p.changes
    BY <1>7 DEF SameBesides
  <2> QED
    BY <1>0, <1>6, <1>7, <1>8, <2>1, <2>2, <2>3, FollowsShape
<1> QED
  BY <1>7, <1>8, <1>9, OperationalStored DEF SameBesides, n

\* An instruction that is exported.
LEMMA ExportedStored ==
    ASSUME NEW p, Stored(p), NEW i \in DOMAIN p.prompts, p.prompts[i].state = "RESERVED"
    PROVE  LET n == [p EXCEPT !.prompts[i].state = "EXPORTED"]
           IN  Stored(n) /\ Follows(p, n) /\ SameBesides(p, n)
<1> DEFINE w == [p.prompts[i] EXCEPT !.state = IF @ \in Preserving THEN "EXPORTED" ELSE @]
           P == [p.prompts EXCEPT ![i] = w]
           n == [p EXCEPT !.prompts[i].state = "EXPORTED"]
<1>0. Shape(p) /\ p \in Project
  BY DEF Stored, Shape
<1>1. "EXPORTED" \in Reservations /\ "RESERVED" \in Preserving
  BY DEF Reservations, Preserving
<1>2. Revises(p, P)
  BY <1>0, <1>1, ReservationRevises
<1>3. n = [p EXCEPT !.prompts = P]
  BY <1>0, <1>1 DEF Project
<1> HIDE DEF P
<1>4. /\ Keeps(p, [p EXCEPT !.prompts = P])
      /\ [p EXCEPT !.prompts = P].changes = p.changes
  BY <1>0, <1>2, PromptsKeep DEF Revises
<1>5. SameBesides(p, n)
  BY <1>0, <1>3 DEF SameBesides, Project
<1> HIDE DEF n
<1>6. Stored(n)
  BY <1>3, <1>4, <1>5, OperationalStored DEF Keeps, SameBesides
<1> QED
  BY <1>3, <1>4, <1>5, <1>6 DEF Keeps, n

\* A proposal that is rejected or abandoned.
LEMMA DismissedStored ==
    ASSUME NEW p, Stored(p), NEW i \in DOMAIN p.proposals, IsPending(p, i),
           NEW dismissal \in Dismissals
    PROVE  LET n == Settled(p, i, dismissal.status, dismissal.reservation)
           IN  Stored(n) /\ Follows(p, n) /\ SameBesides(p, n)
<1> DEFINE n == Settled(p, i, dismissal.status, dismissal.reservation)
<1>1. /\ dismissal.status \in Decisions /\ dismissal.status \notin AcceptedStatuses
      /\ dismissal.reservation \in Reservations \ Preserving
  BY DecisionsAre, AcceptedStatusesAre DEF Dismissals, Reservations, Preserving
<1>2. Ready(p)
  BY DEF Stored, Ready
<1>3. /\ Grows(p, n)
      /\ n.changes = p.changes /\ n.inputs = p.inputs /\ n.complete = p.complete
      /\ n.controls = p.controls /\ n.confirmation = p.confirmation
  BY <1>1, <1>2, SettledGrows
<1>4. Shape(n) /\ Follows(p, n) /\ SameBesides(p, n)
  BY <1>3 DEF Grows, Ready, SameBesides
<1>5. DOMAIN n.prompts = DOMAIN p.prompts
  BY <1>2 DEF Settled, Finished, Ready, Shape, Project
<1> HIDE DEF n
<1> QED
  BY <1>4, <1>5, OperationalStored DEF SameBesides, n

-----------------------------------------------------------------------------
(* Steps.                                                                  *)
Lossless(p, n) == LostChanges(p, n) = {} /\ LostStages(p, n) = {}
ShownLoss ==
    /\ review.open
    /\ ~ review'.open
    /\ LostChanges(project, project') \subseteq review.changes
    /\ \A s \in LostStages(project, project') :
          s > Own(project, review.proposal) => s \in review.stages
Advance == Follows(project, project') /\ (Lossless(project, project') \/ ShownLoss)

\* The same accepted work and stages: nothing is lost.
LEMMA NothingLostBySame ==
    ASSUME NEW p, NEW n, n.changes = p.changes, n.complete = p.complete
    PROVE  Lossless(p, n)
BY DEF Lossless, LostChanges, LostStages

\* What is stored obeys each rule.
LEMMA StoredIsReady ==
    ASSUME NEW p, Stored(p)
    PROVE  /\ Ready(p) /\ Shape(p) /\ p \in Project /\ p.rev \in Nat /\ Grows(p, p)
           /\ UsableIsCurrent(p) /\ Derived(p)
<1>1. Ready(p) /\ Shape(p) /\ p \in Project /\ UsableIsCurrent(p) /\ Derived(p)
  BY DEF Stored, Ready, Shape
<1>2. p.rev \in Nat
  BY <1>1 DEF Project
<1> QED
  BY <1>1, <1>2, FollowsItself DEF Grows

\* An operational save keeps IInv: a review that is open is of an earlier state.
LEMMA OperationalKeeps ==
    ASSUME IInv, NEW n, Operational(n), Stored(n), Follows(project, n), SameBesides(project, n)
    PROVE  IInv' /\ Advance
<1>1. project' = n /\ review' = review /\ kept' = kept
  BY DEF Operational
<1>2. Stored(project')
  BY <1>1
<1>3. Reviewed'
  BY <1>1 DEF Reviewed, IInv, SameBesides
<1>4. Stored(kept')
  BY <1>1 DEF IInv
<1>5. Advance
  BY <1>1, NothingLostBySame DEF Advance, SameBesides
<1> QED
  BY <1>2, <1>3, <1>4, <1>5 DEF IInv

\* A canonical save of a candidate keeps IInv: deriving the stages and expiring
\* the reservations of other revisions makes it a stored project.
LEMMA CanonicalKeeps ==
    ASSUME IInv, NEW n, Candidate(project, n), Canonical(Saved(n))
    PROVE  IInv' /\ Follows(project, project') /\ project' = Saved(n) /\ ~ review'.open
<1>1. /\ project' = Saved(n) /\ Saved(n).rev <= MaxRevision
      /\ kept' \in {kept, project} /\ review' = NoReview
  BY DEF Canonical
<1>2. Stored(project) /\ Stored(kept)
  BY DEF IInv
<1>3. n.rev \in Nat /\ Shape(project)
  BY <1>2, StoredIsReady DEF Candidate
<1>4. Stored(Saved(n)) /\ Follows(project, Saved(n))
  BY <1>1, <1>3, SavedStored
<1>5. ~ review'.open
  BY <1>1 DEF NoReview
<1>6. Reviewed'
  BY <1>5 DEF Reviewed
<1>7. Stored(project') /\ Stored(kept')
  BY <1>1, <1>2, <1>4
<1> QED
  BY <1>1, <1>4, <1>5, <1>6, <1>7 DEF IInv

\* A review that opens holds a candidate and lists what it ends.
LEMMA ShowKeeps ==
    ASSUME IInv, NEW n, NEW proposal, NEW changes, NEW stages,
           Candidate(project, n), Listed(project, n, proposal, changes, stages),
           Show(n, proposal, changes, stages)
    PROVE  IInv' /\ Advance
<1>1. /\ review' = [open |-> TRUE, base |-> project, next |-> n, proposal |-> proposal,
                    changes |-> changes, stages |-> stages]
      /\ project' = project /\ kept' = kept
  BY DEF Show
<1>2. /\ review'.base = project /\ review'.next = n /\ review'.proposal = proposal
      /\ review'.changes = changes /\ review'.stages = stages
  BY <1>1
<1>3. Stored(project) /\ Stored(kept)
  BY DEF IInv
<1>4. project.rev \in Nat
  BY <1>3, StoredIsReady
<1>5. Reviewed'
  BY <1>1, <1>2, <1>3, <1>4 DEF Reviewed
<1>6. Stored(project') /\ Stored(kept')
  BY <1>1, <1>3
<1>7. Advance
  <2>1. Follows(project, project)
    BY <1>3, StoredIsReady, FollowsItself
  <2> QED
    BY <2>1, <1>1, NothingLostBySame DEF Advance
<1> QED
  BY <1>5, <1>6, <1>7 DEF IInv

\* A save either ends nothing, or is shown with all it ends.
LEMMA PersistKeeps ==
    ASSUME IInv, NEW n, NEW proposal, Candidate(project, n), Persist(n, proposal)
    PROVE  IInv' /\ Advance
<1>1. CASE RequiresConfirmation(project, Saved(n))
  <2> DEFINE changes == LostChanges(project, Saved(n))
             stages == LostStages(project, Saved(n))
  <2>1. Show(n, proposal, changes, stages)
    BY <1>1 DEF Persist
  <2>2. Listed(project, n, proposal, changes, stages)
    BY DEF Listed
  <2> QED
    BY <2>1, <2>2, ShowKeeps
<1>2. CASE ~ RequiresConfirmation(project, Saved(n))
  <2>1. Canonical(Saved(n))
    BY <1>2 DEF Persist
  <2>2. IInv' /\ Follows(project, project') /\ project' = Saved(n)
    BY <2>1, CanonicalKeeps
  <2>3. Lossless(project, Saved(n))
    BY <1>2 DEF RequiresConfirmation, Lossless
  <2> QED
    BY <2>2, <2>3 DEF Advance
<1> QED
  BY <1>1, <1>2

\* A confirmed review is of the stored project, so its list is still true.
LEMMA ConfirmKeeps ==
    ASSUME IInv, Confirm
    PROVE  IInv' /\ Advance
<1>1. review.open /\ review.base = project /\ Canonical(Saved(review.next))
  BY DEF Confirm, ReviewIsCurrent
<1>2. /\ Candidate(project, review.next)
      /\ Listed(project, review.next, review.proposal, review.changes, review.stages)
  BY <1>1 DEF IInv, Reviewed
<1>3. IInv' /\ Follows(project, project') /\ project' = Saved(review.next) /\ ~ review'.open
  BY <1>1, <1>2, CanonicalKeeps
<1>4. ShownLoss
  BY <1>1, <1>2, <1>3 DEF ShownLoss, Listed
<1> QED
  BY <1>3, <1>4 DEF Advance

\* A restored version rests on its own records, under a new revision.
LEMMA RestoredStored ==
    ASSUME IInv, Restored(kept).rev <= MaxRevision
    PROVE  Stored(Restored(kept))
<1> DEFINE p == kept
           k == Max({project.rev, p.rev}) + 1
           U == [prompts |-> Len(p.prompts),
                 raws |-> {r \in DOMAIN p.raws : p.raws[r].status \in
                     {"PRESERVED", "VALIDATION_FAILED", "VALIDATED_PENDING_REVIEW"}},
                 proposals |-> UNION {Pending(p, s) : s \in Stages}]
           n == Restored(p)
<1>0. Stored(p) /\ p \in Project /\ p.rev \in Nat /\ project.rev \in Nat /\ p.rev \in 1..MaxRevision
  BY StoredIsReady DEF IInv, Stored
<1>1. Max({project.rev, p.rev}) \in Nat /\ p.rev <= Max({project.rev, p.rev})
  BY <1>0, MaxOfTwo
<1>2. k \in Nat /\ p.rev <= k
  BY <1>0, <1>1
<1>3. U \in RestoredType
  <2>1. p.prompts \in Seq(PromptType) /\ p.raws \in Seq(RawType) /\ p.proposals \in Seq(ProposalType)
    BY <1>0 DEF Project
  <2>2. DOMAIN p.raws \subseteq Nat /\ DOMAIN p.proposals \subseteq Nat /\ Len(p.prompts) \in Nat
    BY <2>1
  <2>3. UNION {Pending(p, s) : s \in Stages} \subseteq Nat
    BY <2>2 DEF Pending
  <2> QED
    BY <2>2, <2>3 DEF RestoredType
<1>4. n = [p EXCEPT !.rev = k, !.restored = U]
  BY <1>0 DEF Restored, Project
<1> HIDE DEF p, k, U, n
<1>5. n \in Project
  BY <1>0, <1>2, <1>3, <1>4 DEF Project
<1>6. /\ n.rev = k /\ n.inputs = p.inputs /\ n.prompts = p.prompts /\ n.raws = p.raws
      /\ n.proposals = p.proposals /\ n.changes = p.changes /\ n.controls = p.controls
      /\ n.confirmation = p.confirmation /\ n.complete = p.complete
  BY <1>0, <1>4 DEF Project
<1>7. Shape(n)
  BY <1>0, <1>5, <1>6 DEF Stored, Shape, PromptsRefer, RawsRefer, ProposalsRefer, ChangesRefer,
                          IsPending
<1>8. RevsWithin(n, n.rev)
  <2>1. p.prompts \in Seq(PromptType)
    BY <1>0 DEF Project
  <2>2. \A i \in DOMAIN p.prompts : p.prompts[i] \in PromptType
    BY <2>1
  <2>3. \A i \in DOMAIN p.prompts : p.prompts[i].rev \in Nat /\ p.prompts[i].rev <= p.rev
    BY <2>2, <1>0 DEF PromptType, Stored, RevsWithin
  <2> QED
    BY <2>3, <1>0, <1>2, <1>6 DEF RevsWithin
<1>9. UsableIsCurrent(n)
  BY <1>0, <1>6 DEF Stored, UsableIsCurrent, Usable, Basis, InputVersion, AcceptedChanges
<1>10. Derived(n)
  BY <1>0, <1>6 DEF Stored, Derived, GatePasses, Open, AcceptedChanges, Confirmed, InputVersion
<1>11. Rested(n)
  BY <1>0, <1>6 DEF Stored, Rested, Rests, Stands, Upstream, AcceptedChanges, CurrentInput
<1>12. n.rev \in 1..MaxRevision
  <2>1. n.rev <= MaxRevision
    BY DEF n, p
  <2> QED
    BY <2>1, <1>0, <1>2, <1>6, RevisionsAreCounted
<1>13. Stored(n)
  BY <1>7, <1>8, <1>9, <1>10, <1>11, <1>12 DEF Stored
<1> QED
  BY <1>13 DEF n, p

\* A restoration keeps IInv.
LEMMA RestoreKeeps ==
    ASSUME IInv, Restore
    PROVE  IInv'
<1>1. /\ project' = Restored(kept) /\ Restored(kept).rev <= MaxRevision
      /\ kept' \in {kept, project} /\ review' = NoReview
  BY DEF Restore, Canonical
<1>2. Stored(project') /\ Stored(kept')
  BY <1>1, RestoredStored DEF IInv
<1>3. Reviewed'
  BY <1>1 DEF Reviewed, NoReview
<1> QED
  BY <1>2, <1>3 DEF IInv

\* The present input is one.
LEMMA CurrentInputIs ==
    ASSUME NEW p, Shape(p)
    PROVE  CurrentInput(p) \in InputType
<1>1. p.inputs \in Seq(InputType) /\ Len(p.inputs) > 0
  BY DEF Shape, Project
<1> QED
  BY <1>1 DEF CurrentInput

\* A save of a project that grew keeps IInv.
LEMMA GrowsKeeps ==
    ASSUME IInv, NEW n, NEW proposal, Grows(project, n), Persist(n, proposal)
    PROVE  IInv' /\ Advance
<1>1. Candidate(project, n)
  BY StoredIsReady, GrowsCandidate DEF IInv
<1> QED
  BY <1>1, PersistKeeps

\* Saving the intake.
LEMMA SaveIntakeKeeps ==
    ASSUME IInv, NEW content \in Intakes, SaveIntake(content)
    PROVE  IInv' /\ Advance
<1> DEFINE input == [CurrentInput(project) EXCEPT !.intake = content]
<1>1. Ready(project) /\ Shape(project)
  BY StoredIsReady DEF IInv
<1>2. input \in InputType
  BY <1>1, CurrentInputIs DEF InputType
<1>3. Persist(RecordInput(project, input), 0)
  BY DEF SaveIntake
<1>4. Grows(project, RecordInput(project, input))
  BY <1>1, <1>2, RecordInputGrows
<1> QED
  BY <1>3, <1>4, GrowsKeeps

\* Saving the fields of a stage, which a complete stage does not survive.
LEMMA SaveFieldsKeeps ==
    ASSUME IInv, NEW s \in Stages, NEW entry \in Entries, SaveFields(s, entry)
    PROVE  IInv' /\ Advance
<1> DEFINE input == [CurrentInput(project) EXCEPT !.fields[s] = entry]
           next == RecordInput(project, input)
           n == IF s \in project.complete THEN InvalidateStage(next, s) ELSE next
<1>1. Ready(project) /\ Shape(project)
  BY StoredIsReady DEF IInv
<1>2. input \in InputType
  BY <1>1, CurrentInputIs DEF InputType
<1>3. Persist(n, 0)
  BY DEF SaveFields
<1>4. Grows(project, next)
  BY <1>1, <1>2, RecordInputGrows
<1> HIDE DEF next
<1>5. Grows(next, InvalidateStage(next, s))
  BY <1>4, InvalidateStageGrows DEF Grows
<1>6. Grows(project, n)
  BY <1>1, <1>4, <1>5, GrowsTransitive
<1> QED
  BY <1>3, <1>6, GrowsKeeps

\* Answering a request with a new input and a new instruction.
LEMMA AnswerKeeps ==
    ASSUME IInv, NEW s \in Stages, Answer(s)
    PROVE  IInv' /\ Advance
<1> DEFINE a == SetControl(project, s, "request", "closed")
           input == [CurrentInput(project) EXCEPT !.answers[s] = @ + 1]
           b == RecordInput(a, input)
           c == EndAttempts(b, {s})
           n == Prompted(c, s)
<1>1. Ready(project) /\ Shape(project) /\ project.rev \in Nat
  BY StoredIsReady DEF IInv
<1>2. input \in InputType
  <2>1. CurrentInput(project) \in InputType
    BY <1>1, CurrentInputIs
  <2> QED
    BY <2>1 DEF InputType
<1>3. Persist(n, 0)
  BY DEF Answer
<1>4. Grows(project, a)
  BY <1>1, SetControlGrows DEF Controls
<1> HIDE DEF a, input
<1>5. Grows(a, b)
  BY <1>2, <1>4, RecordInputGrows DEF Grows
<1> HIDE DEF b
<1>6. Grows(b, c)
  BY <1>5, EndAttemptsGrows DEF Grows
<1> HIDE DEF c
<1>7. Grows(project, b)
  BY <1>1, <1>4, <1>5, GrowsTransitive
<1>8. Grows(project, c)
  BY <1>1, <1>6, <1>7, GrowsTransitive
<1>9. Candidate(project, n)
  BY <1>1, <1>8, PromptedCandidate
<1> QED
  BY <1>3, <1>9, PersistKeeps

\* Blocking and unblocking a stage.
LEMMA BlockKeeps ==
    ASSUME IInv, NEW s \in Stages, Block(s) \/ Unblock(s)
    PROVE  IInv' /\ Advance
<1>1. PICK to \in {"none", "open", "closed"} : Persist(SetControl(project, s, "humanBlocker", to), 0)
  BY DEF Block, Unblock
<1>2. Grows(project, SetControl(project, s, "humanBlocker", to))
  BY StoredIsReady, SetControlGrows DEF IInv, Controls
<1> QED
  BY <1>1, <1>2, GrowsKeeps

\* Confirming stage 1.
LEMMA ConfirmStageOneKeeps ==
    ASSUME IInv, ConfirmStageOne
    PROVE  IInv' /\ Advance
<1> DEFINE C == [change |-> LatestOf(AcceptedChanges(project, 1)),
                 version |-> InputVersion(project, 1)]
           n == [project EXCEPT !.confirmation = C]
<1>1. Ready(project) /\ Shape(project) /\ project \in Project
  BY StoredIsReady DEF IInv
<1>2. LatestOf(AcceptedChanges(project, 1)) \in Nat
  <2>1. project.changes \in Seq(ChangeType)
    BY <1>1 DEF Project
  <2>2. AcceptedChanges(project, 1) \in SUBSET (1..Len(project.changes)) /\ Len(project.changes) \in Nat
    BY <2>1 DEF AcceptedChanges
  <2> HIDE DEF n
  <2>3. AcceptedChanges(project, 1) # {} => Max(AcceptedChanges(project, 1)) \in AcceptedChanges(project, 1)
    BY <2>2, MaxExists
  <2> QED
    BY <2>2, <2>3 DEF LatestOf
<1>3. InputVersion(project, 1) \in Nat
  <2>1. 1 \in Stages
    BY StageCountIsPositive DEF Stages
  <2>2. project.inputs \in Seq(InputType) /\ Len(project.inputs) > 0
    BY <1>1 DEF Shape, Project
  <2>3. InputVersion(project, 1) \in DOMAIN project.inputs
    BY <2>1, <2>2, InputVersionIsCurrent
  <2> QED
    BY <2>2, <2>3
<1>4. Persist(n, 0)
  BY DEF ConfirmStageOne
<1>5. C \in ConfirmationType
  BY <1>2, <1>3 DEF ConfirmationType
<1> HIDE DEF C
<1>6. n \in Project
  BY <1>1, <1>5 DEF Project
<1>7. /\ n.rev = project.rev /\ n.inputs = project.inputs /\ n.prompts = project.prompts
      /\ n.raws = project.raws /\ n.proposals = project.proposals /\ n.changes = project.changes
  BY <1>1 DEF Project
<1> HIDE DEF n
<1>8. Keeps(project, n) /\ \A s : SameAccepted(project, n, s)
  BY <1>1, <1>6, <1>7, SameRecords
<1>9. Grows(project, n)
  BY <1>1, <1>8, KeepsReady
<1> QED
  BY <1>4, <1>9, GrowsKeeps

\* Reserving an instruction.
LEMMA PromptKeeps ==
    ASSUME IInv, NEW s \in Stages, Prompt(s)
    PROVE  IInv' /\ Advance
<1>1. Candidate(project, Prompted(project, s))
  BY StoredIsReady, PromptedCandidate DEF IInv
<1> QED
  BY <1>1, PersistKeeps DEF Prompt

\* Exporting one.
LEMMA ExportKeeps ==
    ASSUME IInv, NEW i \in DOMAIN project.prompts, Export(i)
    PROVE  IInv' /\ Advance
<1> DEFINE n == [project EXCEPT !.prompts[i].state = "EXPORTED"]
<1>1. Operational(n) /\ project.prompts[i].state = "RESERVED"
  BY DEF Export
<1>2. Stored(n) /\ Follows(project, n) /\ SameBesides(project, n)
  BY <1>1, ExportedStored DEF IInv
<1> HIDE DEF n
<1> QED
  BY <1>1, <1>2, OperationalKeeps

\* Capturing a returned file.
LEMMA CaptureKeeps ==
    ASSUME IInv, NEW s \in Stages, NEW i \in DOMAIN project.prompts, NEW kind \in Kinds,
           NEW layout \in Layouts, Capture(s, i, [kind |-> kind, layout |-> layout])
    PROVE  IInv' /\ Advance
<1> DEFINE response == [kind |-> kind, layout |-> layout]
           current == {j \in LivePrompts(project, s) : j > project.restored.prompts}
           n == Captured(project, s, i, response)
<1>1. response \in ResponseType
  BY DEF ResponseType
<1>2. project.prompts \in Seq(PromptType)
  BY StoredIsReady DEF IInv, Project
<1>3. /\ current # {}
      /\ i \in IF response.kind = "MALFORMED" THEN {Max(current)}
               ELSE {j \in DOMAIN project.prompts : project.prompts[j].stage = s}
      /\ Operational(n)
  BY DEF Capture
<1> HIDE DEF response, n
<1>4. current \in SUBSET (1..Len(project.prompts)) /\ Len(project.prompts) \in Nat
  BY <1>2 DEF LivePrompts
<1>5. \A j \in current : project.prompts[j].stage = s
  BY DEF LivePrompts
<1> HIDE DEF current
<1>6. Max(current) \in current
  BY <1>3, <1>4, MaxExists
<1>7. project.prompts[i].stage = s
  BY <1>3, <1>5, <1>6
<1>8. Stored(n) /\ Follows(project, n) /\ SameBesides(project, n)
  BY <1>1, <1>7, CapturedStored DEF IInv, n
<1> QED
  BY <1>3, <1>8, OperationalKeeps

\* Validating a captured file.
LEMMA ValidateKeeps ==
    ASSUME IInv, NEW r \in DOMAIN project.raws, Validate(r)
    PROVE  IInv' /\ Advance
<1>1. project.raws[r].status \in Unsettled /\ Operational(Prepared(project, r))
  BY DEF Validate, Unsettled
<1>2. /\ Stored(Prepared(project, r)) /\ Follows(project, Prepared(project, r))
      /\ SameBesides(project, Prepared(project, r))
  BY <1>1, PreparedStored DEF IInv
<1> QED
  BY <1>1, <1>2, OperationalKeeps

\* The latest pending proposal of a stage is one of its pending proposals.
LEMMA LatestPending ==
    ASSUME NEW p, p \in Project, NEW s, Pending(p, s) # {}
    PROVE  /\ Max(Pending(p, s)) \in DOMAIN p.proposals
           /\ p.proposals[Max(Pending(p, s))].stage = s
           /\ IsPending(p, Max(Pending(p, s)))
           /\ Max(Pending(p, s)) # 0
<1>1. p.proposals \in Seq(ProposalType)
  BY DEF Project
<1>2. Pending(p, s) \in SUBSET (1..Len(p.proposals)) /\ Len(p.proposals) \in Nat
  BY <1>1 DEF Pending
<1>3. Max(Pending(p, s)) \in Pending(p, s)
  BY <1>2, MaxExists
<1>4. Max(Pending(p, s)) # 0
  BY <1>2, <1>3
<1> QED
  BY <1>3, <1>4 DEF Pending, IsPending

\* Rejecting or abandoning the pending proposal.
LEMMA DismissKeeps ==
    ASSUME IInv, NEW s \in Stages, NEW dismissal \in Dismissals, Dismiss(s, dismissal)
    PROVE  IInv' /\ Advance
<1> DEFINE i == Max(Pending(project, s))
           n == Settled(project, i, dismissal.status, dismissal.reservation)
<1>1. Pending(project, s) # {} /\ Operational(n)
  BY DEF Dismiss
<1>2. i \in DOMAIN project.proposals /\ IsPending(project, i)
  BY <1>1, StoredIsReady, LatestPending DEF IInv
<1> HIDE DEF i
<1>3. Stored(n) /\ Follows(project, n) /\ SameBesides(project, n)
  BY <1>2, DismissedStored DEF IInv
<1> HIDE DEF n
<1> QED
  BY <1>1, <1>3, OperationalKeeps

\* A save leaves accepted work as the candidate has it.
LEMMA SavedChanges ==
    ASSUME NEW n \in Project
    PROVE  Saved(n).changes = n.changes
<1> DEFINE a == [n EXCEPT !.rev = @ + 1, !.restored.raws = {}, !.restored.proposals = {}]
           b == Reconciled(a)
<1>1. a.changes = n.changes /\ DOMAIN a = DOMAIN n
  BY DEF Project
<1>2. Saved(n) = Recalculated(b)
  BY DEF Saved
<1> HIDE DEF a
<1>3. b.changes = a.changes /\ DOMAIN b = DOMAIN n
  BY <1>1 DEF Reconciled, Project
<1> HIDE DEF b
<1>4. Recalculated(b).changes = b.changes
  BY <1>3 DEF Recalculated, Project
<1> QED
  BY <1>1, <1>2, <1>3, <1>4

(* What accepting data ends is what the operator was shown.                *)
LEMMA ImpactListed ==
    ASSUME NEW p, Stored(p), NEW n \in Project, NEW i \in DOMAIN p.proposals, i # 0,
           KindOf(p, i) = "DATA_PROPOSAL",
           NEW replaces \in SUBSET AcceptedChanges(p, p.proposals[i].stage),
           LostOnly(p, n, replaces, p.proposals[i].stage)
    PROVE  Listed(p, n, i, AcceptanceImpact(p, i, replaces).changes,
                  AcceptanceImpact(p, i, replaces).stages)
<1> DEFINE s == p.proposals[i].stage
           impact == AcceptanceImpact(p, i, replaces)
           affected == AffectedStages(p, s)
<1>0. Shape(p) /\ p \in Project /\ Derived(p)
  BY StoredIsReady
<1>1. /\ impact.changes = replaces \cup UNION {AcceptedChanges(p, t) : t \in affected}
      /\ impact.stages = affected \cap p.complete
  BY DEF AcceptanceImpact
<1> HIDE DEF impact, affected
<1>2. \A t \in Stages : t > s /\ AcceptedChanges(p, t) # {} => t \in affected
  BY DEF affected, AffectedStages, HasWork
<1>3. LostChanges(p, Saved(n)) \subseteq impact.changes
  <2> SUFFICES ASSUME NEW c \in DOMAIN p.changes, p.changes[c].live, ~ Saved(n).changes[c].live
               PROVE  c \in impact.changes
    BY DEF LostChanges
  <2>1. ~ n.changes[c].live
    BY SavedChanges
  <2>2. c \in replaces \/ p.changes[c].stage > s
    BY <2>1 DEF LostOnly
  <2>3. p.changes[c].stage \in Stages
    <3>1. p.changes \in Seq(ChangeType)
      BY <1>0 DEF Project
    <3>2. p.changes[c] \in ChangeType
      BY <3>1
    <3> QED
      BY <3>2 DEF ChangeType
  <2>4. c \in AcceptedChanges(p, p.changes[c].stage)
    BY DEF AcceptedChanges
  <2> QED
    BY <2>2, <2>3, <2>4, <1>1, <1>2
<1>4. \A t \in LostStages(p, Saved(n)) : t > Own(p, i) => t \in impact.stages
  <2> SUFFICES ASSUME NEW t \in p.complete, t > s
               PROVE  t \in affected
    BY <1>1 DEF LostStages, Own
  <2>1. t \in Stages
    BY <1>0 DEF Project
  <2>2. t \in 1..t
    BY <2>1 DEF Stages
  <2>3. GatePasses(p, t)
    BY <2>2, <1>0 DEF Derived
  <2> QED
    BY <2>1, <2>3, <1>2 DEF GatePasses
<1> QED
  BY <1>3, <1>4 DEF Listed, impact

\* Accepting a proposal, at once or after a review.
LEMMA AcceptKeeps ==
    ASSUME IInv, NEW s \in Stages, Accept(s)
    PROVE  IInv' /\ Advance
<1> DEFINE i == LatestOf(Pending(project, s))
<1>0. Stored(project) /\ Ready(project) /\ Shape(project) /\ project \in Project
      /\ project.rev \in Nat /\ UsableIsCurrent(project)
  BY StoredIsReady DEF IInv
<1>1. i # 0 /\ ProposalCurrent(project, i)
  BY DEF Accept
<1>2. i \in DOMAIN project.proposals /\ project.proposals[i].stage = s
  BY <1>0, <1>1, LatestPending DEF LatestOf
<1>3. PICK replaces \in {{}, IF KindOf(project, i) = "DATA_PROPOSAL"
                               THEN AcceptedChanges(project, s) ELSE {}} :
        LET impact == AcceptanceImpact(project, i, replaces)
            done == Committed(project, i, replaces)
        IN  \E continued \in BOOLEAN :
              /\ continued => MayContinue(done, s) /\ Len(done.prompts) < MaxPrompts
              /\ LET next == IF continued THEN Prompted(done, s) ELSE done
                 IN  IF replaces # {} \/ impact.affected # {}
                       THEN Show(next, i, impact.changes, impact.stages)
                       ELSE Persist(next, i)
  BY DEF Accept
<1> DEFINE impact == AcceptanceImpact(project, i, replaces)
           done == Committed(project, i, replaces)
<1> HIDE DEF i
<1>4. PICK continued \in BOOLEAN :
        LET next == IF continued THEN Prompted(done, s) ELSE done
        IN  IF replaces # {} \/ impact.affected # {}
              THEN Show(next, i, impact.changes, impact.stages)
              ELSE Persist(next, i)
  BY <1>3
<1> DEFINE next == IF continued THEN Prompted(done, s) ELSE done
<1>5. replaces \in SUBSET AcceptedChanges(project, project.proposals[i].stage)
  BY <1>2
<1>6. /\ Grows(project, done)
      /\ KindOf(project, i) = "DATA_PROPOSAL" => LostOnly(project, done, replaces, s)
  BY <1>0, <1>1, <1>2, <1>5, CommittedGrows
<1>7. replaces # {} \/ impact.affected # {} => KindOf(project, i) = "DATA_PROPOSAL"
  BY DEF AcceptanceImpact
<1> HIDE DEF done, impact
<1>8. Candidate(project, next)
  <2>1. CASE continued
    BY <2>1, <1>0, <1>6, PromptedCandidate
  <2>2. CASE ~ continued
    BY <2>2, <1>0, <1>6, GrowsCandidate
  <2> QED
    BY <2>1, <2>2
<1>9. next.changes = done.changes
  <2>1. done \in Project
    BY <1>6 DEF Grows, Ready, Shape
  <2> QED
    BY <2>1 DEF Prompted, Project
<1> HIDE DEF next
<1>10. CASE replaces # {} \/ impact.affected # {}
  <2>1. Show(next, i, impact.changes, impact.stages)
    BY <1>4, <1>10 DEF next
  <2>2. LostOnly(project, next, replaces, s)
    BY <1>6, <1>7, <1>9, <1>10 DEF LostOnly
  <2>3. next \in Project
    BY <1>8 DEF Candidate, Shape
  <2>4. Listed(project, next, i, impact.changes, impact.stages)
    BY <2>2, <2>3, <1>0, <1>1, <1>2, <1>5, <1>7, <1>10, ImpactListed DEF impact
  <2> QED
    BY <2>1, <2>4, <1>8, ShowKeeps
<1>11. CASE ~ (replaces # {} \/ impact.affected # {})
  <2>1. Persist(next, i)
    BY <1>4, <1>11 DEF next
  <2> QED
    BY <2>1, <1>8, PersistKeeps
<1> QED
  BY <1>10, <1>11

\* Dismissing a review, or nothing at all.
LEMMA KeepKeeps ==
    ASSUME IInv, Keep \/ UNCHANGED vars
    PROVE  IInv' /\ Advance
<1>1. project' = project /\ kept' = kept
  BY DEF Keep, vars
<1>2. review' = review \/ ~ review'.open
  BY DEF Keep, NoReview, vars
<1>3. Stored(project') /\ Stored(kept')
  BY <1>1 DEF IInv
<1>4. Reviewed'
  BY <1>1, <1>2 DEF Reviewed, IInv
<1>5. Advance
  <2>1. Follows(project, project)
    BY StoredIsReady, FollowsItself DEF IInv
  <2> QED
    BY <2>1, <1>1, NothingLostBySame DEF Advance
<1> QED
  BY <1>3, <1>4, <1>5 DEF IInv

\* Every step keeps IInv, and unless it restores a version it only adds to the
\* project and loses nothing that was not shown.
LEMMA StepKeeps ==
    ASSUME IInv, [Next]_vars
    PROVE  IInv' /\ (~ Restore => Advance)
<1>1. ASSUME NEW content \in Intakes, SaveIntake(content) PROVE IInv' /\ Advance
  BY <1>1, SaveIntakeKeeps
<1>2. ASSUME NEW s \in Stages, NEW entry \in Entries, SaveFields(s, entry) PROVE IInv' /\ Advance
  BY <1>2, SaveFieldsKeeps
<1>3. ASSUME NEW s \in Stages, Answer(s) \/ Block(s) \/ Unblock(s) \/ Prompt(s) \/ Accept(s)
      PROVE  IInv' /\ Advance
  BY <1>3, AnswerKeeps, BlockKeeps, PromptKeeps, AcceptKeeps
<1>4. ASSUME ConfirmStageOne PROVE IInv' /\ Advance
  BY <1>4, ConfirmStageOneKeeps
<1>5. ASSUME NEW i \in DOMAIN project.prompts, Export(i) PROVE IInv' /\ Advance
  BY <1>5, ExportKeeps
<1>6. ASSUME NEW s \in Stages, NEW i \in DOMAIN project.prompts, NEW kind \in Kinds,
             NEW layout \in Layouts, Capture(s, i, [kind |-> kind, layout |-> layout])
      PROVE  IInv' /\ Advance
  BY <1>6, CaptureKeeps
<1>7. ASSUME NEW r \in DOMAIN project.raws, Validate(r) PROVE IInv' /\ Advance
  BY <1>7, ValidateKeeps
<1>8. ASSUME NEW s \in Stages, NEW dismissal \in Dismissals, Dismiss(s, dismissal)
      PROVE  IInv' /\ Advance
  BY <1>8, DismissKeeps
<1>9. CASE Keep \/ UNCHANGED vars
  BY <1>9, KeepKeeps
<1>10. CASE Confirm
  BY <1>10, ConfirmKeeps
<1>11. CASE Restore
  BY <1>11, RestoreKeeps
<1> QED
  BY <1>1, <1>2, <1>3, <1>4, <1>5, <1>6, <1>7, <1>8, <1>9, <1>10, <1>11 DEF Next

-----------------------------------------------------------------------------
(* A new project is stored well.                                           *)
LEMMA BlankIsInput == Blank \in InputType
<1>1. (CHOOSE i \in Intakes : TRUE) \in Intakes
  BY ContentsAreGiven
<1>2. (CHOOSE e \in Entries : TRUE) \in Entries
  BY ContentsAreGiven
<1> QED
  BY <1>1, <1>2 DEF Blank, InputType

\* A new project obeys every rule.
LEMMA NewProjectStored == Stored(NewProject)
<1> DEFINE p == NewProject
<1>1. /\ p.rev = 1 /\ p.inputs = <<Blank>> /\ p.prompts = <<>> /\ p.raws = <<>>
      /\ p.proposals = <<>> /\ p.changes = <<>> /\ p.complete = {}
  BY DEF NewProject
<1>2. p \in Project
  <2>1. <<Blank>> \in Seq(InputType)
    BY BlankIsInput
  <2>2. [s \in Stages |-> NoControls] \in [Stages -> ControlType]
    BY DEF NoControls, ControlType
  <2>3. NoConfirmation \in ConfirmationType
    BY DEF NoConfirmation, ConfirmationType
  <2>4. [prompts |-> 0, raws |-> {}, proposals |-> {}] \in RestoredType
    BY DEF RestoredType
  <2> QED
    BY <2>1, <2>2, <2>3, <2>4 DEF NewProject, Project
<1> HIDE DEF p
<1>3. Len(p.inputs) > 0
  BY <1>1
<1>4. PromptsRefer(p) /\ RawsRefer(p) /\ ProposalsRefer(p) /\ ChangesRefer(p)
  BY <1>1 DEF PromptsRefer, RawsRefer, ProposalsRefer, ChangesRefer
<1>5. RevsWithin(p, p.rev) /\ UsableIsCurrent(p) /\ Derived(p) /\ Rested(p)
  BY <1>1 DEF RevsWithin, UsableIsCurrent, Derived, Rested
<1>6. p.rev \in 1..MaxRevision
  BY <1>1, RevisionsAreCounted
<1> QED
  BY <1>2, <1>3, <1>4, <1>5, <1>6 DEF Stored, Shape, p

\* So IInv holds at first.
LEMMA InitKeeps ==
    ASSUME Init
    PROVE  IInv
BY NewProjectStored DEF Init, IInv, Reviewed, NoReview

-----------------------------------------------------------------------------
(* The theorems.                                                           *)

(* Every project a save stores, every version that may be restored and     *)
(* every candidate that waits for the operator obeys the rules above.      *)
THEOREM InvariantHolds == Spec => []IInv
<1>1. IInv /\ [Next]_vars => IInv'
  BY StepKeeps
<1> QED
  BY InitKeeps, <1>1, PTL DEF Spec

\* A stored project is well formed.
LEMMA StoredWellFormed ==
    ASSUME NEW p, Stored(p)
    PROVE  WellFormed(p)
<1>1. /\ p \in Project /\ p.rev \in 1..MaxRevision /\ RevsWithin(p, p.rev)
      /\ PromptsRefer(p) /\ RawsRefer(p) /\ ProposalsRefer(p) /\ ChangesRefer(p)
  BY DEF Stored, Shape
<1>2. p.complete \subseteq Stages
  BY <1>1 DEF Project
<1>3. ASSUME NEW i \in DOMAIN p.prompts
      PROVE  /\ p.prompts[i].stage \in Stages /\ p.prompts[i].rev <= p.rev
             /\ p.prompts[i].standing \in {"live", "superseded", "invalidated"}
             /\ p.prompts[i].basis.version \in DOMAIN p.inputs
             /\ p.prompts[i].basis.upstream \subseteq DOMAIN p.changes
  <2>1. p.prompts \in Seq(PromptType)
    BY <1>1 DEF Project
  <2>2. p.prompts[i] \in PromptType
    BY <2>1
  <2>3. p.prompts[i].stage \in Stages /\ p.prompts[i].standing \in Standings
    BY <2>2 DEF PromptType
  <2> QED
    BY <2>3, <1>1 DEF Standings, RevsWithin, PromptsRefer
<1>4. ASSUME NEW r \in DOMAIN p.raws
      PROVE  /\ p.raws[r].prompt \in DOMAIN p.prompts
             /\ p.raws[r].stage = p.prompts[p.raws[r].prompt].stage
             /\ p.raws[r].proposal \in 0..Len(p.proposals)
             /\ p.raws[r].status = "VALIDATED_PENDING_REVIEW" => p.raws[r].proposal # 0
  <2>1. p.raws \in Seq(RawType) /\ Len(p.proposals) \in Nat
    BY <1>1 DEF Project
  <2>2. p.raws[r] \in RawType
    BY <2>1
  <2>3. p.raws[r].proposal \in Nat
    BY <2>2 DEF RawType
  <2> QED
    BY <2>1, <2>3, <1>1 DEF RawsRefer
<1>5. \A i \in DOMAIN p.proposals :
         /\ p.raws[p.proposals[i].raw].proposal = i
         /\ p.proposals[i].prompt = p.raws[p.proposals[i].raw].prompt
  BY <1>1 DEF ProposalsRefer
<1>6. \A c \in DOMAIN p.changes : p.changes[c].stage = p.prompts[p.changes[c].prompt].stage
  BY <1>1 DEF ChangesRefer
<1> QED
  BY <1>1, <1>2, <1>3, <1>4, <1>5, <1>6 DEF WellFormed

(* The records of a stored project, of a version that may be restored and  *)
(* of the project a review was opened on refer to records that exist, of   *)
(* their own stage, and no review is of a later revision than the stored.  *)
THEOREM TypeCorrect == Spec => []TypeOK
<1>1. IInv => TypeOK
  BY StoredWellFormed DEF IInv, Reviewed, TypeOK
<1> QED
  BY InvariantHolds, <1>1, PTL

(* However the operator, the agent's responses, reviews left open and      *)
(* restorations interleave, a stage is stored as complete only on live     *)
(* accepted work of it and of every stage before it, with nothing open     *)
(* there, and a confirmation of that work and of the intake as it is now   *)
(* (recalculate, which most operational saves do not run).                 *)
THEOREM CompletionEarned == Spec => []CompleteIsEarned
<1>1. ASSUME IInv PROVE CompleteIsEarned
  <2>1. Derived(project) /\ Shape(project) /\ project \in Project
    BY <1>1, StoredIsReady DEF IInv
  <2> SUFFICES ASSUME NEW s \in project.complete, NEW t \in 1..s
               PROVE  /\ t \in project.complete
                      /\ AcceptedChanges(project, t) # {}
                      /\ Open(project, t) = {}
                      /\ t = 1 => /\ project.confirmation.change = Max(AcceptedChanges(project, 1))
                                  /\ Visible(project.inputs[project.confirmation.version], 1)
                                       = Visible(CurrentInput(project), 1)
    BY DEF CompleteIsEarned
  <2>2. t \in project.complete /\ GatePasses(project, t)
    BY <2>1 DEF Derived
  <2>3. AcceptedChanges(project, t) # {} /\ Open(project, t) = {}
    BY <2>2 DEF GatePasses
  <2>4. ASSUME t = 1
        PROVE  /\ project.confirmation.change = Max(AcceptedChanges(project, 1))
               /\ Visible(project.inputs[project.confirmation.version], 1)
                    = Visible(CurrentInput(project), 1)
    <3>1. /\ project.confirmation.change = LatestOf(AcceptedChanges(project, 1))
          /\ project.confirmation.version = InputVersion(project, 1)
      BY <2>2, <2>4 DEF GatePasses, Confirmed
    <3>2. project.inputs \in Seq(InputType) /\ Len(project.inputs) > 0 /\ 1 \in Stages
      BY <2>1, StageCountIsPositive DEF Shape, Project, Stages
    <3>3. Visible(project.inputs[InputVersion(project, 1)], 1) = Visible(CurrentInput(project), 1)
      BY <3>2, InputVersionIsCurrent
    <3> QED
      BY <3>1, <3>3, <2>3, <2>4 DEF LatestOf
  <2> QED
    BY <2>2, <2>3, <2>4
<1> QED
  BY InvariantHolds, <1>1, PTL

(* Accepted work, live instructions and pending proposals of a stage after *)
(* the first stand on exactly the accepted work of the earlier stages, and *)
(* on the intake, that their instruction was written from: whatever        *)
(* changes either ends them in the same save, also when a version is       *)
(* restored or a candidate is saved that was reviewed meanwhile.           *)
THEOREM WorkNotOrphaned == Spec => []NoOrphanedWork
<1>1. ASSUME IInv PROVE NoOrphanedWork
  <2>1. Rested(project) /\ Shape(project) /\ project \in Project
    BY <1>1 DEF IInv, Stored, Shape
  <2>2. ASSUME NEW i \in DOMAIN project.prompts, project.prompts[i].stage # 1, Rests(project, i)
        PROVE  StandsOn(project.prompts[i].basis, project.prompts[i].stage)
    BY <2>1, <2>2 DEF Rested, Stands, Upstream, StandsOn
  <2> SUFFICES ASSUME NEW s \in Stages \ {1}
               PROVE  /\ \A c \in AcceptedChanges(project, s) :
                            StandsOn(project.prompts[project.changes[c].prompt].basis, s)
                      /\ \A i \in LivePrompts(project, s) : StandsOn(project.prompts[i].basis, s)
                      /\ \A i \in Pending(project, s) :
                           project.prompts[project.proposals[i].prompt].standing = "live"
                             => StandsOn(project.prompts[project.proposals[i].prompt].basis, s)
    BY DEF NoOrphanedWork
  <2>3. ASSUME NEW c \in AcceptedChanges(project, s)
        PROVE  StandsOn(project.prompts[project.changes[c].prompt].basis, s)
    <3>1. c \in DOMAIN project.changes /\ project.changes[c].stage = s /\ project.changes[c].live
      BY DEF AcceptedChanges
    <3>2. /\ project.changes[c].prompt \in DOMAIN project.prompts
          /\ project.prompts[project.changes[c].prompt].stage = s
      BY <3>1, <2>1 DEF Shape, ChangesRefer
    <3>3. Rests(project, project.changes[c].prompt)
      BY <3>1 DEF Rests
    <3> QED
      BY <3>2, <3>3, <2>2
  <2>4. ASSUME NEW i \in LivePrompts(project, s) PROVE StandsOn(project.prompts[i].basis, s)
    BY <2>2 DEF LivePrompts, Rests
  <2>5. ASSUME NEW i \in Pending(project, s),
               project.prompts[project.proposals[i].prompt].standing = "live"
        PROVE  StandsOn(project.prompts[project.proposals[i].prompt].basis, s)
    <3>1. i \in DOMAIN project.proposals /\ project.proposals[i].stage = s
      BY DEF Pending
    <3>2. /\ project.proposals[i].prompt \in DOMAIN project.prompts
          /\ project.prompts[project.proposals[i].prompt].stage = s
      BY <3>1, <2>1 DEF Shape, ProposalsRefer, RawsRefer
    <3> QED
      BY <3>2, <2>2, <2>5 DEF Rests
  <2> QED
    BY <2>3, <2>4, <2>5
<1> QED
  BY InvariantHolds, <1>1, PTL

(* A step that accepts a response finds its instruction live and saying    *)
(* what an instruction for its stage would say at that moment: also when   *)
(* the response was validated before other saves, or was brought back by a *)
(* restored version, or its acceptance was left open in a review.          *)
THEOREM CurrentAccepted == Spec => AcceptsCurrentWork
<1> DEFINE A == ~ Restore => \A i \in DOMAIN project.proposals : NewlyAccepted(i) =>
         LET prompt == project.prompts[project.proposals[i].prompt]
         IN  prompt.standing = "live" /\ prompt.basis = Basis(project, prompt.stage)
<1>1. ASSUME IInv, [Next]_vars PROVE A
  <2> SUFFICES ASSUME ~ Restore, NEW i \in DOMAIN project.proposals, NewlyAccepted(i)
               PROVE  LET prompt == project.prompts[project.proposals[i].prompt]
                      IN  prompt.standing = "live" /\ prompt.basis = Basis(project, prompt.stage)
    OBVIOUS
  <2>1. Follows(project, project')
    BY <1>1, StepKeeps DEF Advance
  <2>2. Shape(project) /\ UsableIsCurrent(project)
    BY <1>1 DEF IInv, Stored
  <2>3. IsAccepted(project', i) /\ ~ IsAccepted(project, i)
    BY DEF NewlyAccepted, IsAccepted, AcceptedStatuses
  <2>4. Usable(project, project.proposals[i].prompt)
    BY <2>1, <2>3 DEF Follows, FollowsProposals
  <2>5. project.proposals[i].prompt \in DOMAIN project.prompts
    BY <2>2 DEF Shape, ProposalsRefer, RawsRefer
  <2> QED
    BY <2>2, <2>4, <2>5 DEF UsableIsCurrent, Usable
<1> QED
  <2>1. IInv /\ [Next]_vars => [A]_vars
    BY <1>1
  <2> QED
    BY InvariantHolds, <2>1, PTL DEF Spec, AcceptsCurrentWork

(* A step that ends accepted work, or the completion of a stage behind the *)
(* one it accepts for, is the operator's confirmation of a review that     *)
(* listed it, or a restoration (persistReplacement, showReplacementReview, *)
(* confirmReplacement): no save of the page loses work it has not shown.   *)
THEOREM LossShown == Spec => ShownBeforeLost
<1> DEFINE A == ~ Restore =>
         LET lost == LostChanges(project, project')
             own == IF review.open /\ review.proposal # 0
                      THEN project.proposals[review.proposal].stage ELSE 0
             behind == {s \in LostStages(project, project') : s > own}
         IN  lost # {} \/ behind # {} =>
               /\ review.open /\ ~ review'.open
               /\ lost \subseteq review.changes
               /\ behind \subseteq review.stages
<1>1. ASSUME IInv, [Next]_vars PROVE A
  <2>1. ~ Restore => Lossless(project, project') \/ ShownLoss
    BY <1>1, StepKeeps DEF Advance
  <2> QED
    BY <2>1 DEF Lossless, ShownLoss, Own
<1> QED
  <2>1. IInv /\ [Next]_vars => [A]_vars
    BY <1>1
  <2> QED
    BY InvariantHolds, <2>1, PTL DEF Spec, ShownBeforeLost

(* No save drops or alters a response an agent returned, nor reopens one   *)
(* that was decided on; the saves of a candidate that was prepared before  *)
(* the response arrived included.                                          *)
THEOREM ResponsesStay == Spec => ResponsesKept
<1> DEFINE A == ~ Restore => \A r \in DOMAIN project.raws :
         /\ r \in DOMAIN project'.raws
         /\ project'.raws[r].prompt = project.raws[r].prompt
         /\ project'.raws[r].response = project.raws[r].response
         /\ project.raws[r].status \notin Undecided
              => project'.raws[r].status = project.raws[r].status
<1>1. ASSUME IInv, [Next]_vars PROVE A
  <2>1. ~ Restore => FollowsRaws(project, project')
    BY <1>1, StepKeeps DEF Advance, Follows
  <2> QED
    BY <2>1 DEF FollowsRaws
<1> QED
  <2>1. IInv /\ [Next]_vars => [A]_vars
    BY <1>1
  <2> QED
    BY InvariantHolds, <2>1, PTL DEF Spec, ResponsesKept
=============================================================================
