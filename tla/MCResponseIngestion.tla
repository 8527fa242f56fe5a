------------------------ MODULE MCResponseIngestion ------------------------
(***************************************************************************)
(* Two stages.  A run begins with a new project, or in the middle of one:  *)
(* the first stage is complete and the second was answered, or both are    *)
(* complete and the first was asked and answered again.  History offers    *)
(* the version in which the first stage had just been completed.           *)
(***************************************************************************)
EXTENDS ResponseIngestion

(* The commands that lead there, one after another.                        *)
AskStage(p, s) == Saved(Prompted(p, s))
ReturnData(p, s) ==
    LET i == Max(LivePrompts(p, s))
    IN  Prepared(Captured(p, s, i, [kind |-> "DATA_PROPOSAL", layout |-> "compact"]),
                 Len(p.raws) + 1)
AcceptData(p) == Saved(Committed(p, Len(p.proposals), {}))
ConfirmData(p) ==
    Saved([p EXCEPT !.confirmation = [change |-> Len(p.changes), version |-> Len(p.inputs)]])

(* A stage may be confirmed again: that counts the revision on, so that    *)
(* MaxRevision leaves two saves to the first project and one to the other. *)
FirstStage == AcceptData(ReturnData(AskStage(NewProject, 1), 1))
SecondAnswered(p) == ReturnData(AskStage(p, 2), 2)
MidwayProject == SecondAnswered(ConfirmData(ConfirmData(ConfirmData(FirstStage))))
ReturningProject ==
    ReturnData(AskStage(AcceptData(SecondAnswered(ConfirmData(ConfirmData(FirstStage)))), 1), 1)

Midway ==
    /\ project \in {MidwayProject, ReturningProject}
    /\ review = NoReview
    /\ kept = ConfirmData(FirstStage)

MidwaySpec == Midway /\ [][Next]_vars
=============================================================================
