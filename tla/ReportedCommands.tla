-------------------------- MODULE ReportedCommands --------------------------
(***************************************************************************)
(* What a page may be told of the commands it gives to the store.  A       *)
(* command changes the project at most once.  It may be reported as done   *)
(* only once it has changed the project or was found to ask for nothing,   *)
(* and as leaving the project unchanged only if it has not changed it and  *)
(* never will.  When neither is known it is reported as unconfirmed.       *)
(***************************************************************************)
CONSTANT Operations

VARIABLES changed, needless, report

vars == <<changed, needless, report>>

Init ==
    /\ changed = {}
    /\ needless = {}
    /\ report = [op \in Operations |-> "none"]

\* A command whose outcome has been reported takes no further effect.
Open(op) ==
    /\ report[op] \in {"none", "unconfirmed"}
    /\ op \notin changed \cup needless

Change(op) ==
    /\ Open(op)
    /\ changed' = changed \cup {op}
    /\ UNCHANGED <<needless, report>>

FindNeedless(op) ==
    /\ Open(op)
    /\ needless' = needless \cup {op}
    /\ UNCHANGED <<changed, report>>

Report(op, outcome) ==
    /\ report[op] = "none"
    /\ outcome = "done" => op \in changed \cup needless
    /\ outcome = "unchanged" => op \notin changed
    /\ report' = [report EXCEPT ![op] = outcome]
    /\ UNCHANGED <<changed, needless>>

Next ==
    \E op \in Operations :
        \/ Change(op)
        \/ FindNeedless(op)
        \/ \E outcome \in {"done", "unchanged", "unconfirmed"} :
               Report(op, outcome)

Spec == Init /\ [][Next]_vars
=============================================================================
