-------------------------- MODULE VersionedProject --------------------------
(***************************************************************************)
(* What the store promises of a project, without tabs, transactions,       *)
(* journals or checkpoints.  A work is a set of changes.  There is one     *)
(* current work, and a set of retained works that only grows and from      *)
(* which the current work can always be replaced.                          *)
(***************************************************************************)
CONSTANT Nothing      \* the current work of a removed project

VARIABLES current, retained

\* The project has been created and its first work retained.
Init ==
    /\ current # Nothing
    /\ retained = {current}

\* Changes are saved on top of the current work, and retained with it.
Save ==
    /\ current # Nothing
    /\ current' # Nothing
    /\ current \subseteq current'
    /\ retained' = retained \cup {current'}

\* Undo, Redo, the History list and a backup return to a retained work.
Return ==
    /\ current' \in retained
    /\ UNCHANGED retained

\* The project leaves the browser; its works do not.
Remove ==
    /\ current # Nothing
    /\ current' = Nothing
    /\ UNCHANGED retained

Next == Save \/ Return \/ Remove

Spec == Init /\ [][Next]_<<current, retained>>
=============================================================================
