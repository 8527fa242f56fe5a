------------------------- MODULE DeliveryTransfers -------------------------
(***************************************************************************)
(* The transfer of authorized files out of the application, the one thing  *)
(* no version of the project can take back.  A page reads the ledger of    *)
(* transfers kept with the History, records a pending attempt in the       *)
(* project, starts the transfer and records its outcome, each in a         *)
(* transaction of its own; the project may be corrected, authorized anew,  *)
(* restored to a version without the attempt, or its page closed, between  *)
(* any two of them (src/app-core.js, src/workflow-engine.js,               *)
(* src/project-store.js).                                                  *)
(***************************************************************************)
EXTENDS Naturals, FiniteSets

CONSTANTS Tabs,         \* the pages that show the project
          Permitted,    \* permittedTransferCount of every delivery intent
          MaxRevision   \* bound on the saves that are explored

ASSUME DeliveryConstants == Permitted \in Nat \ {0} /\ MaxRevision \in Nat \ {0}

VARIABLES
    project,     \* the stored project
    ledger,      \* historyState.transfers: what the History knows of each command
    kept,        \* a version of the History that may be restored, and the
                 \* ledger a backup made of it would hold
    tab,         \* what each page holds and how far its export has come
    begun        \* history: the commands whose transfer the browser has begun

vars == <<project, ledger, kept, tab, begun>>

None == 0
Results == {"PENDING", "SUCCEEDED", "FAILED", "UNKNOWN"}
Final == {"SUCCEEDED", "FAILED"}

(* A record has the number of the revision that created it: identities are *)
(* derived from the revision and the activation they are allocated in, and *)
(* are never drawn twice.  A project has the release and the evidence its  *)
(* terminal prerequisites rest on, the delivery intents captured for that  *)
(* release, the AUTHORIZED delivery record and the attempts by command.    *)
Ids == 0 .. MaxRevision
Commands == 1 .. MaxRevision
AuthorizedProject ==
    [rev |-> 1, release |-> 1, evidence |-> 1, intents |-> {1},
     auth |-> [id |-> 1, release |-> 1, evidence |-> 1, intent |-> 1],
     attempts |-> <<>>]
Unauthorized == [id |-> None, release |-> None, evidence |-> None, intent |-> None]

Idle(p) == [current |-> p, phase |-> "idle", delivery |-> None, command |-> None,
            seen |-> p, started |-> FALSE]

Init ==
    /\ project = AuthorizedProject
    /\ ledger = <<>>
    /\ kept = [version |-> AuthorizedProject, ledger |-> <<>>]
    /\ tab = [s \in Tabs |-> Idle(AuthorizedProject)]
    /\ begun = {}

(* Exactly one intent must be captured for the current release.            *)
deliveryIntentRecord(p) ==
    IF Cardinality(p.intents) = 1 THEN CHOOSE i \in p.intents : TRUE ELSE None

(* The authorization holds while nothing it was calculated from changed.   *)
deliveryTransferPrecondition(p, delivery) ==
    /\ p.auth.id = delivery
    /\ delivery # None
    /\ deliveryIntentRecord(p) # None
    /\ p.auth.intent = deliveryIntentRecord(p)
    /\ p.auth.release = p.release
    /\ p.auth.evidence = p.evidence

(* A pending or uncertain transfer consumes the permission as well: a      *)
(* crash is no permission to repeat an external side effect.               *)
Consumed(attempts, intent, delivery) ==
    {c \in DOMAIN attempts :
        /\ attempts[c].intent = intent \/ attempts[c].delivery = delivery
        /\ attempts[c].result # "FAILED"}

Exhausted(attempts, p) ==
    Cardinality(Consumed(attempts, deliveryIntentRecord(p), p.auth.id)) >= Permitted

(* The ledger takes over what a version or a backup records of a command,  *)
(* unless it already knows how the command ended.                          *)
TakenOver(transfers, recorded) ==
    [c \in DOMAIN transfers \cup DOMAIN recorded |->
        IF c \in DOMAIN recorded
             /\ (c \in DOMAIN transfers => transfers[c].result \notin Final)
          THEN recorded[c] ELSE transfers[c]]

\* Wrong: the History takes over whatever the project records.
LatestRecorded(transfers, p) ==
    [c \in DOMAIN transfers \cup DOMAIN p.attempts |->
        IF c \in DOMAIN p.attempts THEN p.attempts[c] ELSE transfers[c]]

reconcileRecoveryTransfers(transfers, p) == TakenOver(transfers, p.attempts)

(* A save of a page replaces exactly the version it was computed from, and *)
(* only while the page still shows that revision.                          *)
Replaces(s, base) ==
    /\ project = base
    /\ tab[s].current.rev = base.rev

Install(next, transfers) ==
    /\ project' = [next EXCEPT !.rev = project.rev + 1]
    /\ ledger' = transfers
    /\ kept' \in {kept, [version |-> project', ledger |-> ledger']}

Save(next) == Install(next, reconcileRecoveryTransfers(ledger, next))

Fresh == project.rev + 1
MayRevise == project.rev < MaxRevision
IsIdle(s) == tab[s].phase = "idle"

(***************************************************************************)
(* What a page does with the project between transfers.                    *)
(***************************************************************************)
Edit(s, next) ==
    /\ IsIdle(s) /\ MayRevise
    /\ Replaces(s, tab[s].current)
    /\ Save(next)
    /\ tab' = [tab EXCEPT ![s] = Idle(project')]
    /\ UNCHANGED begun

(* A change upstream leads to another release, for which no intent has     *)
(* been captured, or only to other evidence for the present one.           *)
Correct(s) == Edit(s, [project EXCEPT !.release = Fresh, !.intents = {}])
ReviseEvidence(s) == Edit(s, [project EXCEPT !.evidence = Fresh])
captureDeliveryIntent(s) == Edit(s, [project EXCEPT !.intents = @ \cup {Fresh}])

(* The prior authorization is withdrawn; without a valid intent the new    *)
(* record says BLOCKED.                                                    *)
Authorization(p) ==
    IF deliveryIntentRecord(p) = None THEN Unauthorized
    ELSE [id |-> Fresh, release |-> p.release, evidence |-> p.evidence,
          intent |-> deliveryIntentRecord(p)]
calculateTerminal(s) ==
    /\ ~deliveryTransferPrecondition(project, project.auth.id)
    /\ Edit(s, [project EXCEPT !.auth = Authorization(project)])

(* A restored version brings back its own attempts; the ledger stays.      *)
restoreCheckpoint(s) ==
    /\ IsIdle(s) /\ MayRevise
    /\ tab[s].current.rev = project.rev
    /\ Install(kept.version, ledger)
    /\ tab' = [tab EXCEPT ![s] = Idle(project')]
    /\ UNCHANGED begun

(* A backup brings back its version and merges the ledger it holds.  It is *)
(* compared with nothing the page shows.                                   *)
importPackage(s) ==
    /\ IsIdle(s) /\ MayRevise
    /\ Install(kept.version,
               reconcileRecoveryTransfers(TakenOver(ledger, kept.ledger), kept.version))
    /\ tab' = [tab EXCEPT ![s] = Idle(project')]
    /\ UNCHANGED begun

(* The page is reloaded, or was closed or crashed in the middle of an      *)
(* export, or shows the project again after a refused save.                *)
Reload(s) ==
    /\ tab' = [tab EXCEPT ![s] = Idle(project)]
    /\ UNCHANGED <<project, ledger, kept, begun>>

(***************************************************************************)
(* exportAuthorizedArtifacts.                                              *)
(***************************************************************************)
Moves(s, next) ==
    /\ tab' = [tab EXCEPT ![s] = next]
    /\ UNCHANGED <<project, ledger, kept>>

\* Wrong: the transfers of the project itself are all there were.
LedgerForgotten(s) ==
    deliveryTransferPrecondition(tab[s].current, tab[s].current.auth.id)

(* The authorization is checked in the version the page shows, the         *)
(* permission against the ledger.                                          *)
assertRecoveryTransfer(s) ==
    /\ deliveryTransferPrecondition(tab[s].current, tab[s].current.auth.id)
    /\ ~Exhausted(ledger, tab[s].current)

BeginExport(s) ==
    /\ IsIdle(s)
    /\ assertRecoveryTransfer(s)
    /\ Moves(s, [tab[s] EXCEPT !.phase = "checked", !.delivery = tab[s].current.auth.id])
    /\ UNCHANGED begun

(* recordDeliveryAttempt and its save.  If only the bookkeeping after the  *)
(* commit fails, the page does not know of the attempt it has recorded.    *)
MayRecordPending(s) == Replaces(s, tab[s].current)

WithAttempt(attempts, command, attempt) ==
    [c \in DOMAIN attempts \cup {command} |->
        IF c = command THEN attempt ELSE attempts[c]]

RecordPending(s) ==
    LET attempt == [intent |-> deliveryIntentRecord(tab[s].current),
                    delivery |-> tab[s].delivery, result |-> "PENDING"]
        next == [tab[s].current EXCEPT !.attempts = WithAttempt(@, Fresh, attempt)]
    IN  /\ tab[s].phase = "checked" /\ MayRevise
        /\ ~Exhausted(tab[s].current.attempts, tab[s].current)
        /\ MayRecordPending(s)
        /\ Save(next)
        /\ \/ tab' = [tab EXCEPT ![s].current = project', ![s].phase = "recorded",
                                 ![s].command = Fresh, ![s].started = FALSE]
           \/ tab' = [tab EXCEPT ![s] = Idle(project')]
        /\ UNCHANGED begun

(* The project is read again before the transfer ...                       *)
ReadBeforeTransfer(s) ==
    /\ tab[s].phase = "recorded"
    /\ Moves(s, [tab[s] EXCEPT !.phase = "read", !.seen = project])
    /\ UNCHANGED begun

(* ... which begins if the authorization still holds in what was read, and *)
(* may fail when it has begun.                                             *)
Transfer(s) ==
    /\ tab[s].phase = "read"
    /\ deliveryTransferPrecondition(tab[s].seen, tab[s].delivery)
    /\ \E after \in {"sent", "failed"} :
          Moves(s, [tab[s] EXCEPT !.phase = after, !.started = TRUE])
    /\ begun' = begun \cup {tab[s].command}

(* The project cannot be read, or its authorization has lapsed.            *)
RefuseTransfer(s) ==
    /\ \/ tab[s].phase = "recorded"
       \/ /\ tab[s].phase = "read"
          /\ ~deliveryTransferPrecondition(tab[s].seen, tab[s].delivery)
    /\ Moves(s, [tab[s] EXCEPT !.phase = "failed"])
    /\ UNCHANGED begun

(* Only the pending record of the command takes an outcome.                *)
Completable(s) ==
    /\ tab[s].command \in DOMAIN tab[s].seen.attempts
    /\ tab[s].seen.attempts[tab[s].command].result = "PENDING"

completeDeliveryAttempt(s, result) ==
    [tab[s].seen EXCEPT !.attempts[tab[s].command].result = result]

(* The bookkeeping after the commit may fail, as may the save: then the    *)
(* page goes on as after a failed transfer.                                *)
RecordSuccess(s) ==
    /\ tab[s].phase = "sent" /\ MayRevise
    /\ Completable(s)
    /\ Replaces(s, tab[s].seen)
    /\ Save(completeDeliveryAttempt(s, "SUCCEEDED"))
    /\ tab' \in {[tab EXCEPT ![s] = Idle(project')],
                 [tab EXCEPT ![s].current = project', ![s].phase = "failed"]}
    /\ UNCHANGED begun

(* A save that meets another version shows that version on the page.       *)
FailSuccess(s) ==
    /\ tab[s].phase = "sent"
    /\ \E shown \in {tab[s].current, project} :
          Moves(s, [tab[s] EXCEPT !.current = shown, !.phase = "failed"])
    /\ UNCHANGED begun

ReadAfterFailure(s) ==
    /\ tab[s].phase = "failed"
    /\ Moves(s, [tab[s] EXCEPT !.phase = "reread", !.seen = project])
    /\ UNCHANGED begun

\* Wrong: an interrupted transfer counts as one that failed.
AlwaysFailed(s) == "FAILED"

\* Wrong: the STATUS of an attempt is recorded as its RESULT.
AttemptStatus(s) == "ATTEMPTED"

(* A transfer that began may have had its effect.                          *)
ActualResult(s) == IF tab[s].started THEN "UNKNOWN" ELSE "FAILED"

RecordFailure(s) ==
    /\ tab[s].phase = "reread" /\ MayRevise
    /\ Completable(s)
    /\ Replaces(s, tab[s].seen)
    /\ Save(completeDeliveryAttempt(s, ActualResult(s)))
    /\ tab' = [tab EXCEPT ![s] = Idle(project')]
    /\ UNCHANGED begun

(* The outcome cannot be recorded; the pending attempt stays.              *)
Abandon(s) ==
    /\ tab[s].phase \in {"checked", "failed", "reread"}
    /\ \E shown \in {tab[s].current, project} : Moves(s, Idle(shown))
    /\ UNCHANGED begun

Next ==
    \E s \in Tabs :
        \/ Correct(s) \/ ReviseEvidence(s)
        \/ captureDeliveryIntent(s) \/ calculateTerminal(s)
        \/ restoreCheckpoint(s) \/ importPackage(s) \/ Reload(s)
        \/ BeginExport(s) \/ RecordPending(s)
        \/ ReadBeforeTransfer(s) \/ Transfer(s) \/ RefuseTransfer(s)
        \/ RecordSuccess(s) \/ FailSuccess(s)
        \/ ReadAfterFailure(s) \/ RecordFailure(s) \/ Abandon(s)

Spec == Init /\ [][Next]_vars

(***************************************************************************)
(* Properties                                                              *)
(***************************************************************************)
IsAttempts(attempts) ==
    /\ DOMAIN attempts \subseteq Commands
    /\ \A c \in DOMAIN attempts :
         attempts[c] \in [intent : Ids, delivery : Ids, result : Results]
IsProject(p) ==
    /\ p = [rev |-> p.rev, release |-> p.release, evidence |-> p.evidence,
            intents |-> p.intents, auth |-> p.auth, attempts |-> p.attempts]
    /\ {p.rev, p.release, p.evidence} \cup p.intents \subseteq Ids
    /\ p.auth \in [id : Ids, release : Ids, evidence : Ids, intent : Ids]
    /\ IsAttempts(p.attempts)

(* Every version has identities that have been drawn and attempts by       *)
(* command.                                                                *)
TypeOK ==
    /\ IsProject(project) /\ IsProject(kept.version)
    /\ IsAttempts(ledger) /\ IsAttempts(kept.ledger)
    /\ \A s \in Tabs :
         /\ IsProject(tab[s].current) /\ IsProject(tab[s].seen)
         /\ tab[s].phase \in {"idle", "checked", "recorded", "read", "sent",
                              "failed", "reread"}
         /\ tab[s].delivery \in Ids /\ tab[s].command \in Ids
         /\ tab[s].started \in BOOLEAN
    /\ begun \subseteq Commands

(* Whatever is restored, closed or repeated, and whichever page does it,   *)
(* the transfers begun under one intent never exceed its permission, and   *)
(* the History knows every one of them (the limit of recordDeliveryAttempt *)
(* and assertRecoveryTransfer together).                                   *)
WithinPermission ==
    /\ begun \subseteq DOMAIN ledger
    /\ \A c \in begun :
         Cardinality({d \in begun : ledger[d].intent = ledger[c].intent}) <= Permitted

(* No version and no ledger ever says that a transfer which began has      *)
(* FAILED, which would free its permission, or that one SUCCEEDED which    *)
(* did not begin (completeDeliveryAttempt, reconcileRecoveryTransfers).    *)
TellsTruth(attempts) ==
    \A c \in DOMAIN attempts :
        /\ attempts[c].result = "FAILED" => c \notin begun
        /\ attempts[c].result = "SUCCEEDED" => c \in begun
OutcomesAreTrue ==
    /\ TellsTruth(ledger) /\ TellsTruth(project.attempts)
    /\ TellsTruth(kept.ledger) /\ TellsTruth(kept.version.attempts)

(* The History never forgets a command, and never takes an outcome back,   *)
(* though restored versions record the command as pending again.           *)
OutcomesSettle ==
    [][\A c \in DOMAIN ledger :
          /\ c \in DOMAIN ledger'
          /\ ledger[c].result \in Final => ledger'[c] = ledger[c]]_vars
=============================================================================
