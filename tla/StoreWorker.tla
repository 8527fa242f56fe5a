---------------------------- MODULE StoreWorker ----------------------------
(***************************************************************************)
(* The page gives its writes, imports and view checkpoints to a worker     *)
(* (requestStoreWorker in project-store.js) and learns their outcome from  *)
(* its replies or, when the worker is lost, late or fails, from the        *)
(* receipt that the committing transaction left behind                     *)
(* (recoverWorkerOperation).                                               *)
(*                                                                         *)
(* The database outlives the worker: a transaction that is open when the   *)
(* worker is terminated may still commit or abort, and IndexedDB lets a    *)
(* later reader of the same stores wait until it has.                      *)
(***************************************************************************)
EXTENDS Integers, Sequences

CONSTANTS
    Operations,    \* operation identities (crypto.randomUUID)
    None,          \* null: no project, no receipt, no operation
    MaxRevision    \* bound on the revisions of the project

Methods == {"WRITE_PROJECT", "IMPORT_PACKAGE", "SAVE_CHECKPOINT"}
Unsettled == {"pending", "observing", "recovering", "confirming",
              "acknowledging"}
Settled == {"resolved", "unchanged", "unconfirmed", "forgotten"}
Jobs == [op : Operations \cup {None},
         phase : {"idle", "preparing", "open", "committed", "aborted"}]
Replies == [op : Operations, ok : BOOLEAN, revision : Nat \cup {None}]

ASSUME RevisionBound == MaxRevision \in Nat \ {0}
ASSUME NoneIsNothing == None \notin Nat /\ None \notin Operations

VARIABLES
    project,       \* revision of the stored project, or None
    receipts,      \* the revision in the receipt of an operation, or None
    transaction,   \* the operation whose read-write transaction is open
    fresh,         \* operations that have read the project as it still is
    worker,        \* operationWorker: its number, or 0
    spawned,       \* workers started so far
    matching,      \* whether that worker runs the build of the page
    queue,         \* commands posted to the worker and not yet begun
    job,           \* the command the worker is executing
    replies,       \* replies posted to the page and not yet received
    request,       \* the state of each request on the page
    method,        \* the method each request asked for
    sentTo,        \* the worker each request was posted to
    result,        \* the revision each request has found or returned
    clearing,      \* operations whose receipt is being cleared
    committed,     \* history: the revision each operation committed, or None
    needless       \* history: operations found to ask for nothing

database == <<project, receipts, transaction, fresh, committed>>
thread == <<worker, spawned, matching, queue, job, replies>>
page == <<request, method, sentTo, result, clearing>>
vars == <<database, thread, page, needless>>

NoJob == [op |-> None, phase |-> "idle"]

Init ==
    /\ project \in {None, 1}
    /\ receipts = [op \in Operations |-> None]
    /\ transaction = None
    /\ fresh = {}
    /\ worker = 0 /\ spawned = 0 /\ matching = TRUE
    /\ queue = <<>> /\ job = NoJob /\ replies = <<>>
    /\ request = [op \in Operations |-> "unused"]
    /\ method = [op \in Operations |-> None]
    /\ sentTo = [op \in Operations |-> 0]
    /\ result = [op \in Operations |-> None]
    /\ clearing = {}
    /\ committed = [op \in Operations |-> None]
    /\ needless = {}
-----------------------------------------------------------------------------
(* The page posts a command, to a new worker when it has none.             *)

EngageWorker ==
    IF worker = 0
    THEN /\ worker' = spawned + 1
         /\ spawned' = spawned + 1
         /\ matching' \in BOOLEAN
    ELSE UNCHANGED <<worker, spawned, matching>>

Request(op, m) ==
    /\ request[op] = "unused"
    /\ EngageWorker
    /\ queue' = Append(queue, op)
    /\ request' = [request EXCEPT ![op] = "pending"]
    /\ method' = [method EXCEPT ![op] = m]
    /\ sentTo' = [sentTo EXCEPT ![op] = worker']
    /\ UNCHANGED <<database, job, replies, result, clearing, needless>>

\* The command cannot be posted at all.
PostFails(op) ==
    /\ request[op] = "unused"
    /\ EngageWorker
    /\ request' = [request EXCEPT ![op] = "unchanged"]
    /\ UNCHANGED <<database, queue, job, replies, method, sentTo, result,
                   clearing, needless>>
-----------------------------------------------------------------------------
(* The worker executes the commands one after the other.                   *)

Take ==
    /\ worker # 0 /\ matching
    /\ job = NoJob
    /\ queue # <<>>
    /\ job' = [op |-> Head(queue), phase |-> "preparing"]
    /\ queue' = Tail(queue)
    /\ fresh' = fresh \cup {Head(queue)}
    /\ UNCHANGED <<project, receipts, transaction, committed, worker, spawned,
                   matching, replies, page, needless>>

Answers(op, ok, revision) ==
    replies' = Append(replies, [op |-> op, ok |-> ok, revision |-> revision])

\* A worker of another build executes nothing.
TakeForeign ==
    /\ worker # 0 /\ ~matching
    /\ queue # <<>>
    /\ Answers(Head(queue), FALSE, None)
    /\ queue' = Tail(queue)
    /\ UNCHANGED <<database, worker, spawned, matching, job, page, needless>>

\* Refused or failed before its transaction.
Refuse ==
    /\ job.phase = "preparing"
    /\ Answers(job.op, FALSE, None)
    /\ job' = NoJob
    /\ UNCHANGED <<database, worker, spawned, matching, queue, page, needless>>

\* writeOperationalProject: an event already recorded returns the project.
FindNeedless ==
    /\ job.phase = "preparing"
    /\ method[job.op] = "WRITE_PROJECT"
    /\ project # None
    /\ job.op \in fresh
    /\ Answers(job.op, TRUE, project)
    /\ needless' = needless \cup {job.op}
    /\ job' = NoJob
    /\ UNCHANGED <<database, worker, spawned, matching, queue, page>>

OpenTransaction ==
    /\ job.phase = "preparing"
    /\ transaction = None
    /\ project # None \/ method[job.op] # "SAVE_CHECKPOINT"
    /\ transaction' = job.op
    /\ job' = [job EXCEPT !.phase = "open"]
    /\ UNCHANGED <<project, receipts, fresh, committed, worker, spawned,
                   matching, queue, replies, page, needless>>

\* A reply to a command whose transaction has ended, or whose deadline has
\* passed before it has.  After the commit the custody of the files is
\* observed, which may fail.
Reply ==
    /\ \/ /\ job.phase = "committed"
          /\ \E ok \in BOOLEAN : Answers(job.op, ok, committed[job.op])
       \/ job.phase \in {"open", "aborted"} /\ Answers(job.op, FALSE, None)
    /\ job' = NoJob
    /\ UNCHANGED <<database, worker, spawned, matching, queue, page, needless>>
-----------------------------------------------------------------------------
(* The database ends transactions, also those of a worker that is gone.    *)

\* The revision in the receipt.  A view may be saved with a retained version,
\* and a write of a project that is not there creates it.
Revisions(m) ==
    CASE m = "SAVE_CHECKPOINT" -> 1..MaxRevision
      [] m = "WRITE_PROJECT"   -> IF project = None THEN {1}
                                                    ELSE {project, project + 1}
      [] m = "IMPORT_PACKAGE"  -> IF project = None THEN 1..MaxRevision
                                                    ELSE {project + 1}

\* Wrong: the transaction of an earlier worker ends the present command.
JobAborted(phase) == job' = [job EXCEPT !.phase = "aborted"]

JobBecomes(phase) ==
    job' = IF job.op = transaction THEN [job EXCEPT !.phase = phase] ELSE job

\* recordWorkerCommit puts the receipt in the transaction that commits.
Commit ==
    /\ transaction # None
    /\ transaction \in fresh
    /\ \E revision \in Revisions(method[transaction]) :
        /\ revision <= MaxRevision
        /\ project' = IF method[transaction] = "SAVE_CHECKPOINT"
                      THEN project ELSE revision
        /\ receipts' = [receipts EXCEPT ![transaction] = revision]
        /\ committed' = [committed EXCEPT ![transaction] = revision]
    /\ transaction' = None
    /\ fresh' = {}
    /\ JobBecomes("committed")
    /\ UNCHANGED <<worker, spawned, matching, queue, replies, page, needless>>

Abort ==
    /\ transaction # None
    /\ transaction' = None
    /\ JobBecomes("aborted")
    /\ UNCHANGED <<project, receipts, fresh, committed, worker, spawned,
                   matching, queue, replies, page, needless>>

\* Another tab saves, restores, removes or imports the project.
OtherTab ==
    /\ transaction = None
    /\ \/ project # None /\ project < MaxRevision /\ project' = project + 1
       \/ project # None /\ project' = None
       \/ project = None /\ project' \in 1..MaxRevision
    /\ fresh' = {}
    /\ UNCHANGED <<receipts, transaction, committed, thread, page, needless>>
-----------------------------------------------------------------------------
(* The page receives replies, or loses the worker.                         *)

Receive ==
    /\ replies # <<>> /\ matching
    /\ LET r == Head(replies) IN
        /\ request[r.op] = "pending"
        /\ IF ~r.ok
           THEN /\ request' = [request EXCEPT ![r.op] = "recovering"]
                /\ UNCHANGED <<result, clearing>>
           ELSE /\ result' = [result EXCEPT ![r.op] = r.revision]
                /\ IF method[r.op] = "SAVE_CHECKPOINT"
                   THEN /\ request' = [request EXCEPT ![r.op] = "resolved"]
                        /\ clearing' = clearing \cup {r.op}
                   ELSE /\ request' = [request EXCEPT ![r.op] = "observing"]
                        /\ UNCHANGED clearing
    /\ replies' = Tail(replies)
    /\ UNCHANGED <<database, worker, spawned, matching, queue, job, method,
                   sentTo, needless>>

\* Wrong: the worker is forgotten but not terminated.
WorkerStops == worker' = 0 /\ queue' = <<>> /\ replies' = <<>>
                           /\ UNCHANGED job

\* The worker is terminated with everything it has not begun.
StopWorker == worker' = 0 /\ queue' = <<>> /\ replies' = <<>> /\ job' = NoJob

\* Wrong: only the request whose deadline passed is recovered.
RecoverFirst == request' =
    IF \E op \in Operations : request[op] = "pending"
    THEN [request EXCEPT ![CHOOSE op \in Operations : request[op] = "pending"]
                             = "recovering"]
    ELSE request

RecoverPending ==
    request' = [op \in Operations |-> IF request[op] = "pending"
                                      THEN "recovering" ELSE request[op]]

Lost ==
    /\ StopWorker
    /\ RecoverPending
    /\ UNCHANGED <<database, spawned, matching, method, sentTo, result,
                   clearing, needless>>

WorkerFails == worker # 0 /\ Lost
ForeignReply == replies # <<>> /\ ~matching /\ Lost
Deadline(op) == request[op] = "pending" /\ sentTo[op] = worker /\ Lost
-----------------------------------------------------------------------------
(* The outcome of a request.                                               *)

Becomes(op, from, to) ==
    /\ request[op] = from
    /\ request' = [request EXCEPT ![op] = to]

\* observeProjectArtifactCustody of the project a reply has brought.
Observe(op) ==
    /\ \/ Becomes(op, "observing", "resolved") /\ clearing' = clearing \cup {op}
       \/ Becomes(op, "observing", "recovering") /\ UNCHANGED clearing
    /\ UNCHANGED <<database, thread, method, sentTo, result, needless>>

ReadReceipt(op) ==
    /\ request[op] = "recovering"
    /\ transaction = None
    /\ request' = [request EXCEPT ![op] =
           CASE receipts[op] = None             -> "unchanged"
             [] receipts[op] # None /\ method[op] = "SAVE_CHECKPOINT"
                                                -> "acknowledging"
             [] OTHER                           -> "confirming"]
    /\ result' = [result EXCEPT ![op] = receipts[op]]
    /\ UNCHANGED <<database, thread, method, sentTo, clearing, needless>>

\* Wrong: any project will do.
ProjectPresent(op) == project # None

\* The project must be at the committed revision, or beyond it.
ProjectHolds(op) == project # None /\ project >= result[op]

ReadProject(op) ==
    /\ request[op] = "confirming"
    /\ transaction = None
    /\ IF ProjectHolds(op)
       THEN /\ Becomes(op, "confirming", "acknowledging")
            /\ result' = [result EXCEPT ![op] = project]
       ELSE /\ Becomes(op, "confirming", "unconfirmed")
            /\ UNCHANGED result
    /\ UNCHANGED <<database, thread, method, sentTo, clearing, needless>>

\* A read of the recovery fails or passes its deadline.
RecoveryFails(op) ==
    /\ \/ Becomes(op, "recovering", "unconfirmed")
       \/ Becomes(op, "confirming", "unconfirmed")
    /\ UNCHANGED <<database, thread, method, sentTo, result, clearing,
                   needless>>

\* clearWorkerCommit never fails: a receipt it cannot delete stays.
Clears(op) ==
    \/ UNCHANGED receipts
    \/ transaction = None /\ receipts' = [receipts EXCEPT ![op] = None]

Acknowledge(op) ==
    /\ Becomes(op, "acknowledging", "resolved")
    /\ Clears(op)
    /\ UNCHANGED <<project, transaction, fresh, committed, thread, method,
                   sentTo, result, clearing, needless>>

ClearReceipt(op) ==
    /\ op \in clearing
    /\ clearing' = clearing \ {op}
    /\ Clears(op)
    /\ UNCHANGED <<project, transaction, fresh, committed, thread, request,
                   method, sentTo, result, needless>>

\* The page is closed, and its worker with it.
Close ==
    /\ StopWorker
    /\ request' = [op \in Operations |-> IF request[op] \in Unsettled
                                         THEN "forgotten" ELSE request[op]]
    /\ clearing' = {}
    /\ UNCHANGED <<database, spawned, matching, method, sentTo, result,
                   needless>>
-----------------------------------------------------------------------------
Recover(op) == ReadReceipt(op) \/ ReadProject(op) \/ RecoveryFails(op)

Next ==
    \/ \E op \in Operations :
        \/ \E m \in Methods : Request(op, m)
        \/ PostFails(op)
        \/ Deadline(op)
        \/ Observe(op)
        \/ Recover(op)
        \/ Acknowledge(op)
        \/ ClearReceipt(op)
    \/ Take \/ TakeForeign \/ Refuse \/ FindNeedless \/ OpenTransaction \/ Reply
    \/ Commit \/ Abort \/ OtherTab
    \/ Receive \/ WorkerFails \/ ForeignReply \/ Close

Spec == Init /\ [][Next]_vars

\* Every request has a timer (STORAGE_WORKER_TIMEOUT_MS), and every read and
\* every clearing ends or passes its own deadline (STORAGE_IO_TIMEOUT_MS).
Fairness ==
    \A op \in Operations :
        /\ WF_vars(Deadline(op))
        /\ WF_vars(Observe(op))
        /\ WF_vars(Recover(op))
        /\ WF_vars(Acknowledge(op))

FairSpec == Spec /\ Fairness
-----------------------------------------------------------------------------
(* Properties.                                                             *)

\* Every variable keeps its shape, and a worker without a command is idle.
TypeOK ==
    /\ project \in Nat \cup {None}
    /\ receipts \in [Operations -> Nat \cup {None}]
    /\ transaction \in Operations \cup {None}
    /\ fresh \subseteq Operations
    /\ worker \in Nat /\ spawned \in Nat /\ matching \in BOOLEAN
    /\ queue \in Seq(Operations)
    /\ job \in Jobs /\ (job.op = None <=> job.phase = "idle")
    /\ replies \in Seq(Replies)
    /\ request \in [Operations -> {"unused"} \cup Unsettled \cup Settled]
    /\ method \in [Operations -> Methods \cup {None}]
    /\ sentTo \in [Operations -> Nat]
    /\ result \in [Operations -> Nat \cup {None}]
    /\ clearing \subseteq Operations
    /\ committed \in [Operations -> Nat \cup {None}]
    /\ needless \subseteq Operations

\* A request that committed resolves with a project at least as new as its own
\* commit, whether a reply or the recovery brought it.
ResultHoldsCommit ==
    \A op \in Operations :
        request[op] = "resolved" /\ committed[op] # None =>
            result[op] >= committed[op]

\* Whatever becomes of the worker, every request is answered unless the page
\* is closed.
RequestsSettle ==
    \A op \in Operations : request[op] = "pending" ~> request[op] \in Settled

Outcome == [resolved |-> "done", unchanged |-> "unchanged",
            unconfirmed |-> "unconfirmed"]

Reports == INSTANCE ReportedCommands WITH
    changed <- {op \in Operations : committed[op] # None},
    report <- [op \in Operations |-> IF request[op] \in DOMAIN Outcome
                                     THEN Outcome[request[op]] ELSE "none"]

\* A command reported as leaving the project unchanged has not committed and
\* never will, one reported as done has, and none commits twice: the operator
\* may repeat exactly the commands that are reported unchanged.
ReportsAreTrue == Reports!Spec
=============================================================================
