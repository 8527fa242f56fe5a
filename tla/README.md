# A verification of Closed-Loop Reliability

Closed-Loop Reliability is a static browser application (vanilla JavaScript, no
server) that leads one operator through a 30-stage workflow. All of its durable
state is one IndexedDB database, shared by every tab of the browser profile.
This project models that state and the programs that change it in TLA+, checks
the models with TLC on small instances, and proves the central results with
TLAPS for instances of any size.

Sections: [Inventory](#inventory), [Plan](#plan),
[ProjectStore](#projectstore-the-durable-store-of-one-project),
[StoreWorker](#storeworker-the-page-and-its-storage-worker),
[ArtifactCustody](#artifactcustody-which-files-a-tab-holds-to-be-verified),
[ResponseIngestion](#responseingestion-from-a-returned-file-to-accepted-work),
[DeliveryTransfers](#deliverytransfers-what-no-restoration-takes-back),
[TestRuntime](#testruntime-the-execution-of-a-test),
[ProofEvaluation](#proofevaluation-when-a-requirement-is-proven),
[Runs](#runs), [Findings](#findings), [Proofs](#proofs),
[What is not modelled](#what-is-not-modelled).

## Inventory

| Part | State it keeps | Operations | What is hard | What makes it correct | Modelled in |
|---|---|---|---|---|---|
| **Project store** `src/project-store.js` | `projects` row per project (revision, digest), operational journal in `metadata`, recovery state (generation, active entry, entries, redo, sessions), retained snapshots and files, `artifacts` rows, deletion receipts | `readProject`, `replaceProject` (canonical and operational), `saveCheckpoint`, `restoreCheckpoint`, `removeProject`, `exportPackage`, `importPackage` | an operation is a read transaction, a preparation outside any transaction and a committing transaction; other tabs commit in between; a project may be removed and come back | no save is lost; the History never loses a work or its bytes; the row, its journal, its History and its files agree; a stale tab changes nothing | `ProjectStore` |
| **Operator actions** `src/app-core.js` | per tab: `current`, the targets of Undo and Redo, the pending action | save, file intake, view capture, restore, remove, reload, conflict refresh | a tab shows a version that may be stale; bookkeeping fails after a commit; clean-up of a failed intake | what a tab reports agrees with what was committed | `ProjectStore`, `ResponseIngestion`, `DeliveryTransfers` |
| **File storage and custody cache** `project-store.js:24-57, 1027-1047` | `artifacts` rows; a per-context cache of verified identities with invalidation epochs | `putArtifact`, `getArtifact`, `deleteArtifact`, `listArtifacts`, observation and invalidation | an observation started before a change is recorded after it | the cache says "verified" only for bytes that are stored | `ArtifactCustody` |
| **Store worker** `project-store.js:85-114, 1532-1541` | pending requests of the page, queue of the worker, operation receipts in `metadata` | request, commit, reply, loss, timeout, recovery from the receipt | the worker is lost after its transaction committed | a committed command is reported as committed, never repeated | `StoreWorker` |
| **Database connection** `project-store.js:62-81, 145-176` | connection promise and handle, per-request deadline | open, upgrade, block, expire, reset, reopen | a native event after its deadline; two opens at once | one connection; a late event never settles a request twice | – |
| **Quarantine** `project-store.js:265-321` | preserved rows and their catalogue | quarantine, list, export, remove | a damaged row is replaced while it is quarantined | a healthy row is never quarantined; a damaged one is never lost | – |
| **Creation and allocation** `project-store.js:920-968`, `workflow-engine.js:84-193` | allocation generation, sequence and receipts; copy receipts | `createProject`, copy, `restoreProjectAllocation`, `allocateRecordIdentity` | two creations race; a command is retried; an import brings an allocation | an identity names one project; a repeated command has one effect | – |
| **Workflow engine** `src/workflow-engine.js` | 30 stages, record collections, accepted changes, iterations | gates, `recalculate`, `invalidateDownstream`, release, convergence | a change upstream makes what was derived from it stale, in a dozen collections | no stage stays complete, and no work accepted, on authority that is gone; a stage is complete only on proofs that stand | `StageWorkflow`, `ProofEvaluation` |
| **Reservations and delivery** `workflow-engine.js:2539-2621, 2811-2859` | operation reservations, delivery attempts and their evidence | reserve, run, expire, defer; attempt, outcome, retry | a retry of an attempt with unknown outcome; a restored version that does not know of it | no intent is exceeded; what is recorded of a transfer is true | `StageWorkflow`, `DeliveryTransfers` |
| **Response ingestion** `src/response-ingestion.js` | raw responses, proposals | `captureRaw`, `prepare`, `commit`, `reject`, `abandon` | a proposal validated against one project is accepted against another; responses arrive while a review is open | an accepted change is a valid, current proposal; nothing is lost unseen | `ResponseIngestion` |
| **Test runtime** `src/test-runtime.js`, `test-worker.js` | a worker per execution, its deadline, the outputs of its steps | validate, compile, execute, settle, terminate | an answer races its deadline; validation and execution are separate passes | an execution settles once; what is reported satisfied or violated is what the assertions mean | `TestIR`, `TestRuntime` |
| **Hashing, prompts, workbook, schema** | none | pure functions and tables | | | – |
| **Page shell, build and verification scripts** | none of the program's | | | | – |

Tabs interact through the database only: IndexedDB runs read-write transactions
with overlapping stores one after another, and a `BroadcastChannel` message
merely invalidates caches. Every safeguard against another tab is therefore a
comparison inside a committing transaction: the row's digest and revision, and
the History's generation.

## Plan

Most important behaviour first. Done:

1. `ProjectStore` with the abstract `VersionedProject`: the store of one project
   under several tabs.
2. `StoreWorker` with the abstract `ReportedCommands`: requests, replies, loss of
   the worker, receipts and recovery.
3. `ArtifactCustody`: the custody cache, its epochs, the channel between tabs and
   the files underneath.
4. `StageWorkflow` and `ResponseIngestion`, which extends it: the stages of a
   project, and the way of a response to accepted work.
5. `DeliveryTransfers`: the export of authorized files and the ledger that keeps
   it from being repeated.
6. `TestIR` and `TestRuntime`: the test language, and one execution.
7. `ProofEvaluation`: proof expressions over evidence that comes and goes, and
   the gates that ask for them.

Theorems, done, in this order:

8. `DeliveryTransfers` (permission, outcomes), `ArtifactCustody` (custody and
   decisions) and `TestRuntime` (validation, determinations, settlement).
9. `ProjectStore`: what the History retains and offers, revisions, files, what a
   tab may replace, and the refinement of `VersionedProject`.
10. `ResponseIngestion` (completion, upstream work, responses, reviews) and
    `ProofEvaluation` (verdicts, deferrals, completion).

With them every safety property that a passing run checks is proved; what is
left to TLC is said at the end of [Proofs](#proofs).

Open, of less weight: creation and allocation of projects; the database
connection with its late events, and the quarantine; the release disposition and
the deferred executions of the workflow engine. What each would show is said
under [What is not modelled](#what-is-not-modelled).

## ProjectStore: the durable store of one project

`ProjectStore.tla` models one project, any number of tabs, and every operation
that reads or changes the project. `VersionedProject.tla` states what the store
promises of it: a current work and a growing set of retained works; work is
saved on top of the current work, replaced by a retained work, or removed.

### State

| Variable | In the code |
|---|---|
| `row` | the row of `projects` with its revision and digest; `None` when removed |
| `journal` | `operationalKey(id)` in `metadata`: operational events (responses, exports) recorded on top of the row without advancing its revision |
| `hist` | `historyKey(id)`: `gen` (`generation`), `active` (`activeId`), `head` (`activeProjectSha256`), `entries` (descriptors with their snapshots and retained files), `redo`, `override` (`activeViewOverride`), `removed`, `activeRev` (`activeRevision`) |
| `files` | identities of the `artifacts` rows |
| `receipts` | revisions that have a receipt under the default deletion key |
| `package` | the last exported backup |
| `tab[s]` | what tab `s` holds as `current` |
| `shown[s]` | the versions its Undo and Redo buttons were painted with |
| `cmd[s]` | the operation in progress: its phase, what it read, what it will commit |

A project state (`Version`) is its revision, its activation identity and three
sets of changes: edits of the canonical work, files it refers to, operational
events. The code compares SHA-256 digests; the model compares the records the
digests are computed from (`projectSha256`: the whole record;
`historyWorkSha256`: without revision and activation). An edit only adds to the
work, so that losing one is visible.

### Actions

Every operation is cut where the code awaits a transaction:

| Step | Action | Code |
|---|---|---|
| start, read | `Submit`, `SubmitStale`, `StoreFile`, `BeginView`, `BeginRestore`, `BeginRemove`, `BeginImport` | `persistReplacement`, `storeArtifactFile`, `captureCurrentView`, `restoreHistoryVersion`, `deleteCurrentProject`, `readProject` |
| prepare | `PrepareWrite`, `PrepareView`, `PrepareStaleView`, `PrepareRestore`, `PrepareRemove`, `PrepareImport`, `PrepareImportOverDamage` | `prepareProjectWrite`, `saveCheckpoint`, `removeProjectIndexed` through `prepareHistoryCommit`; `restoreCheckpoint`, which updates the recovery state itself; `importPackage`, which does both |
| commit | `CommitWrite`, `CommitOperate`, `CommitView`, `CommitActivation`, `CommitRemove` | the read-write transactions, each with `commitHistory` |
| conclude | `AcknowledgeRemoval`, `CommitStale`, `Resync`, `Abandon`, `DeleteFile`, `Refresh`, `FailBoundary`, `Reload`, `Export` | receipts, `STALE_PROJECT_REVISION`, failures, `refreshHistory`, `recordCommittedBoundary`, `load`, `readExportSnapshot` |

- `Abandon` is any refusal or failure before the commit (limits, custody, a
  changed generation, a lost database, an aborted transaction); `Reload` is the
  page closed or crashed at any point, so crash and restart may happen between
  any two steps.
- `captureCurrentView`, which the page runs before and after an operation, is
  the separate operation `VIEW`: it is skipped when the view was already saved,
  so an operation may run with or without it.
- The History and the files of a preparation are read in one step. The code
  reads them in several, but entries are immutable and the generation is
  compared again in the commit.
- A removal assumes the replacement project that the page selects is the same
  each time: the deletion payload contains it, and with another one the store
  answers `IDEMPOTENCY_PAYLOAD_CONFLICT` instead.
- A backup is one this browser exported, so its entries are still retained.
- An import first retains the project it replaces. If stored bytes of that
  project are missing (after failing bookkeeping they may be), the code prepares
  it once more with the files of the active entry, provided that entry holds
  exactly its work, and refuses the import otherwise: `PrepareImportOverDamage`.
  Here bytes are missing, never altered. The failing and the second preparation
  are one step; nothing can come between them that the commit would not refuse,
  since it compares the head and the generation, and neither entries nor the
  identities of files are ever reused.

## StoreWorker: the page and its storage worker

`StoreWorker.tla` models one page, its worker and the database between them: how
the outcome of a command reaches the operator. `ReportedCommands.tla` states the
promise: a command changes the project at most once; it is reported as done only
if it took effect, and as leaving the project unchanged
(`existingProjectsUnchanged: true`) only if it did not and never will;
otherwise it is unconfirmed. What a command does to the project is reduced here
to the revision it commits.

| Variable | In the code |
|---|---|
| `project`, `receipts` | the revision of the row; `storageOperation:<id>` in `metadata` |
| `transaction` | the read-write transaction a command has open; IndexedDB runs one at a time |
| `fresh` | commands whose first read still describes the project: the digest and generation comparisons of their transaction would succeed |
| `worker`, `spawned`, `matching` | `operationWorker`, numbered; whether it loaded the build of the page |
| `queue`, `job`, `replies` | the message queue of the worker, the command it executes, its messages to the page |
| `request`, `method`, `sentTo`, `result`, `clearing` | the entries of `workerRequests`, the settlement of their promises, receipts still to be cleared |
| `committed`, `needless` | history: what each command really did |

A request goes `pending` to `observing` (a reply arrived; the custody of the
project's files is observed) or to `recovering` (the reply was a failure, or the
worker was lost), then by the receipt to `unchanged`, `acknowledging` or
`confirming` (the project must still hold the commit), and ends `resolved`,
`unchanged` or `unconfirmed`; a closed page leaves it `forgotten`. One function
of the code, `lost`, serves errors of the worker, replies of another build and
expired deadlines (`WorkerFails`, `ForeignReply`, `Deadline`).

Assumed of the browser: a terminated worker opens no further transaction; one it
had open may still commit or abort; and a transaction on `metadata` that starts
later waits for it. `recoverWorkerOperation` relies on all three, since it takes
a missing receipt as final. A write whose project is not there creates it. In
the model this may also happen after a removal, which the allocation of
identities excludes: one behaviour more, for which the properties still hold.
The read of a retained checkpoint, by which the recovery of a saved view ends,
is a read that may fail.

## ArtifactCustody: which files a tab holds to be verified

Before a save derives the stages again, it must know which stored files are
intact. Reading and hashing them is slow, so each context keeps a cache
(`artifactCustody`), which this module models together with the `ARTIFACTS` rows
of one project and every operation on them.

| Variable | In the code |
|---|---|
| `stored` | the rows: absent, sound, or damaged since they were written |
| `custody[t]`, `epoch[t]` | `artifactCustody` and `custodyInvalidations` of the project, in tab `t` |
| `op[k]` | an operation under way: what it does next, the files it is about, the epoch it captured, the rows read and not yet hashed |
| `inbox[t]` | `PROJECT_CHANGED` messages on their way |
| `untold[t]` | files changed without a word to `t` (see below) |
| `context` | `STORE_CONTEXT_ID`: a page and its worker share one and ignore each other's messages |
| `held[k]` | history: what was stored intact at some time since a save began |

An operation is cut at every transaction and at every hash: `BeginGet`,
`BeginList`, `BeginPut`, `BeginDelete`, `Restore`, `Remove`, `BeginWrite` start
one; `Read`, `Put`, `Delete`, `Cleanup` are its transactions, `Observe` the end
of one hash (`observeArtifactCustody`), `Announce` the notification after a
commit; `Decide` is the point at which a save uses the cache. `Hear` delivers a
message, `Close` ends a page anywhere, `ReadFails` is a storage deadline.

No message reaches a tab if the page that committed died before it could send
one, if a restoration failed after its commit, or if sender and receiver are a
page and its worker. `untold` records exactly these silences:
`CustodyMeansStored` says that the cache is right but for them, and
`DecisionsAreFresh` that a save is right all the same.

## ResponseIngestion: from a returned file to accepted work

`StageWorkflow.tla` has the rules of `workflow-engine.js` that each command
obeys, as operators on a project record: completeness of stages (`gate`,
`recalculate`), the version of the human input that a stage sees, what a change
invalidates (`invalidateDownstream`, `invalidateStageForAuthorityChange`),
reservations, and what a save does (`Saved`) and would lose
(`RequiresConfirmation`). `ResponseIngestion.tla` extends it with the operator's
commands and the way of a response.

| Variable | In the code |
|---|---|
| `project` | the stored project: `inputVersions`, `generatedPrompts` with their reservations, `rawResponses`, `responseProposals`, `acceptedChanges`, requests, blockers, failures, the confirmation of stage 1, complete stages, `restoredCandidates` |
| `review` | `replacementReview`: a candidate prepared from a base, and what the operator was shown of it |
| `kept` | a version of the History |

| Action | Code |
|---|---|
| `SaveIntake`, `SaveFields`, `Answer` | `saveJob`, `registerStageFiles`; `saveHumanStageFields`; `answerHumanInput` |
| `Block`, `Unblock`, `ConfirmStageOne` | `addBlocker`, `resolveHumanBlocker`, `confirmStageOne` |
| `Prompt`, `Export` | `savePromptRecord`, `saveRequiredContinuation`; `recordInstructionExport` |
| `Capture`, `Validate` | `prepareStageResponseFile`, `captureRaw`, `prepareCaptured`, `validateReturnedResponse` |
| `Accept`, `Dismiss` | `acceptPendingProposal`, `acceptanceImpact`, `commit`, `prepareStageContinuation`; `rejectPendingProposal`, `discardCurrentAttempt` |
| `Keep`, `Confirm`, `Restore` | `keepCurrentProgress`, `confirmReplacement`, `restoreCheckpoint` with `bindRestoredCandidates`; a restoration ends with no open review (the view of a version may bring one back) |

A stage has one operation here, and at most one request, blocker, human blocker
and failure; what the gates of single stages ask of their records is reduced to
accepted data being there. A response is its type, its layout and the
instruction it names. `Accept` is one step because its save compares the state's
digest with the one it read; a destructive change is cut at the review, which
stays open while other responses come in. `Persist` decides which of the two
happens, by comparing what would be lost.

## DeliveryTransfers: what no restoration takes back

Authorized files leave the application through the browser, once per permission
of an intent. The project records attempts and can be restored to a version that
does not know of them; `historyState.transfers`, the ledger, is kept with the
History for that reason.

| Variable | In the code |
|---|---|
| `project` | the release and the evidence it rests on, delivery intents for that release, the current delivery record, `deliveryAttempts` |
| `ledger` | `historyState.transfers` (`reconcileRecoveryTransfers`) |
| `kept` | a retained version, and the ledger a backup made at that time holds |
| `tab[s]` | `current` of a page and how far its export has come |
| `begun` | history: commands whose transfer really began |

`exportAuthorizedArtifacts` is cut at its awaits: `BeginExport`
(`assertRecoveryTransfer`), `RecordPending` (`recordDeliveryAttempt` and its
save), `ReadBeforeTransfer`, `Transfer` or `RefuseTransfer`, `RecordSuccess` or
`FailSuccess`, `ReadAfterFailure`, `RecordFailure` (`completeDeliveryAttempt`),
`Abandon`. In between, either page may correct the project (`Correct`,
`ReviseEvidence`), capture an intent, calculate the terminal authorization anew,
restore a version, import a backup, or be reloaded.

Identities are the revisions that created them: `allocateRecordIdentity`
includes the revision and the activation, so none is drawn twice. A transfer
whose version changed before its outcome could be recorded stays pending, in the
code as here; this errs on the safe side, and only a new intent permits another.

## TestRuntime: the execution of a test

`TestIR.tla` is the test language: the registry of operations with their typed
ports, the validation of a specification as an acyclic graph, the compilation of
the older linear form, and what a step computes. `TestRuntime.tla` is one
execution: the page (`page`, `report`), its worker (`worker`, `next`, `outputs`)
and the answers between them, with the builds of both. Actions of the page are
`Execute`, `Unavailable`, `Deadline`, `WorkerError` and `Receive`, all settling
through `Finish`; of the worker `Begin`, `ExecuteStep` and `Conclude`.

A file says whether it decodes and what its text parses to; CSV, XML, regular
expressions, selectors and the decimal and approximate modes of comparison have
their ports and types here and not their computations. `COMPARE` only
compares for equality, `SORT` only sorts numbers upwards, and `ASSERT_SET_EQUAL`
has no limit on its collections; a text contains only itself. No property rests
on these. `Meaning`, the reference
for the worker, gives every step its value whether or not an earlier assertion
ends the execution.

## ProofEvaluation: when a requirement is proven

The author of stage 6 returns a verification suite: for every proposition a proof
expression (`ALL_OF`, `ANY_OF`, `AT_LEAST_K` over tests, propositions, proof
obligations and applicability), with the stage from which each leaf may be
evaluated and the stage by which it must be. A reviewer accepts or disputes the
suite; later stages bring evidence for and against. After every command the
engine derives the verdict of each proposition and the complete stages.

| `project.` | In the code |
|---|---|
| `suite`, `version` | `tests`, `proofExpressions`, `applicabilityRecords`, `propositions`; a new suite is a new version |
| `reviews` | current `semanticReviews` of stage 6; `buildProofReviewSnapshot` counts those of exactly the present suite |
| `evidence` | accepted `entailmentReviews`, each with its observation of a test |
| `ran` | tests with a deterministic result on the current product |
| `done`, `complete`, `stage` | stages with accepted work, with status `COMPLETE`, and `CURRENT_STAGE` |
| `verdict` | `TRUTH_VALUE` and `STATUS` of the propositions |

Commands are `Author` (returned anew or as a reconciliation, which retires the
reviews), `Review`, `Work` of a later stage and `RunNativeTest`
(`runNativeStage22Tests`, `recordNativeProofResult`), each with the recalculation
of the command and that of its save. The first three end what later stages
returned; a native result does not, so it may refute what a later, complete stage
relied on. A dispute ends with a new suite only: `semanticReviewBlocks` also
exempts one that is recorded as reconciled, which no command records
(`response-ingestion.js:551` writes `REQUIRED` or `NOT_REQUIRED`). The gates of a
recalculation see the current stage of the one before,
and the verdicts the new one, as in the code.

There are two evaluations: `ProofTruth` (`evaluateCurrentProof`) for the verdict,
and `StageProofTruth` for the gate, in which a leaf that is not required yet is
`DEFERRED`. Both are recursive functions over the nodes of a suite. The
properties compare them with `Proves`, an expression in two-valued logic over a
set of leaves.

The code as it stands gives a prerequisite that has an expression the value of
that expression alone (`workflow-engine.js:2411`): while a proposition that was
directly refuted is itself never `SATISFIED`, what needs it may be. The model
does the same, and `VerdictsAreExact` is stated accordingly.

Of a suite the review speaks as a whole; two phases stand for the twelve
verification phases (the iteration's, always available, and the product's,
available once a product is accepted and its bytes verified); an applicability
is known. Left out are the view of the corrected iteration at stage 18
(`correctedIterationProofView`), which differs only while a confirmation iteration
runs, and deferred executions.

## Runs

Each `MC` module instantiates its model; a `.cfg` chooses the bounds and, for
`ProjectStore`, the operations (`Commands`) its question needs.

| Run | Instance | Distinct states | Shows |
|---|---|---|---|
| `history` | edits, views, Undo, Redo, from stale buttons | 1.59 M | `RedoOffersOnce`, `UndoneWorkRedoable`, `ViewsKeepRedo` |
| `returns` | intakes, History restorations, removal | 0.64 M | `ReferredFilesStored`, `OnlyHeldProjectReplaced`, `RevisionAdvances` |
| `backup` | intakes, events, removal, export, import, failing bookkeeping, import over missing bytes | 1.34 M | `NoLostUpdate`, `JournalBound`, `ActiveEntryHoldsWork`, `HistoryBindsHead`, `ReplacedWorkRetained`, `RetainedVersionsImmutable`, `TypeOK`, `ImplementsPromise` |
| `worker` | two commands of any of the three methods | 0.84 M | `ReportsAreTrue`, `ResultHoldsCommit`, `RequestsSettle`, `TypeOK` |
| `custody` | a tab with two operations beside one with one, over one file | 2.85 M | `CustodyMeansStored`, `DecisionsAreFresh`, `TypeOK` |
| `ingestion` | two stages, from the middle of a project | 0.19 M | `CompleteIsEarned`, `NoOrphanedWork`, `AcceptsCurrentWork`, `ShownBeforeLost`, `ResponsesKept`, `TypeOK` |
| `delivery` | two pages, one permitted transfer per intent | 1.58 M | `WithinPermission`, `OutcomesAreTrue`, `OutcomesSettle`, `TypeOK` |
| `tests` | linear forms and graphs over four kinds of file | 0.04 M | `DeterminationEarned`, `ValidationIsSound`, `SettledForGood`, `ExecutionsSettle`, `TypeOK` |
| `proofs` | twelve suites over two propositions and two tests | 0.02 M | `VerdictsAreExact`, `DeferralsAreHonest`, `CompletionIsProven`, `TypeOK` |
| `removal` | removal, export, import | violation | `ReportedRemovalRemoves` fails |
| `boundary` | intakes with failing bookkeeping | violation | `ReferredFilesStored` fails |
| `duplicate` | one stage asked and answered in two layouts | violation | `ReturningAgainIsHarmless` fails |

Definitions whose comment begins with "Wrong:" are deliberate errors (a dropped
guard, a forgotten file, a lost reset). They are no part of any `Next`; each
shows that some property would notice that error.

**Store.** Two tabs suffice for every race of two commits; they are
interchangeable and no definition chooses among them, so symmetry is sound (none
of these runs checks liveness). `MaxCheckpoints` stands for `HISTORY_LIMITS` (the
byte limits are refusals of the same kind) and is low enough that the History
fills up. `MaxGeneration`, `MaxActivations` and `MaxFiles` only bound
exploration: with `MaxGeneration` = 5 four commits follow creation, which covers
save, Undo, Redo and a further save, or intake, removal, restoration and another
intake, each interleaved with an operation of the other tab. One or two edits,
one event and two views distinguish every case of `prepareHistoryCommit`.
Deadlock is checked: `Reload` is always possible.

**Worker.** Two commands suffice for one to wait behind the other, to be lost
with it, and to run in a second worker while the transaction of the first is
still open. `MaxRevision` = 3 lets both commit and lets the project be removed
and come back below a commit.

**Custody.** The cache treats files independently but for the invalidation of
all at once, which one file shows; a race needs an operation that hashes and
another that changes the file, in the same tab and in different ones, hence three
threads in two tabs. `MaxEpoch` = 2 invalidations separate "before", "between"
and "after" for an observation. The two tabs are two pages or a page and its
worker; only the two threads of one tab are symmetric.

**Ingestion.** Two stages have an upstream and a downstream. Reaching the
interesting states from a new project takes some ten commands, so the run starts
in two projects that those commands produce (`MidwayProject`,
`ReturningProject` of the `MC` module, built with the operators of the model),
with two and one canonical saves left (`MaxRevision` = 9) and operational saves
in between; `duplicate` starts from a new project. `kept` is replaced at any
save, so any version of the behaviour may be restored. Deadlock is not checked:
an operator may rest, and the bounds end a behaviour.

**Delivery.** `MaxRevision` = 7 leaves six saves: an attempt, its outcome, a
restoration, a new authorization and a second attempt, in either page. One
permitted transfer is the strictest limit. Deadlock is checked: `Reload` is
always possible. Versions, backups and the two pages together make the ledger
meet every combination of known and unknown outcomes.

**Tests.** `SafeMax` = 6 lets a sum of three items leave the safe integers and
come back, `MaxSteps` = 7 and `MaxItems` = 3 are met and exceeded. The graphs
refer to earlier, later and missing steps. A settled execution stops, hence
`CHECK_DEADLOCK FALSE`.

**Proofs.** Two propositions, one with an expression of its own or without, and
two tests, one due before convergence (stage 18) and one of the product, give
every operator a deferred, an open and a decided child at once; each suite has an
operator inside an operator. Six of the stages from 6 to 30 remain: the author's,
two that bring evidence, convergence, the product and a last one. `MaxVersion` = 2
lets a suite be replaced after it was reviewed, `MaxEvidence` = 3 pieces of
evidence establish, refute and contradict. Deadlock is not checked: the bound on
evidence may end a behaviour.

**Fairness.** None for `ProjectStore`, `ArtifactCustody`, `ResponseIngestion`,
`DeliveryTransfers` and `ProofEvaluation`, whose properties are safety properties: an operator is never
obliged to act, and a browser may always be closed. `FairSpec` of `StoreWorker`
assumes weak fairness of each request's deadline (`STORAGE_WORKER_TIMEOUT_MS`)
and of each read and clearing of its recovery, which ends or passes its own
deadline (`STORAGE_IO_TIMEOUT_MS`, `storageEvent`); `RecoveryFails` is always
possible, so fairness never forces a read to succeed. Nothing is assumed of the
worker, which may hang, nor of its transactions: `RequestsSettle` holds because
every timer ends in `lost`, and `lost` recovers every pending request. `Spec` of
`TestRuntime` assumes that the page executes the test it was given and that its
timer fires (`setTimeout` in `executeTest`); again nothing of the worker.

## Findings

1. **A removal that removes nothing** (`removal`). `removeProject` derives its
   default idempotency key from the project and the expected revision
   (`project-store.js:1000`) and answers from the receipt before reading the
   project. An import does not continue from the revision of the removed project
   (`project-store.js:1371`; `restoreCheckpoint` does, line 737), so the imported
   project can reach a revision that was already removed once. Its removal is
   then reported as done, while the project stays. The reused revision has a second
   consequence: `restoreCheckpoint` expects only a revision
   (`project-store.js:738`), so the Undo of a tab that holds revision *n* of the
   removed project replaces an imported revision *n* it never read. TLC shows it
   as a violation of `OnlyHeldProjectReplaced` in an instance with the commands
   `WRITE`, `REMOVE`, `EXPORT`, `IMPORT` and `HISTORY`, `MaxGeneration` = 6 and
   `MaxActivations` = 3.
2. **Bytes deleted after a commit** (`boundary`). If the refresh of the History
   fails after the commit of a file intake, `persistReplacement` rethrows
   (`app-core.js:298-303`) and `registerStageFiles` deletes the bytes that the
   committed project refers to (`app-core.js:1022`).
3. **Returning a response twice spoils it** (`duplicate`). A response that repeats
   the one under review, laid out differently, is put aside with the digest of the
   original. On acceptance the original is validated again, meets its repetition
   and is refused as stale (`response-ingestion.js:477`); it can only be rejected
   or abandoned. The tests repeat identical bytes only, which are not captured
   twice.

`OnlyHeldProjectReplaced` and `ReferredFilesStored` hold in the `returns` run,
without import and without failing bookkeeping: findings 1 and 2 are exactly
what breaks them. Both are proved under just those conditions, for any number of
tabs and files and any bounds (`OnlyHeldReplaced` where `NoReturnAfterRemoval`,
`ReferredFilesKept` where `~BoundaryFails`).

## Proofs

TLAPS proves every invariant and action property of the passing runs, and both
refinements, for instances of any size. Each theorem follows from an inductive
invariant of its module; TLC checked each such invariant on an instance before it
was proved. Where a theorem has a condition, the section says which state or
finding makes it necessary.

Two things recur. Induction over numbers is done with the least-number principle
(`SmallestOf`, from the library's `WFMin`): the smallest number for which a claim
fails is shown not to fail. And a recursive function is only known to obey its
equation once a function that does is shown to exist; where a model computes with
one (`Without`, `Meaning`, the values of a proof expression), a lemma builds it
from its restrictions.

### ProjectStore

`ProjectStore_proofs.tla` and `ProjectHistory_proofs.tla`, for any sets of tabs,
edits, events and views, any operations and any bounds, under the two assumptions
on constants of `ProjectStore` (`ConstantsOK`, `NoneIsDistinct`: `None` is not a
record or a view):

| Theorem | Property | Condition |
|---|---|---|
| `TypesKept` | `TypeOK` | |
| `HeadAlwaysBound` | `HistoryBindsHead` | |
| `JournalAlwaysBound` | `JournalBound` | |
| `NothingLost` | `NoLostUpdate` | |
| `RetainedKept` | `RetainedVersionsImmutable` | |
| `ActiveWorkHeld` | `ActiveEntryHoldsWork` | |
| `RedoUnique` | `RedoOffersOnce` | |
| `ReplacedKept` | `ReplacedWorkRetained` | |
| `ViewsCostNoRedo` | `ViewsKeepRedo` | |
| `UndoneWorkKept` | `UndoneWorkRedoable` | |
| `StoreImplementsPromise` | `ImplementsPromise` | |
| `StoredRevisionsAdvance` | a stored project's row is replaced by a later revision | |
| `RevisionsAdvance` | `RevisionAdvances` | `NoReturnAfterRemoval` |
| `OnlyHeldReplaced` | `OnlyHeldProjectReplaced` | `NoReturnAfterRemoval` |
| `ReferredFilesKept` | `ReferredFilesStored` | `~BoundaryFails` |

The first five rest on `IInv`. `HistoryBindsHead` alone is not inductive: a commit
installs a plan prepared earlier, so the invariant must say of every operation
that is ready to commit what its plan promises:

- `EntriesRetained`: the active entry of the History, the one a backup names and
  the one an import in progress returns to are all entries of the History;
- `OperationsBound`: a plan was prepared from a History of some generation; if
  that is still the generation, the plan follows the present History (it extends
  its entries and its active entry exists), its generation is higher, and its
  head is the project the operation will install (for a view: the project that
  was read, or the present head);
- `ActivationsDrawn`: every activation identity in the store or in an operation
  has been drawn, so a restored project can be told from every earlier one;
- `JournalBound`, whose base is the row.

A commit strictly increases the generation. That makes every other prepared
operation unable to commit, which is why its bound may lapse; this is the whole
reason the code keeps a generation, and the step where the proof would fail
without it. `NoLostUpdate` follows from the digest comparison in the commit
together with what a submission adds to the version it read (`SaveStores`).

`HInv` stands on `IInv` and says what a plan does to works (`PlanHolds`): the
active entry of the plan holds the work the commit will leave and the bytes of
its files, every work in it is a retained one or that one, nothing can be redone
twice, an activation brings back a retained work under a revision that exceeds
the one it replaces, an Undo leaves the active entry first in Redo and every
version that could be redone behind it (`RedoesUndone`). As before this binds an operation only while its generation
and the project it read are current. `EntriesWhole` (an entry has the bytes of
all files its version refers to) is what the commit's retention check gives; it is
also why an import over missing bytes retains what it replaces with the bytes of
the active entry (`ImportsOver`). `UndoneWorkKept` is about the step in which an
Undo commits: the entry first in Redo holds the work it leaves because the active
entry of the generation it was prepared from held that work.
`StoreImplementsPromise` maps every transaction to a save, a return, a removal or
a stutter of `VersionedProject`; a removal is recognised there by a mark of its
own (`RemovedWork`), since works are sets of changes.

`FInv` stands on both and follows a file from its intake: the identity is new,
its bytes are stored before any project refers to it, only the tab that took it
in may delete it, and only while no retained work refers to it. `ReferredFilesKept`
needs `~BoundaryFails`: a tab whose bookkeeping fails after its commit takes the
intake for a failed one, and the invariant breaks in exactly the step the
`boundary` run shows.

`RInv` stands on `IInv` and `HInv` and relates tabs to revisions. The recovery
state's last revision is that of the row (`activeRev`); no tab is ahead of it; a
tab with the row's revision holds the row's activation; what a restoration read
has the revision of its tab. A restoration compares revisions only
(`project-store.js:738`), so what makes it safe is that a revision is never used
twice, and that is lost when a backup is imported after a removal (finding 1).
`NoReturnAfterRemoval` excludes just that: the operators of the instance import
or remove, not both. `StoredRevisionsAdvance` needs no condition: as long as a
project is stored its revisions advance.

### StoreWorker

`StoreWorker_proofs.tla` proves, for any set of operations and any bound on the
revisions, under `RevisionBound` and `NoneIsNothing` (`None` is neither a number
nor an operation):

| Theorem | Property |
|---|---|
| `TypeCorrect` | `TypeOK` |
| `ResultsHoldCommits` | `ResultHoldsCommit` |
| `ReportsImplement` | `ReportsAreTrue`, the refinement of `ReportedCommands` |

The inductive invariant follows a command: untouched while it waits in the queue
(`QueueWaits`), pending and unanswered while it runs (`JobRuns`), truthful in its
reply (`RepliesTrue`). `OpenIsUnreported` is the heart: whatever has an open
transaction, also one of a terminated worker, has been reported neither as done
nor as unchanged. It survives the reading of a receipt only because the reader
waits until no transaction is open. `ReceiptsHeld` says that until a request
resolves its receipt is its commit, and `FoundTrue` that the page proceeds only
with commands that took effect. `AnswerKeeps` and `MoveKeeps` treat what several
actions share; `StepReports` maps every step to a step of `ReportedCommands` or
to a stutter.

### ArtifactCustody

`ArtifactCustody_proofs.tla`, for any number of tabs, threads and files and any
bound on epochs: `TypeCorrect` (`TypeOK`), `CustodyHolds` (`CustodyMeansStored`),
`DecisionsHold` (`DecisionsAreFresh`). The invariant follows an observation. A row
that is being hashed `Counts` while its file's epoch has not moved since it was
captured; then its file, like every file in custody, is `Covered`: stored intact,
or marked by the message, the local invalidation or the untold change that is
still to come. Whoever changes a file leaves such a mark, and removing the mark
moves the epoch, so an observation that began before it can no longer be
recorded. For `DecisionsAreFresh` the same rows belong to `held`, what was stored
intact at some time since the save began.

### DeliveryTransfers

`DeliveryTransfers_proofs.tla`, for any number of pages and any positive bounds:
`TypeCorrect` (`TypeOK`), `PermissionHolds` (`WithinPermission`), `OutcomesHold`
(`OutcomesAreTrue`), `OutcomesStay` (`OutcomesSettle`). The invariant follows a
command: whatever version, backup or page records it, the ledger knows it under
the same intent (`Known`), and no record calls it `FAILED` while its transfer has
begun or may still begin (`Truthful` over `Live`). The transfers begun are thus
counted in the ledger; the count stays within the permission because it grows
only by the attempt of a page whose check is of the present revision, and
restoring or importing only merges ledgers (`TakesOver`), which forgets and takes
back nothing.

### TestRuntime

`TestRuntime_proofs.tla`, for any specifications and inputs that keep to the
modelled operations (`SpecificationsAreModelled`) and supply every declared
binding with a file or a JSON value (`BindingsAreSupplied`, as
`nativeTestInputs` does):

| Theorem | Property |
|---|---|
| `TypeCorrect` | `TypeOK` |
| `ValidationHolds` | `ValidationIsSound` |
| `BuildTrusted` | a manifested page reports no determination of another build |
| `SettlementStays` | `SettledForGood` |
| `DeterminationsEarned` | `DeterminationEarned` |

`ValidationIsSound` is type soundness: every executed step has an output of the
type its contract names (`Holds`), so the references that `validateSpec` accepted
find what they were promised and the next step fits its contract again.
`DeterminationsEarned` adds `EInv`: the outputs so far are those of `Meaning`,
which exists although it is recursive because a step refers to earlier steps only
(`MeantLocally`). A result is therefore about all steps, also those the execution
never reached. `Meaning` computes a sum as the code does, so the property asks
of every `SUM` besides that no partial sum leaves the safe integers
(`SumsExact`).

### ResponseIngestion

`ResponseIngestion_proofs.tla`, for any stages, intakes, entries, kinds of
response, layouts and bounds, under `KindsOfResponse`, `ContentsAreGiven` (there
is an intake and an entry) and `RevisionsAreCounted`: `TypeCorrect` (`TypeOK`),
`CompletionEarned` (`CompleteIsEarned`), `WorkNotOrphaned` (`NoOrphanedWork`),
`CurrentAccepted` (`AcceptsCurrentWork`), `LossShown` (`ShownBeforeLost`),
`ResponsesStay` (`ResponsesKept`).

The invariant says of a stored project, and of a version that may be restored,
that it is `Stored`: its records refer to one another (`Shape`), an instruction
that may be answered says what one would say now (`UsableIsCurrent`), a complete
stage and all before it pass their gates (`Derived`), and what is live rests on
the accepted work and intake its instruction was written from (`Rested`). An open
review holds a `Candidate` that `Follows` the project it was opened on, and lists
what saving it would end. `Follows` is needed because a candidate is saved later,
on a project that has meanwhile taken in responses; it is reflexive, composes
along the rules of `StageWorkflow`, and is lost only by a restoration, which
installs a `Stored` version as a whole. The two ways of saving, one of which does
not derive the stages again, are `CanonicalKeeps` and `OperationalKeeps`.

The theorems are about `Spec`, which begins with a new project. The run begins in
two projects that commands of the model lead to.

### ProofEvaluation

`ProofEvaluation_proofs.tla`, for any finite set of propositions and any tests,
suites, stages and bounds that satisfy `StagesAreModelled` and
`SuitesAreExpressions` (a suite is made of expression trees as `validateNode`
accepts them; they may refer to one another in a circle): `TypeCorrect`
(`TypeOK`), `VerdictsExact` (`VerdictsAreExact`), `DeferralsHonest`
(`DeferralsAreHonest`), `CompletionProven` (`CompletionIsProven`).

The invariant is that the project is the recalculation of some project: every
command recalculates its draft and its save recalculates once more
(`SavedIsRecalculated`). The rest is about evaluation. Where `Acyclic` holds,
every set of nodes of an expression has one that depends on no other of the set
(`MinimalNode`: among the propositions that need the fewest others, the node
numbered last). Hence the recursive values exist (`Evaluates`), and a node where
three-valued evaluation disagreed with two-valued logic on the known or on the
open leaves would have a least one, whose children agree (`CurrentIsExact`,
`StageIsHonest`). The proof of `TypeOK` showed that an earlier form of it left out
the evidence of a native test where `NativeStage` is none of `EvidenceStages`.

### Only model-checked

`RequestsSettle` (`StoreWorker`) and `ExecutionsSettle` (`TestRuntime`) are
liveness under fairness, which needs `ENABLED` and is beyond the prover. The
properties of the three runs that expect a violation are false; two of the three
become theorems under the conditions above.

## What is not modelled

By component, with what its model would be about:

- **Project store**: damaged rows and the quarantine; there an operation only
  fails as a whole between its transactions (`StoreWorker` models the loss of the
  worker on its own, `ArtifactCustody` damaged files). Command receipts carried
  inside the History, browser-history entries, backups of another browser, and
  compression, encryption and encoding of packages and snapshots. `ProjectStore`
  reads files as they are stored: the cache of `ArtifactCustody` is not in front
  of them.
- **Creation and allocation** (`createProject`, copies, `restoreProjectAllocation`,
  `allocateRecordIdentity`): a model would say that an identity is never drawn
  twice and a repeated command has one effect. `DeliveryTransfers` takes the
  former for granted.
- **Database connection and quarantine**: late events of a reset connection; a
  healthy row is never quarantined.
- **File storage**: staging of returned files, paging of large reads, and
  `withVerifiedRecoveryCustody`.
- **Workflow engine**: what the gates of the single stages ask of their records,
  the registered human decisions, conditional applicability, release disposition,
  convergence, deferred execution families. `StageWorkflow` and `ProofEvaluation`
  each have their own part of `gate`: the former that accepted work is there, the
  latter that proofs stand.
- **Delivery**: `recordDeliveryEvidence`, the removal of the project (its ledger
  stays in the History), and the terminal prerequisites beyond the release and
  the evidence.
- **Response ingestion**: `correctHumanAuthorityCandidates`, slots of returned
  files and their retryable validation, the replacement of single records
  (`scopedObservationDependents`), `rebaseHistoryView`. `restoreStageContinuation`,
  `recoverInvalidSemanticReviews`, `invalidateAcceptedResponse` and
  `markOrphanedReservations` are called by tests only.
- **Test runtime**: see its section.
- **Hashing, instructions, workbook, schema, page, build and verification
  scripts**: pure functions, tables, text, rendering and tooling.

A run combines the operations that its question needs; the store is not composed
with ingestion or delivery. What those assume of it, that a save replaces exactly
the version it was computed from, is `NoLostUpdate`.
