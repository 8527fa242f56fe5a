---------------------------- MODULE ProjectStore ----------------------------
(***************************************************************************)
(* The durable store of one project (project-store.js) and the browser     *)
(* tabs that change it through compare-and-swap transactions (app-core.js).*)
(*                                                                         *)
(* IndexedDB serialises transactions, but an operation of the store spans  *)
(* several of them: one reads the project, one reads the History and the   *)
(* files to prepare a checkpoint, and one commits if what was read is      *)
(* still there.  A tab may be reloaded, and an operation may fail, between *)
(* any two of them; other tabs run in between.                             *)
(***************************************************************************)
EXTENDS Integers, Sequences, FiniteSets

CONSTANTS
    Tabs,            \* browser tabs of the one profile
    Edits,           \* changes to the canonical work an operator may save
    Events,          \* operational events (response saved, package exported)
    Views,           \* saved views (drafts, scroll, selected stage)
    DefaultView,     \* historyView(project), used where none is supplied
    None,            \* null: no project, journal, view, plan or package
    Commands,        \* the operations the operators of an instance use
    MaxCheckpoints,  \* HISTORY_LIMITS.maxCheckpoints
    MaxGeneration,   \* bound on History generations
    MaxActivations,  \* bound on restorations and imports
    MaxFiles,        \* bound on files taken in
    BoundaryFails    \* whether a tab's bookkeeping may fail after its commit

Intents == {"WRITE", "OPERATE", "ATTACH"}
Restores == {"UNDO", "REDO", "HISTORY"}
Kinds == Intents \cup Restores \cup {"VIEW", "REMOVE", "IMPORT", "EXPORT"}
Phases == {"idle", "stored", "read", "ready", "conflict", "cleanup", "refresh"}

\* A project state.  Its digest (projectSha256) is the whole record; rev is the
\* revision and act the historyActivationId; work, atts and ops are the saved
\* changes, the identities of the files it refers to and the operational events.
Version == [rev : Nat, act : Nat, work : SUBSET Edits,
            atts : SUBSET Nat, ops : SUBSET Events]
Entry == [parent : Nat, version : Version, view : Views, files : SUBSET Nat]
History == [gen : Nat, active : Nat, head : Version, entries : Seq(Entry),
            redo : Seq(Nat), override : Views \cup {None},
            removed : BOOLEAN, activeRev : Nat]
Journal == [base : Version, ops : SUBSET Events]
Package == [version : Version, active : Nat, view : Views, files : SUBSET Nat]
Command == [phase : Phases, kind : Kinds \cup {None},
            prior : Version \cup {None}, next : Version \cup {None},
            view : Views \cup {None}, target : Nat, file : Nat,
            files : SUBSET Nat, gen : Nat, plan : History \cup {None}]

ASSUME ConstantsOK ==
    /\ DefaultView \in Views
    /\ Commands \subseteq Kinds
    /\ MaxCheckpoints \in Nat \ {0}
    /\ {MaxGeneration, MaxActivations, MaxFiles} \subseteq Nat
    /\ BoundaryFails \in BOOLEAN

ASSUME NoneIsDistinct ==
    /\ None \notin Version
    /\ None \notin Views
    /\ None \notin Journal
    /\ None \notin History
    /\ None \notin Package

VARIABLES
    row,          \* the canonical row of the PROJECTS store, or None
    journal,      \* the operational journal of that row in META, or None
    hist,         \* the recovery state in META, its entries and their files
    files,        \* identities of the rows of the ARTIFACTS store
    receipts,     \* revisions whose default deletion key has a receipt
    package,      \* the last exported backup, or None
    tab,          \* tab[s]: the version tab s holds as `current`, or None
    shown,        \* shown[s]: the Undo and Redo targets tab s offers (0: none)
    cmd,          \* cmd[s]: the operation tab s has in progress
    activations,  \* activation identities drawn so far
    intakes       \* file identities allocated so far

store == <<row, journal, hist, files, receipts>>
vars == <<store, package, tab, shown, cmd, activations, intakes>>
-----------------------------------------------------------------------------
(* What the stored records mean.                                           *)

\* projectRowWithOperations: the canonical row with its journal applied.
Stored == IF row # None /\ journal # None THEN [row EXCEPT !.ops = journal.ops]
                                          ELSE row

\* historyWorkSha256 leaves out the revision and the activation identity.
WorkOf(v) == [work |-> v.work, atts |-> v.atts, ops |-> v.ops]
SameWork(v, w) == WorkOf(v) = WorkOf(w)

Larger(m, n) == IF m < n THEN n ELSE m

NoCommand == [phase |-> "idle", kind |-> None, prior |-> None, next |-> None,
              view |-> None, target |-> 0, file |-> 0, files |-> {},
              gen |-> 0, plan |-> None]
NothingOffered == [undo |-> 0, redo |-> 0]

\* historyUndoId: the nearest ancestor of the active entry with other work.
UndoId(h) ==
    LET other[i \in 0..Len(h.entries)] ==
            IF i = 0 \/ ~SameWork(h.entries[i].version,
                                  h.entries[h.active].version)
            THEN i ELSE other[h.entries[i].parent]
        id == other[h.entries[h.active].parent]
    IN  IF id \in 1..Len(h.entries) THEN id ELSE 0

\* What a tab binds to its two buttons when it paints the History.
Offered(h) == [undo |-> UndoId(h),
               redo |-> IF Len(h.redo) > 0 THEN h.redo[1] ELSE 0]
-----------------------------------------------------------------------------
(* prepareHistoryCommit: the History a commit would leave behind.          *)

\* Wrong: the view is not defaulted.
AppendUnviewed(h, v, view, fs) ==
    [h EXCEPT !.entries = Append(@, [parent |-> h.active, version |-> v,
                                     view |-> view, files |-> fs]),
              !.active = Len(h.entries) + 1, !.head = v,
              !.override = None, !.redo = <<>>]

\* Wrong: at the limit the oldest entry makes room.
AppendDroppingOldest(h, v, view, fs) ==
    LET room == IF Len(h.entries) < MaxCheckpoints THEN h.entries
                                                   ELSE Tail(h.entries)
    IN  [h EXCEPT !.entries = Append(room, [parent |-> h.active, version |-> v,
                              view |-> IF view = None THEN DefaultView ELSE view,
                              files |-> fs]),
                  !.active = Len(room) + 1, !.head = v,
                  !.override = None, !.redo = <<>>]

\* append: a new entry below the active one, which it replaces.
AppendEntry(h, v, view, fs) ==
    [h EXCEPT !.entries = Append(@, [parent |-> h.active, version |-> v,
                              view |-> IF view = None THEN DefaultView ELSE view,
                              files |-> fs]),
              !.active = Len(h.entries) + 1,
              !.head = v,
              !.override = None,
              !.redo = <<>>]

\* 'Previous project': what is being replaced is not yet retained as it stands.
WithPrevious(h, prior, view, fs) ==
    IF /\ prior # None
       /\ h.head # prior \/ h.entries[h.active].files # fs
    THEN AppendEntry(h, prior, view, fs)
    ELSE h

ActiveView(h) == IF h.override # None THEN h.override
                                      ELSE h.entries[h.active].view

\* Wrong: a change is told by its revision, which operational events keep.
WithNextRevision(h, next, prior, view, fs) ==
    IF prior = None \/ next.rev # prior.rev
    THEN AppendEntry(h, next, view, fs)
    ELSE h

WithNext(h, next, prior, view, fs) ==
    IF \/ prior = None
       \/ next # prior
       \/ view # None /\ view # ActiveView(h)
    THEN AppendEntry(h, next, view, fs)
    ELSE h

\* Wrong: saving a view forgets what can be redone.
PrepareForgettingRedo(h, next, prior, view, fs) ==
    [WithNext(WithPrevious(h, prior, view, fs), next, prior, view, fs)
        EXCEPT !.activeRev = next.rev, !.removed = FALSE, !.gen = h.gen + 1]

PrepareHistory(h, next, prior, view, fs) ==
    LET h1 == WithPrevious(h, prior, view, fs)
        h2 == WithNext(h1, next, prior, view, fs)
    IN  [h2 EXCEPT !.redo = IF next = prior THEN h.redo ELSE @,
                   !.activeRev = next.rev,
                   !.removed = FALSE,
                   !.gen = h.gen + 1]

\* encodeCheckpoint: a version is retained with the bytes of every file it
\* refers to (assertPackageArtifactCustody).
InCustody(plan) ==
    \A i \in DOMAIN plan.entries \ DOMAIN hist.entries :
        plan.entries[i].version.atts \subseteq plan.entries[i].files

\* Wrong: a version is retained whether or not its bytes are there.
RetainableCount(plan) == Len(plan.entries) <= MaxCheckpoints

\* What prepareHistoryCommit does not refuse: assertHistoryLimits comes last.
Retainable(plan) == InCustody(plan) /\ Len(plan.entries) <= MaxCheckpoints

\* Wrong: the recovery state keeps naming the version that was replaced.
ActivatedUnbound(h, id, next, view, redo) ==
    [h EXCEPT !.active = id, !.override = view, !.redo = redo,
              !.activeRev = next.rev, !.removed = FALSE]

\* The History once the entry id is active again: restoreCheckpoint and
\* importPackage update it themselves, since nothing is appended.
Activated(h, id, next, view, redo) ==
    [h EXCEPT !.active = id, !.head = next, !.override = view, !.redo = redo,
              !.activeRev = next.rev, !.removed = FALSE]

\* Wrong: nothing is filtered.
WithoutNothing(seq, id) == seq

Without(seq, id) ==
    LET kept[n \in 0..Len(seq)] ==
            IF n = 0 THEN <<>>
            ELSE IF seq[n] = id THEN kept[n - 1]
            ELSE Append(kept[n - 1], seq[n])
    IN  kept[Len(seq)]

\* Wrong: Undo does not note what it leaves.
RestoredRedoForgetting(mode, id) ==
    CASE mode = "UNDO" -> hist.redo
      [] mode = "REDO" -> Without(hist.redo, id)
      [] OTHER         -> <<>>

RestoredRedo(mode, id) ==
    CASE mode = "UNDO" -> <<hist.active>> \o Without(hist.redo, hist.active)
      [] mode = "REDO" -> Without(hist.redo, id)
      [] OTHER         -> <<>>
-----------------------------------------------------------------------------
(* Init: createProject committed revision 0 with its first checkpoint.      *)

FirstVersion == [rev |-> 0, act |-> 0, work |-> {}, atts |-> {}, ops |-> {}]

Init ==
    /\ row = FirstVersion
    /\ journal = None
    /\ hist = [gen |-> 1, active |-> 1, head |-> FirstVersion,
               entries |-> <<[parent |-> 0, version |-> FirstVersion,
                              view |-> DefaultView, files |-> {}]>>,
               redo |-> <<>>, override |-> None,
               removed |-> FALSE, activeRev |-> 0]
    /\ files = {}
    /\ receipts = {}
    /\ package = None
    /\ tab = [s \in Tabs |-> FirstVersion]
    /\ shown = [s \in Tabs |-> NothingOffered]
    /\ cmd = [s \in Tabs |-> NoCommand]
    /\ activations = 0
    /\ intakes = 0
-----------------------------------------------------------------------------
(* The first transaction of an operation: readProject.  runOperatorAction  *)
(* admits one operation of a tab at a time.                                *)

Starts(s, kind) ==
    /\ kind \in Commands
    /\ cmd[s].phase = IF kind = "ATTACH" THEN "stored" ELSE "idle"
    /\ hist.gen < MaxGeneration

Reads(s, kind, next, view, target) ==
    cmd' = [cmd EXCEPT ![s] =
                [NoCommand EXCEPT !.phase = "read", !.kind = kind,
                                  !.prior = Stored, !.next = next,
                                  !.view = view, !.target = target,
                                  !.file = cmd[s].file]]

\* storeArtifactFile: the bytes of a selected file are stored under a freshly
\* allocated identity before any project refers to them.
StoreFile(s) ==
    /\ "ATTACH" \in Commands
    /\ cmd[s].phase = "idle"
    /\ tab[s] # None
    /\ intakes < MaxFiles
    /\ intakes' = intakes + 1
    /\ files' = files \cup {intakes'}
    /\ cmd' = [cmd EXCEPT ![s] = [NoCommand EXCEPT !.phase = "stored",
                                                   !.file = intakes']]
    /\ UNCHANGED <<row, journal, hist, receipts, package, tab, shown,
                   activations>>

\* What persistReplacement submits: the tab's own version, changed.
Candidates(s, kind) ==
    CASE kind = "WRITE"   -> {tab[s]} \cup
                             {[tab[s] EXCEPT !.work = @ \cup {e}] : e \in Edits}
      [] kind = "OPERATE" -> {[tab[s] EXCEPT !.ops = @ \cup {o}] :
                                  o \in Events \ tab[s].ops}
      [] kind = "ATTACH"  -> {[tab[s] EXCEPT !.atts = @ \cup {cmd[s].file}]}

\* A canonical change advances the revision; an operational one may not.
Revised(kind, candidate) ==
    IF kind = "OPERATE" \/ candidate = Stored
    THEN candidate ELSE [candidate EXCEPT !.rev = Stored.rev + 1]

\* Wrong: only the revision is expected.
SubmitsRevision(s) == row # None /\ Stored.rev = tab[s].rev

\* Both expectedProjectRevision and expectedStateSha256 are the tab's.
SubmitsCurrent(s) == Stored = tab[s]

Submit(s, kind) ==
    /\ kind \in Intents
    /\ Starts(s, kind)
    /\ tab[s] # None
    /\ SubmitsCurrent(s)
    /\ \E candidate \in Candidates(s, kind), view \in Views :
           Reads(s, kind, Revised(kind, candidate), view, 0)
    /\ UNCHANGED <<store, package, tab, shown, activations, intakes>>

SubmitStale(s, kind) ==
    /\ kind \in Intents
    /\ Starts(s, kind)
    /\ tab[s] # None
    /\ ~SubmitsCurrent(s)
    /\ cmd' = [cmd EXCEPT ![s].phase = "conflict"]
    /\ UNCHANGED <<store, package, tab, shown, activations, intakes>>

\* saveCheckpoint of the tab's view, for the version the tab displays.
BeginView(s) ==
    /\ Starts(s, "VIEW")
    /\ tab[s] # None
    /\ row # None
    /\ \E view \in Views : Reads(s, "VIEW", tab[s], view, 0)
    /\ UNCHANGED <<store, package, tab, shown, activations, intakes>>

\* Undo and Redo name what the tab offers; the History list, any entry.
Targets(s, mode) ==
    CASE mode = "UNDO"    -> {shown[s].undo}
      [] mode = "REDO"    -> {shown[s].redo}
      [] mode = "HISTORY" -> DOMAIN hist.entries

BeginRestore(s, mode) ==
    /\ mode \in Restores
    /\ Starts(s, mode)
    /\ activations < MaxActivations
    /\ \E id \in Targets(s, mode) \ {0} : Reads(s, mode, None, None, id)
    /\ UNCHANGED <<store, package, tab, shown, activations, intakes>>

\* removeProject: the receipt of an earlier removal answers for this one.
RemovalReceipted(s) == tab[s] # None /\ tab[s].rev \in receipts

BeginRemove(s) ==
    /\ Starts(s, "REMOVE")
    /\ ~RemovalReceipted(s)
    /\ tab[s] # None
    /\ row # None
    /\ Stored.rev = tab[s].rev
    /\ \E view \in Views : Reads(s, "REMOVE", None, view, 0)
    /\ UNCHANGED <<store, package, tab, shown, activations, intakes>>

BeginImport(s) ==
    /\ Starts(s, "IMPORT")
    /\ package # None
    /\ activations < MaxActivations
    /\ cmd' = [cmd EXCEPT ![s] =
                   [NoCommand EXCEPT !.phase = "read", !.kind = "IMPORT",
                                     !.prior = Stored, !.next = package.version,
                                     !.view = package.view,
                                     !.target = package.active,
                                     !.files = package.files]]
    /\ UNCHANGED <<store, package, tab, shown, activations, intakes>>

-----------------------------------------------------------------------------
(* The History and the files are read and a checkpoint is prepared.         *)

Prepares(s, kinds) == cmd[s].phase = "read" /\ cmd[s].kind \in kinds

Readies(s, next, fs, plan) ==
    /\ Retainable(plan)
    /\ cmd' = [cmd EXCEPT ![s].phase = "ready", ![s].next = next,
                          ![s].files = fs, ![s].gen = hist.gen,
                          ![s].plan = plan]

PrepareWrite(s) ==
    /\ Prepares(s, Intents)
    /\ LET c == cmd[s] IN
           Readies(s, c.next, {},
                   PrepareHistory(hist, c.next, c.prior, c.view, files))
    /\ UNCHANGED <<store, package, tab, shown, activations, intakes>>

PrepareView(s) ==
    /\ Prepares(s, {"VIEW"})
    /\ cmd[s].next = cmd[s].prior
    /\ LET c == cmd[s] IN
           Readies(s, c.next, {},
                   PrepareHistory(hist, c.prior, c.prior, c.view, files))
    /\ UNCHANGED <<store, package, tab, shown, activations, intakes>>

\* A stale tab may preserve its view against the retained entry it shows: the
\* entry is added, and everything else stays with the newer version.
PrepareStaleView(s) ==
    /\ Prepares(s, {"VIEW"})
    /\ cmd[s].next # cmd[s].prior
    /\ \E i \in DOMAIN hist.entries :
        LET c == cmd[s]
            source == [hist EXCEPT !.active = i, !.head = c.next,
                                   !.override = None]
            saved == PrepareHistory(source, c.next, c.next, c.view,
                                    hist.entries[i].files)
        IN  /\ hist.entries[i].version = c.next
            /\ \A j \in DOMAIN hist.entries :
                   hist.entries[j].version = c.next => j <= i
            /\ Readies(s, c.next, {}, [hist EXCEPT !.entries = saved.entries,
                                                   !.gen = saved.gen])
    /\ UNCHANGED <<store, package, tab, shown, activations, intakes>>

\* Wrong: a removed project has no revision.
KnownRevisionStored(s) == IF cmd[s].prior # None THEN cmd[s].prior.rev ELSE 0

KnownRevision(s) ==
    IF cmd[s].prior # None THEN cmd[s].prior.rev ELSE hist.activeRev

\* Wrong: a restoration expects no revision.
NoRevisionExpected(s) == TRUE

\* A tab that holds no version of the project expects no revision of it.
RevisionExpected(s) == tab[s] # None => tab[s].rev = KnownRevision(s)

PrepareRestore(s) ==
    /\ Prepares(s, Restores)
    /\ cmd[s].target \in DOMAIN hist.entries
    /\ RevisionExpected(s)
    /\ LET id == cmd[s].target
           saved == hist.entries[id]
           next == [saved.version EXCEPT
                       !.rev = Larger(KnownRevision(s), saved.version.rev) + 1,
                       !.act = activations + 1]
       IN  Readies(s, next, saved.files,
                   [Activated(hist, id, next, saved.view,
                              RestoredRedo(cmd[s].kind, id))
                        EXCEPT !.gen = hist.gen + 1])
    /\ activations' = activations + 1
    /\ UNCHANGED <<store, package, tab, shown, intakes>>

PrepareRemove(s) ==
    /\ Prepares(s, {"REMOVE"})
    /\ LET c == cmd[s] IN
           Readies(s, None, {},
                   [PrepareHistory(hist, c.prior, c.prior, c.view, files)
                        EXCEPT !.removed = TRUE])
    /\ UNCHANGED <<store, package, tab, shown, activations, intakes>>

ImportedRevision(prior, version) ==
    Larger(IF prior = None THEN 0 ELSE prior.rev, version.rev) + 1

\* The project an import replaces is retained first, with the files kept.
ReplacedHistory(prior, kept) ==
    IF prior = None THEN hist
    ELSE PrepareHistory(hist, prior, prior, None, kept)

\* The backup then becomes active at its own entry, or below it when that entry
\* does not hold exactly its work.
ImportOver(s, kept) ==
    /\ Prepares(s, {"IMPORT"})
    /\ LET c == cmd[s]
           local == ReplacedHistory(c.prior, kept)
           merged == [local EXCEPT !.active = c.target]
           entry == hist.entries[c.target]
           next == [c.next EXCEPT !.rev = ImportedRevision(c.prior, c.next),
                                  !.act = activations + 1]
           plan == IF SameWork(entry.version, c.next) /\ entry.files = c.files
                   THEN [Activated(merged, c.target, next, c.view, <<>>)
                             EXCEPT !.gen = local.gen + 1]
                   ELSE PrepareHistory(merged, next, None, c.view, c.files)
       IN  Readies(s, next, c.files, plan)
    /\ activations' = activations + 1
    /\ UNCHANGED <<store, package, tab, shown, intakes>>

PrepareImport(s) ==
    /\ InCustody(ReplacedHistory(cmd[s].prior, files))
    /\ ImportOver(s, files)

\* Stored bytes of the replaced project are missing: it is retained with those
\* of the active entry, if that holds its work.
PrepareImportOverDamage(s) ==
    /\ ~InCustody(ReplacedHistory(cmd[s].prior, files))
    /\ SameWork(hist.entries[hist.active].version, cmd[s].prior)
    /\ ImportOver(s, hist.entries[hist.active].files)
-----------------------------------------------------------------------------
(* The committing transaction compares the head and the generation again.  *)

HeadUnchanged(s) == Stored = cmd[s].prior
HistoryUnchanged(s) == hist.gen = cmd[s].gen

Commits(s, kinds) ==
    /\ cmd[s].phase = "ready"
    /\ cmd[s].kind \in kinds
    /\ HeadUnchanged(s)
    /\ HistoryUnchanged(s)
    /\ hist' = cmd[s].plan

\* Once its operation has committed the tab reads the History again; an intake
\* still knows the file it stored.
Committed(s) == cmd' = [cmd EXCEPT ![s] = [NoCommand EXCEPT !.phase = "refresh",
                                                            !.file = cmd[s].file]]

\* Wrong: the operational journal outlives the row it was recorded against.
CommitWriteOnly(s) ==
    /\ Commits(s, {"WRITE", "ATTACH"})
    /\ row' = cmd[s].next
    /\ tab' = [tab EXCEPT ![s] = cmd[s].next]
    /\ Committed(s)
    /\ UNCHANGED <<journal, files, receipts, package, shown, activations,
                   intakes>>

\* writeProjectRow; with nothing changed only the checkpoint is committed.
CommitWrite(s) ==
    /\ Commits(s, {"WRITE", "ATTACH"})
    /\ IF cmd[s].next = cmd[s].prior
       THEN UNCHANGED <<row, journal>>
       ELSE row' = cmd[s].next /\ journal' = None
    /\ tab' = [tab EXCEPT ![s] = cmd[s].next]
    /\ Committed(s)
    /\ UNCHANGED <<files, receipts, package, shown, activations, intakes>>

\* writeOperationalProject: the canonical row stays; its journal is replaced.
CommitOperate(s) ==
    /\ Commits(s, {"OPERATE"})
    /\ journal' = [base |-> row, ops |-> cmd[s].next.ops]
    /\ tab' = [tab EXCEPT ![s] = cmd[s].next]
    /\ Committed(s)
    /\ UNCHANGED <<row, files, receipts, package, shown, activations, intakes>>

CommitView(s) ==
    /\ Commits(s, {"VIEW"})
    /\ Committed(s)
    /\ UNCHANGED <<row, journal, files, receipts, package, tab, shown,
                   activations, intakes>>

\* Wrong: the files of the restored version are not put back.
CommitActivationOnly(s) ==
    /\ Commits(s, Restores \cup {"IMPORT"})
    /\ row' = cmd[s].next
    /\ journal' = None
    /\ tab' = [tab EXCEPT ![s] = cmd[s].next]
    /\ Committed(s)
    /\ UNCHANGED <<files, receipts, package, shown, activations, intakes>>

\* restoreCheckpoint and importPackage replace the row, the journal and every
\* stored file of the project.
CommitActivation(s) ==
    /\ Commits(s, Restores \cup {"IMPORT"})
    /\ row' = cmd[s].next
    /\ journal' = None
    /\ files' = cmd[s].files
    /\ tab' = [tab EXCEPT ![s] = cmd[s].next]
    /\ Committed(s)
    /\ UNCHANGED <<receipts, package, shown, activations, intakes>>

\* The tab turns to the replacement project it selected beforehand.
Leaves(s) ==
    /\ tab' = [tab EXCEPT ![s] = None]
    /\ shown' = [shown EXCEPT ![s] = NothingOffered]
    /\ cmd' = [cmd EXCEPT ![s] = NoCommand]

CommitRemove(s) ==
    /\ Commits(s, {"REMOVE"})
    /\ ~RemovalReceipted(s)
    /\ row' = None
    /\ journal' = None
    /\ files' = {}
    /\ receipts' = receipts \cup {cmd[s].prior.rev}
    /\ Leaves(s)
    /\ UNCHANGED <<package, activations, intakes>>

\* An exact earlier removal answers, before any preparation or in the commit.
AcknowledgeRemoval(s) ==
    /\ "REMOVE" \in Commands
    /\ \/ cmd[s].phase = "idle"
       \/ cmd[s].phase = "ready" /\ cmd[s].kind = "REMOVE"
    /\ RemovalReceipted(s)
    /\ Leaves(s)
    /\ UNCHANGED <<store, package, activations, intakes>>
-----------------------------------------------------------------------------
(* Operations that do not commit.                                          *)

\* The tab takes the stored project when a submission finds it changed.
CommitStale(s) ==
    /\ cmd[s].phase = "ready"
    /\ cmd[s].kind \in Intents
    /\ ~HeadUnchanged(s)
    /\ cmd' = [cmd EXCEPT ![s] = [NoCommand EXCEPT !.phase = "conflict",
                                                   !.file = cmd[s].file]]
    /\ UNCHANGED <<store, package, tab, shown, activations, intakes>>

\* A failed intake deletes the bytes it stored.
Fails(s) ==
    cmd' = [cmd EXCEPT ![s] = IF cmd[s].file = 0 THEN NoCommand
                              ELSE [NoCommand EXCEPT !.phase = "cleanup",
                                                     !.file = cmd[s].file]]

Resync(s) ==
    /\ cmd[s].phase = "conflict"
    /\ tab' = [tab EXCEPT ![s] = IF row = None THEN @ ELSE Stored]
    /\ Fails(s)
    /\ UNCHANGED <<store, package, shown, activations, intakes>>

\* A refusal (limits, custody, a changed History, a changed revision) or a
\* failure of the browser: the transaction aborts and nothing was changed.
Abandon(s) ==
    /\ cmd[s].phase \in {"stored", "read", "ready"}
    /\ Fails(s)
    /\ UNCHANGED <<store, package, tab, shown, activations, intakes>>

DeleteFile(s) ==
    /\ cmd[s].phase = "cleanup"
    /\ files' = files \ {cmd[s].file}
    /\ cmd' = [cmd EXCEPT ![s] = NoCommand]
    /\ UNCHANGED <<row, journal, hist, receipts, package, tab, shown,
                   activations, intakes>>

\* refreshHistory, unless a newer navigation of the tab replaces it.
Refresh(s) ==
    /\ cmd[s].phase = "refresh"
    /\ shown' \in {shown, [shown EXCEPT ![s] = Offered(hist)]}
    /\ cmd' = [cmd EXCEPT ![s] = NoCommand]
    /\ UNCHANGED <<store, package, tab, activations, intakes>>

\* recordCommittedBoundary fails after the commit of an intake, which is then
\* taken for a failed one.
FailBoundary(s) ==
    /\ BoundaryFails
    /\ cmd[s].phase = "refresh"
    /\ cmd[s].file # 0
    /\ Fails(s)
    /\ UNCHANGED <<store, package, tab, shown, activations, intakes>>

\* The page is closed or crashes at any point and is opened again.
Reload(s) ==
    /\ tab' = [tab EXCEPT ![s] = Stored]
    /\ shown' = [shown EXCEPT ![s] = IF row = None THEN NothingOffered
                                                   ELSE Offered(hist)]
    /\ cmd' = [cmd EXCEPT ![s] = NoCommand]
    /\ UNCHANGED <<store, package, activations, intakes>>

\* exportPackage reads one snapshot of the three stores.
Export(s) ==
    /\ "EXPORT" \in Commands
    /\ cmd[s].phase = "idle"
    /\ tab[s] # None
    /\ row # None
    /\ hist.head = Stored
    /\ Stored.atts \subseteq files
    /\ package' = [version |-> Stored, active |-> hist.active,
                   view |-> ActiveView(hist), files |-> files]
    /\ UNCHANGED <<store, tab, shown, cmd, activations, intakes>>
-----------------------------------------------------------------------------
Begin(s) ==
    \/ StoreFile(s)
    \/ \E kind \in Intents : Submit(s, kind) \/ SubmitStale(s, kind)
    \/ BeginView(s)
    \/ \E mode \in Restores : BeginRestore(s, mode)
    \/ BeginRemove(s)
    \/ BeginImport(s)

Prepare(s) ==
    \/ PrepareWrite(s)
    \/ PrepareView(s)
    \/ PrepareStaleView(s)
    \/ PrepareRestore(s)
    \/ PrepareRemove(s)
    \/ PrepareImport(s)
    \/ PrepareImportOverDamage(s)

Commit(s) ==
    \/ CommitWrite(s)
    \/ CommitOperate(s)
    \/ CommitView(s)
    \/ CommitActivation(s)
    \/ CommitRemove(s)

Conclude(s) ==
    \/ AcknowledgeRemoval(s)
    \/ CommitStale(s)
    \/ Resync(s)
    \/ Abandon(s)
    \/ DeleteFile(s)
    \/ Refresh(s)
    \/ FailBoundary(s)
    \/ Reload(s)
    \/ Export(s)

Next == \E s \in Tabs : Begin(s) \/ Prepare(s) \/ Commit(s) \/ Conclude(s)

Spec == Init /\ [][Next]_vars
-----------------------------------------------------------------------------
(* Properties.                                                             *)

\* Every variable keeps the shape the stored records and the tabs' state have.
TypeOK ==
    /\ row \in Version \cup {None}
    /\ journal \in Journal \cup {None}
    /\ hist \in History
    /\ files \subseteq Nat
    /\ receipts \subseteq Nat
    /\ package \in Package \cup {None}
    /\ tab \in [Tabs -> Version \cup {None}]
    /\ shown \in [Tabs -> [undo : Nat, redo : Nat]]
    /\ cmd \in [Tabs -> Command]
    /\ activations \in Nat
    /\ intakes \in Nat

\* The recovery state names exactly the stored project, digest for digest:
\* exportPackage refuses a backup, and the next checkpoint retains a spurious
\* 'Previous project', when it does not.
HistoryBindsHead == row # None => hist.head = Stored

\* The saved response operations apply to the row they were recorded against;
\* applyOperationalJournal refuses to open a project whose journal does not.
JournalBound == journal # None => row # None /\ journal.base = row

\* The active entry of the History holds the work of the stored project and
\* the bytes of every file it refers to, so what an operator sees can always
\* be returned to, whatever replaces it next.
ActiveEntryHoldsWork ==
    row # None => LET active == hist.entries[hist.active] IN
        /\ SameWork(active.version, Stored)
        /\ Stored.atts \subseteq active.files

\* The stored project never refers to a file whose bytes are not stored, while
\* intakes, failed intakes and restorations of several tabs add and delete.
ReferredFilesStored == row # None => Stored.atts \subseteq files

\* A version is never offered twice by Redo.
RedoOffersOnce ==
    \A i, j \in DOMAIN hist.redo : hist.redo[i] = hist.redo[j] => i = j

RetainsEntries ==
    /\ Len(hist.entries) <= Len(hist'.entries)
    /\ \A i \in DOMAIN hist.entries : hist'.entries[i] = hist.entries[i]

\* What the History retains is never changed, reordered or dropped.
RetainedVersionsImmutable == [][RetainsEntries]_hist

\* Whatever replaces or removes the stored project, a retained entry with its
\* bytes still holds the work that was replaced.
ReplacedWorkRetained ==
    [][ row # None /\ Stored' # Stored =>
            \E i \in DOMAIN hist'.entries :
                /\ SameWork(hist'.entries[i].version, Stored)
                /\ Stored.atts \subseteq hist'.entries[i].files ]_vars

CarriesSaves ==
    /\ row # None /\ row' # None
    /\ Stored' # Stored
    /\ row'.act = row.act
    => /\ Stored.work \subseteq Stored'.work
       /\ Stored.atts \subseteq Stored'.atts
       /\ Stored.ops \subseteq Stored'.ops
       /\ Stored'.rev = IF row' = row THEN row.rev ELSE row.rev + 1

\* Within one activation, no saved change of one tab is undone by another: a
\* commit carries everything the project it replaces held, and advances its
\* revision by one unless it only records operational events.
NoLostUpdate == [][CarriesSaves]_vars

\* A revision is never used again, even for a project restored after its
\* removal: tabs and deletion receipts identify a project state by it.
RevisionAdvances ==
    [][ row' # None /\ row' # row =>
            row'.rev > IF row = None THEN hist.activeRev ELSE row.rev ]_vars

\* Saving a view leaves the project alone and costs no Redo.
ViewsKeepRedo == [][ Stored' = Stored => hist'.redo = hist.redo ]_vars

Undoes(s) ==
    /\ cmd[s].kind = "UNDO"
    /\ cmd[s].phase = "ready" /\ cmd'[s].phase = "refresh"

\* The first entry Redo offers next holds the stored work and its bytes, and
\* everything Redo offered is offered still.
LeavesWorkToRedo ==
    /\ Len(hist'.redo) > 0
    /\ LET left == hist'.entries[hist'.redo[1]] IN
           SameWork(left.version, Stored) /\ Stored.atts \subseteq left.files
    /\ \A i \in DOMAIN hist.redo :
           \E j \in DOMAIN hist'.redo : hist'.redo[j] = hist.redo[i]

\* What an Undo leaves is what Redo offers next, with its bytes, whichever
\* entry a button that is out of date returns to, and no Undo costs a version
\* that could be redone before it (restoreCheckpoint).
UndoneWorkRedoable ==
    [][ \A s \in Tabs : Undoes(s) /\ row # None => LeavesWorkToRedo ]_vars

\* A tab replaces only the canonical project it holds: what another tab has
\* since saved, restored or imported is never replaced by its restorations.
OnlyHeldProjectReplaced ==
    [][ \A s \in Tabs :
            /\ cmd[s].phase = "ready" /\ cmd'[s].phase = "refresh"
            /\ cmd[s].kind # "IMPORT"
            /\ row # None /\ row' # row
            /\ tab[s] # None
            => tab[s].rev = row.rev /\ tab[s].act = row.act ]_vars

\* A removal reported to the operator of a tab that shows the stored project
\* has removed it.
ReportedRemovalRemoves ==
    [][ \A s \in Tabs :
            tab[s] # None /\ tab[s] = Stored /\ tab'[s] = None => row' = None ]_vars
-----------------------------------------------------------------------------
(* The store implements the versioned project.                             *)

\* The changes a project state holds: edits, files and operational events.
Changes(v) == {<<"work", e>> : e \in v.work}
                  \cup {<<"file", f>> : f \in v.atts}
                  \cup {<<"event", o>> : o \in v.ops}

\* The current work of a removed project: a mark that is no change.
RemovedWork == {<<"removed", 0>>}
CurrentWork == IF row = None THEN RemovedWork ELSE Changes(Stored)
RetainedWorks == {Changes(hist.entries[i].version) : i \in DOMAIN hist.entries}

Promise == INSTANCE VersionedProject WITH Nothing <- RemovedWork,
                                          current <- CurrentWork,
                                          retained <- RetainedWorks

\* Every transaction of every tab is, for the project, a save of changes on top
\* of the current work, a return to a retained work, a removal, or nothing: no
\* interleaving of reads, preparations and commits loses or invents work.
ImplementsPromise == Promise!Spec
=============================================================================
