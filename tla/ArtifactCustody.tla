-------------------------- MODULE ArtifactCustody --------------------------
(***************************************************************************)
(* The custody cache of project-store.js: which stored files of a project  *)
(* each browser tab holds to be verified.  Readiness asks the cache, which *)
(* is filled by reading a row and hashing its bytes outside any            *)
(* transaction, while this tab and the others store, delete and restore    *)
(* files.  An invalidation count tells an observation still being hashed   *)
(* that the files have changed since its row was read; changes made by     *)
(* other tabs are heard of over a BroadcastChannel.                        *)
(***************************************************************************)
EXTENDS Integers, FiniteSets

CONSTANTS
    Tabs,          \* the pages, and their store workers, that are open
    Contexts,      \* which of them may share a STORE_CONTEXT_ID: functions
                   \* from Tabs, equal for a page and its worker
    Threads,       \* the places for a storage operation under way
    TabOf,         \* the tab of each of them
    Files,         \* the artifact identities of the project
    MaxEpoch       \* the invalidations of a tab that are followed

ASSUME MaxEpochIsNatural == MaxEpoch \in Nat
ASSUME ThreadsOfTabs == TabOf \in [Threads -> Tabs]

VARIABLES
    stored,        \* the ARTIFACTS rows: "absent", "sound" or "damaged"
    custody,       \* artifactCustody: the files each tab holds to be verified
    epoch,         \* custodyInvalidations of the project, by tab
    op,            \* the storage operations under way, by thread
    inbox,         \* notifications of other tabs that have not arrived
    untold,        \* files changed and never told of
    context,       \* STORE_CONTEXT_ID of each tab
    held           \* history: the files that were stored intact at some time
                   \* since the save of the thread began

vars == <<stored, custody, epoch, op, inbox, untold, context, held>>

Row(f) == [file |-> f, bytes |-> stored[f]]
Intact(rows) == {f \in Files : rows[f] = "sound"}

(* An operation: where it is, what it is for, the files it is about, the   *)
(* files it will read one by one, the count it captured before reading,    *)
(* and the rows it has read and not yet hashed.                            *)
Kinds == {"get", "list", "put", "delete", "write", "restore", "remove"}
Places == {"next", "read", "hash", "put", "cleanup", "delete", "restored",
           "announce"}
Idle == [at |-> "idle"]
Doing(at, kind, files, seen) ==
    [at |-> at, kind |-> kind, files |-> files, later |-> {}, seen |-> seen,
     rows |-> {}]

Init ==
    /\ stored \in [Files -> {"absent", "sound", "damaged"}]
    /\ custody = [t \in Tabs |-> {}]
    /\ epoch = [t \in Tabs |-> 0]
    /\ op = [k \in Threads |-> Idle]
    /\ inbox = [t \in Tabs |-> 0]
    /\ untold = [t \in Tabs |-> {}]
    /\ context \in Contexts
    /\ held = [k \in Threads |-> {}]

At(k, place) == op[k].at = place
Becomes(k, next) == op' = [op EXCEPT ![k] = next]

(* forgetArtifactCustody, for some files of the project or for all.        *)
Forget(t, files) ==
    /\ epoch[t] < MaxEpoch
    /\ epoch' = [epoch EXCEPT ![t] = @ + 1]
    /\ custody' = [custody EXCEPT ![t] = @ \ files]

ForgetAll(t) ==
    /\ Forget(t, Files)
    /\ untold' = [untold EXCEPT ![t] = {}]

(* The entry of a file is dropped before the file is read or deleted.      *)
Drop(t, f) == custody' = [custody EXCEPT ![t] = @ \ {f}]

(* notifyProjectChange: a context does not hear itself, and a page and its *)
(* worker are one context.                                                 *)
Notify(t, files) ==
    /\ inbox' = [u \in Tabs |-> IF context[u] # context[t] THEN inbox[u] + 1
                                                          ELSE inbox[u]]
    /\ untold' = [u \in Tabs |-> IF u # t /\ context[u] = context[t]
                                    THEN untold[u] \cup files ELSE untold[u]]

(***************************************************************************)
(* Reading: getArtifact, listArtifacts, observeArtifactCustody.            *)
(***************************************************************************)
BeginGet(k, f) ==
    /\ At(k, "idle")
    /\ Drop(TabOf[k], f)
    /\ Becomes(k, Doing("read", "get", {f}, epoch[TabOf[k]]))
    /\ UNCHANGED <<stored, epoch, inbox, untold>>

BeginList(k) ==
    /\ At(k, "idle")
    /\ ForgetAll(TabOf[k])
    /\ Becomes(k, Doing("read", "list", Files, epoch[TabOf[k]] + 1))
    /\ UNCHANGED <<stored, inbox>>

(* Where an operation goes on when no row is left to observe.  A restored  *)
(* project is announced only then (restoreCheckpoint).                     *)
Observing(now, rows) ==
    IF rows # {} THEN [now EXCEPT !.at = "hash", !.rows = rows]
    ELSE IF now.kind = "write" THEN [now EXCEPT !.at = "next", !.rows = {}]
    ELSE IF now.kind = "restore" THEN [now EXCEPT !.at = "announce", !.rows = {}]
    ELSE Idle

(* Wrong: a file that is not stored is taken for a row.                    *)
RowsOrNone(files) == {Row(f) : f \in files}

Rows(files) == {Row(f) : f \in {g \in files : stored[g] # "absent"}}

(* One transaction reads the rows; one that putArtifact has just stored is *)
(* cleaned up when it is gone.                                             *)
Read(k) ==
    /\ At(k, "read")
    /\ LET now == op[k]
           rows == Rows(now.files)
       IN  Becomes(k, IF now.kind = "put" /\ rows = {}
                           THEN [now EXCEPT !.at = "cleanup"]
                           ELSE Observing(now, rows))
    /\ UNCHANGED <<stored, custody, epoch, inbox, untold>>

(* A storage deadline ends the operation.  A restoration that has          *)
(* committed fails without having notified anybody.                        *)
ReadFails(k) ==
    /\ At(k, "read")
    /\ Becomes(k, Idle)
    /\ untold' = [u \in Tabs |-> IF op[k].kind = "restore" /\ u # TabOf[k]
                                   THEN Files ELSE untold[u]]
    /\ UNCHANGED <<stored, custody, epoch, inbox>>

(* Wrong: the invalidation count is not looked at again after hashing.     *)
RecordsStale(t, seen, row) == row.bytes = "sound"

Records(t, seen, row) == row.bytes = "sound" /\ epoch[t] <= seen

(* A row has been hashed.                                                  *)
Observe(k, row) ==
    LET now == op[k]
    IN  /\ At(k, "hash")
        /\ row \in now.rows
        /\ custody' = [custody EXCEPT ![TabOf[k]] = IF Records(TabOf[k], now.seen, row)
                                               THEN @ \cup {row.file}
                                               ELSE @ \ {row.file}]
        /\ Becomes(k, Observing(now, now.rows \ {row}))
        /\ UNCHANGED <<stored, epoch, inbox, untold>>

(***************************************************************************)
(* Changing the files: putArtifact, deleteArtifact, restoreCheckpoint,     *)
(* removeProject.                                                          *)
(***************************************************************************)
BeginPut(k, f) ==
    /\ At(k, "idle")
    /\ Forget(TabOf[k], {f})
    /\ Becomes(k, Doing("put", "put", {f}, epoch[TabOf[k]] + 1))
    /\ UNCHANGED <<stored, inbox, untold>>

(* The transaction: a new row is stored and then read back; a row that was *)
(* there is verified, and observed as of the start of the operation.       *)
Put(k) ==
    LET now == op[k]
    IN  \E f \in Files :
        /\ At(k, "put")
        /\ now.files = {f}
        /\ stored' = [stored EXCEPT ![f] = IF @ = "absent" THEN "sound" ELSE @]
        /\ Becomes(k, CASE stored[f] = "absent" -> [now EXCEPT !.at = "next",
                                                                  !.later = {f}]
                           [] stored[f] = "sound" -> Observing(now, {Row(f)})
                           [] stored[f] = "damaged" -> Idle)
        /\ UNCHANGED <<custody, epoch, inbox, untold>>

Cleanup(k) ==
    /\ At(k, "cleanup")
    /\ stored' = [f \in Files |-> IF f \in op[k].files THEN "absent" ELSE stored[f]]
    /\ Becomes(k, [op[k] EXCEPT !.at = "announce"])
    /\ UNCHANGED <<custody, epoch, inbox, untold>>

BeginDelete(k, f) ==
    /\ At(k, "idle")
    /\ Drop(TabOf[k], f)
    /\ Becomes(k, Doing("delete", "delete", {f}, epoch[TabOf[k]]))
    /\ UNCHANGED <<stored, epoch, inbox, untold>>

Delete(k) ==
    LET now == op[k]
    IN  /\ At(k, "delete")
        /\ stored' = [f \in Files |-> IF f \in now.files THEN "absent" ELSE stored[f]]
        /\ Becomes(k, IF stored' = stored THEN Idle
                                             ELSE [now EXCEPT !.at = "announce"])
        /\ UNCHANGED <<custody, epoch, inbox, untold>>

(* The transaction deletes every row and writes the retained ones.         *)
Restore(k, retained) ==
    /\ At(k, "idle")
    /\ stored' = [f \in Files |-> IF f \in retained THEN "sound" ELSE "absent"]
    /\ Becomes(k, Doing("restored", "restore", Files, epoch[TabOf[k]]))
    /\ UNCHANGED <<custody, epoch, inbox, untold>>

ListRestored(k) ==
    /\ At(k, "restored")
    /\ ForgetAll(TabOf[k])
    /\ Becomes(k, Doing("read", "restore", Files, epoch[TabOf[k]] + 1))
    /\ UNCHANGED <<stored, inbox>>

Remove(k) ==
    /\ At(k, "idle")
    /\ stored' = [f \in Files |-> "absent"]
    /\ Becomes(k, Doing("announce", "remove", Files, epoch[TabOf[k]]))
    /\ UNCHANGED <<custody, epoch, inbox, untold>>

(* Wrong: the tab that deleted a file tells the others and forgets nothing.*)
AnnounceOnly(k) ==
    /\ At(k, "announce")
    /\ UNCHANGED <<epoch, custody>>
    /\ Notify(TabOf[k], op[k].files)
    /\ Becomes(k, Idle)
    /\ UNCHANGED stored

(* After the commit the tab forgets what it held and tells the others; a   *)
(* restoring tab has forgotten before it listed the files.                 *)
Announce(k) ==
    /\ At(k, "announce")
    /\ IF op[k].kind = "restore"
         THEN UNCHANGED <<epoch, custody>>
         ELSE Forget(TabOf[k], op[k].files)
    /\ Notify(TabOf[k], op[k].files)
    /\ Becomes(k, Idle)
    /\ UNCHANGED stored

(***************************************************************************)
(* Saving: prepareProjectWrite observes the files of the state it is about *)
(* to decide on (observeProjectArtifactCustody), then recalculates.        *)
(***************************************************************************)
BeginWrite(k, current) ==
    /\ At(k, "idle")
    /\ ForgetAll(TabOf[k])
    /\ Becomes(k, [Doing("next", "write", {}, epoch[TabOf[k]] + 1) EXCEPT !.later = current])
    /\ UNCHANGED <<stored, inbox>>

(* getArtifact of the next file, in a save or to read back a stored one.   *)
GetNext(k, f) ==
    LET now == op[k]
    IN  /\ At(k, "next")
        /\ f \in now.later
        /\ Drop(TabOf[k], f)
        /\ Becomes(k, [now EXCEPT !.at = "read", !.files = {f},
                                     !.later = @ \ {f}, !.seen = epoch[TabOf[k]]])
        /\ UNCHANGED <<stored, epoch, inbox, untold>>

Deciding(k) == At(k, "next") /\ op[k].later = {}

Decide(k) ==
    /\ Deciding(k)
    /\ Becomes(k, Idle)
    /\ UNCHANGED <<stored, custody, epoch, inbox, untold>>

(***************************************************************************)
(* The channel, and the end of a page.                                     *)
(***************************************************************************)
Hear(t) ==
    /\ inbox[t] > 0
    /\ inbox' = [inbox EXCEPT ![t] = @ - 1]
    /\ ForgetAll(t)
    /\ UNCHANGED <<stored, op>>

(* The files an operation has changed and not yet announced.               *)
Unannounced(k) ==
    IF At(k, "announce") \/ At(k, "restored") THEN op[k].files
    ELSE IF ~At(k, "idle") /\ op[k].kind = "restore" THEN Files
    ELSE {}

Of(t) == {k \in Threads : TabOf[k] = t}

Close(t) ==
    /\ custody' = [custody EXCEPT ![t] = {}]
    /\ inbox' = [inbox EXCEPT ![t] = 0]
    /\ op' = [k \in Threads |-> IF TabOf[k] = t THEN Idle ELSE op[k]]
    /\ untold' = [u \in Tabs |-> IF u = t THEN {}
                                 ELSE untold[u] \cup UNION {Unannounced(k) : k \in Of(t)}]
    /\ UNCHANGED <<stored, epoch>>

(* What was stored intact since each save began.                            *)
Track ==
    held' = [k \in Threads |->
               IF op'[k] = Idle \/ op'[k].kind # "write" THEN {}
               ELSE (IF At(k, "idle") THEN Intact(stored) ELSE held[k])
                       \cup Intact(stored')]

Step(k) ==
    \/ \E f \in Files : BeginGet(k, f) \/ BeginPut(k, f) \/ BeginDelete(k, f)
    \/ BeginList(k)
    \/ \E files \in SUBSET Files : Restore(k, files) \/ BeginWrite(k, files)
    \/ Remove(k)
    \/ Read(k)
    \/ ReadFails(k)
    \/ At(k, "hash") /\ \E row \in op[k].rows : Observe(k, row)
    \/ Put(k)
    \/ Cleanup(k)
    \/ Delete(k)
    \/ ListRestored(k)
    \/ Announce(k)
    \/ \E f \in Files : GetNext(k, f)
    \/ Decide(k)

Next ==
    /\ \/ \E k \in Threads : Step(k)
       \/ \E t \in Tabs : Hear(t) \/ Close(t)
    /\ Track
    /\ UNCHANGED context

Spec == Init /\ [][Next]_vars

(***************************************************************************)
(* Properties.                                                             *)
(***************************************************************************)

(* Every variable keeps its type.                                          *)
TypeOK ==
    /\ stored \in [Files -> {"absent", "sound", "damaged"}]
    /\ custody \in [Tabs -> SUBSET Files]
    /\ epoch \in [Tabs -> 0 .. MaxEpoch]
    /\ inbox \in [Tabs -> Nat]
    /\ untold \in [Tabs -> SUBSET Files]
    /\ context \in Contexts
    /\ held \in [Threads -> SUBSET Files]
    /\ op \in [Threads -> {Idle} \cup
          [at : Places, kind : Kinds, files : SUBSET Files, later : SUBSET Files,
           seen : 0 .. MaxEpoch,
           rows : SUBSET [file : Files, bytes : {"sound", "damaged"}]]]

(* Another operation of the tab itself that has committed its change and   *)
(* not yet forgotten what it held, or one of another tab not yet heard of. *)
InFlight(t, f) ==
    \/ inbox[t] > 0
    \/ \E k \in Of(t) : At(k, "announce") \/ At(k, "restored")
    \/ \E k \in Threads \ Of(t) : f \in Unannounced(k)

(* A file that a tab holds to be verified is stored with the very bytes it *)
(* was verified with, unless word of the change is on its way, or no word  *)
(* is sent: to a page from its worker, or after a page died or failed      *)
(* behind its commit.  Hashing ends long after the row was read            *)
(* (observeArtifactCustody).                                               *)
CustodyMeansStored ==
    \A t \in Tabs : \A f \in custody[t] :
        stored[f] = "sound" \/ InFlight(t, f) \/ f \in untold[t]

(* When a save recalculates, every file held to be verified was stored     *)
(* intact at some time since the save began, also when no word of its      *)
(* deletion ever came (observeProjectArtifactCustody).                     *)
DecisionsAreFresh ==
    \A k \in Threads :
        op[k].at = "next" /\ op[k].kind = "write" => custody[TabOf[k]] \subseteq held[k]
=============================================================================
