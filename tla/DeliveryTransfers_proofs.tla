--------------------- MODULE DeliveryTransfers_proofs ---------------------
(***************************************************************************)
(* Proofs about DeliveryTransfers: type correctness, that the transfers    *)
(* begun under an intent never exceed its permission, that no version and  *)
(* no ledger is wrong about an outcome, and that outcomes settle.          *)
(*                                                                         *)
(* The argument follows a command.  Whatever version or ledger records it, *)
(* the ledger of the History knows it, under the same intent; none calls   *)
(* it FAILED while its transfer has begun or may still begin.  So what has *)
(* begun is counted in the ledger, and the count grows only by the attempt *)
(* of a page whose check of the ledger is of this very revision.           *)
(***************************************************************************)
EXTENDS DeliveryTransfers, FiniteSetTheorems, TLAPS

(* The commands whose transfer has begun or may still begin.               *)
MayBegin == {s \in Tabs : tab[s].phase \in {"recorded", "read"}}
Live == begun \cup {tab[s].command : s \in MayBegin}

\* Two records of a command name the same intent.
Agrees(attempts, transfers) ==
    \A c \in DOMAIN attempts :
        c \in DOMAIN transfers => attempts[c].intent = transfers[c].intent

Truthful(attempts, started, live) ==
    \A c \in DOMAIN attempts :
        /\ attempts[c].result = "FAILED" => c \notin live
        /\ attempts[c].result = "SUCCEEDED" => c \in started

\* What a version or a backup records is known to the ledger.
Known(attempts, transfers, started, live) ==
    /\ IsAttempts(attempts)
    /\ DOMAIN attempts \subseteq DOMAIN transfers
    /\ Agrees(attempts, transfers)
    /\ Truthful(attempts, started, live)

Counted(transfers, i) ==
    {c \in DOMAIN transfers :
        transfers[c].intent = i /\ transfers[c].result # "FAILED"}

\* What is stored; a command is no newer than the project.
StoreOK(p, transfers, k, started, live) ==
    /\ IsProject(p) /\ Known(p.attempts, transfers, started, live)
    /\ Known(transfers, transfers, started, live)
    /\ k = [version |-> k.version, ledger |-> k.ledger]
    /\ IsProject(k.version) /\ Known(k.version.attempts, transfers, started, live)
    /\ Known(k.ledger, transfers, started, live)
    /\ DOMAIN transfers \subseteq 1 .. p.rev
    /\ started \subseteq DOMAIN transfers
    /\ \A i \in Ids : Cardinality(Counted(transfers, i)) <= Permitted

Working == {"recorded", "read", "sent", "failed", "reread"}

TabType(v) ==
    /\ v = [current |-> v.current, phase |-> v.phase, delivery |-> v.delivery,
            command |-> v.command, seen |-> v.seen, started |-> v.started]
    /\ IsProject(v.current) /\ IsProject(v.seen)
    /\ v.phase \in {"idle", "checked"} \cup Working
    /\ v.delivery \in Ids /\ v.command \in Ids /\ v.started \in BOOLEAN

\* A page holds versions of the past.  At work on a command, it knows whether
\* the transfer has begun; when it has checked the permission, the ledger has
\* room for the command as long as its version is the stored one.
TabOK(v, rev, transfers, started, live) ==
    /\ TabType(v)
    /\ v.current.rev <= rev /\ v.seen.rev <= rev
    /\ Known(v.current.attempts, transfers, started, live)
    /\ Known(v.seen.attempts, transfers, started, live)
    /\ v.phase \in Working =>
         v.command \in DOMAIN transfers /\ (v.started <=> v.command \in started)
    /\ v.phase \in {"recorded", "read"} => ~v.started
    /\ v.phase = "sent" => v.started
    /\ v.phase = "checked" /\ v.current.rev = rev => ~Exhausted(transfers, v.current)

\* No two pages are at work on the same command.
OwnCommands ==
    \A s, t \in Tabs :
        /\ s # t
        /\ tab[s].phase \in Working /\ tab[t].phase \in Working
        => tab[s].command # tab[t].command

IInv ==
    /\ StoreOK(project, ledger, kept, begun, Live)
    /\ tab = [s \in Tabs |-> tab[s]]
    /\ \A s \in Tabs : TabOK(tab[s], project.rev, ledger, begun, Live)
    /\ OwnCommands

-----------------------------------------------------------------------------
(* What the operators on attempts do.                                      *)

\* The ledger takes over a record without forgetting a command, changing its
\* intent, taking an outcome back or inventing anything.
LEMMA TakesOver ==
    ASSUME NEW T, NEW A
    PROVE  /\ DOMAIN TakenOver(T, A) = DOMAIN T \cup DOMAIN A
           /\ \A c \in DOMAIN TakenOver(T, A) :
                 \/ c \in DOMAIN T /\ TakenOver(T, A)[c] = T[c]
                 \/ c \in DOMAIN A /\ TakenOver(T, A)[c] = A[c]
           /\ \A c \in DOMAIN T :
                 T[c].result \in Final => TakenOver(T, A)[c] = T[c]
    BY DEF TakenOver

\* Merging a true record into a true ledger that names the same intents yields
\* a true ledger, in which no old command counts that did not count before.
LEMMA MergeKeeps ==
    ASSUME NEW T, NEW A, NEW started, NEW live,
           IsAttempts(T), IsAttempts(A), Agrees(A, T),
           Truthful(T, started, live), Truthful(A, started, live),
           NEW R, R = TakenOver(T, A)
    PROVE  /\ Known(R, R, started, live)
           /\ Known(A, R, started, live)
           /\ DOMAIN R = DOMAIN T \cup DOMAIN A
           /\ Agrees(T, R)
           /\ \A i : Counted(R, i) \cap DOMAIN T \subseteq Counted(T, i)
  <1>1. DOMAIN R = DOMAIN T \cup DOMAIN A
    BY TakesOver
  <1>2. ASSUME NEW c \in DOMAIN R
        PROVE  \/ c \in DOMAIN T /\ R[c] = T[c]
               \/ c \in DOMAIN A /\ R[c] = A[c]
    BY TakesOver
  <1>3. ASSUME NEW c \in DOMAIN T, T[c].result \in Final
        PROVE  R[c] = T[c]
    BY <1>3, TakesOver
  <1>4. IsAttempts(R)
    BY <1>1, <1>2 DEF IsAttempts
  <1>5. Truthful(R, started, live)
    BY <1>2 DEF Truthful
  <1>6. Agrees(A, R) /\ Agrees(T, R)
    BY <1>1, <1>2 DEF Agrees
  <1>7. ASSUME NEW i
        PROVE  Counted(R, i) \cap DOMAIN T \subseteq Counted(T, i)
    BY <1>1, <1>3, <1>6 DEF Counted, Agrees, Final
  <1> QED
    BY <1>1, <1>4, <1>5, <1>6, <1>7 DEF Known, Agrees

\* What is known stays known when the ledger learns of further commands, more
\* transfers begin, and no recorded command becomes live again.
LEMMA KnownStays ==
    ASSUME NEW A, NEW T, NEW B, NEW L, NEW T2, NEW B2, NEW L2,
           Known(A, T, B, L),
           DOMAIN T \subseteq DOMAIN T2, Agrees(T, T2),
           B \subseteq B2, L2 \cap DOMAIN T \subseteq L
    PROVE  Known(A, T2, B2, L2)
    BY DEF Known, Agrees, Truthful

\* The attempts counted for an item are finitely many.
LEMMA CountIsFinite ==
    ASSUME NEW T, IsAttempts(T), NEW i
    PROVE  IsFiniteSet(Counted(T, i)) /\ Cardinality(Counted(T, i)) \in Nat
  <1>1. IsFiniteSet(Commands)
    BY FS_Interval, DeliveryConstants DEF Commands
  <1>2. Counted(T, i) \in SUBSET Commands
    BY DEF Counted, IsAttempts
  <1> QED
    BY <1>1, <1>2, FS_Subset, FS_CardinalityType

\* The intent of a release is one of the identities.
LEMMA IntentType ==
    ASSUME NEW p, IsProject(p)
    PROVE  deliveryIntentRecord(p) \in Ids
  <1>1. Cardinality(p.intents) = 1 => p.intents # {}
    BY FS_EmptySet
  <1> QED
    BY <1>1, DeliveryConstants DEF deliveryIntentRecord, IsProject, Ids, None

\* Every command that still counts under the intent of a version is among those
\* that exhaust its permission.
LEMMA RoomInLedger ==
    ASSUME NEW T, IsAttempts(T), NEW p, IsProject(p), ~Exhausted(T, p)
    PROVE  Cardinality(Counted(T, deliveryIntentRecord(p))) < Permitted
  <1> DEFINE i == deliveryIntentRecord(p)
  <1> DEFINE S == Consumed(T, i, p.auth.id)
  <1>1. IsFiniteSet(Commands)
    BY FS_Interval, DeliveryConstants DEF Commands
  <1>2. S \in SUBSET Commands
    BY DEF Consumed, IsAttempts
  <1>3. IsFiniteSet(S) /\ Cardinality(S) \in Nat
    BY <1>1, <1>2, FS_Subset, FS_CardinalityType
  <1>4. Counted(T, i) \in SUBSET S
    BY DEF Counted, Consumed
  <1>5. Cardinality(Counted(T, i)) <= Cardinality(S)
    BY <1>3, <1>4, FS_Subset
  <1>6. ~(Cardinality(S) >= Permitted)
    BY DEF Exhausted
  <1>7. Cardinality(Counted(T, i)) \in Nat /\ Permitted \in Nat
    BY CountIsFinite, DeliveryConstants
  <1> HIDE DEF i, S
  <1>8. Cardinality(Counted(T, i)) < Permitted
    BY <1>3, <1>5, <1>6, <1>7
  <1> QED
    BY <1>8 DEF i

-----------------------------------------------------------------------------
(* What a step does to what is stored and to the pages.                    *)

\* The version a save installs.
LEMMA InstalledProject ==
    ASSUME MayRevise, IsProject(project), NEW next, IsProject(next),
           NEW transfers, Install(next, transfers)
    PROVE  /\ IsProject(project') /\ project'.rev = Fresh /\ Fresh \in Ids \ {0}
           /\ project'.attempts = next.attempts
           /\ ledger' = transfers
           /\ \/ kept' = kept
              \/ kept' = [version |-> project', ledger |-> transfers]
  <1>1. project.rev \in Nat /\ Fresh \in Ids \ {0}
    BY DeliveryConstants DEF IsProject, Ids, MayRevise, Fresh
  <1>2. project' = [next EXCEPT !.rev = Fresh]
    BY DEF Install, Fresh
  <1>3. IsProject(project') /\ project'.rev = Fresh /\ project'.attempts = next.attempts
    BY <1>1, <1>2 DEF IsProject
  <1> QED
    BY <1>1, <1>3 DEF Install

\* A page that takes no part keeps what it knows when a version is installed:
\* its own version is of the past from then on.
LEMMA OthersInstall ==
    ASSUME NEW v, NEW rev \in Nat, NEW T, NEW B, NEW L, NEW T2, NEW L2,
           TabOK(v, rev, T, B, L),
           DOMAIN T \subseteq DOMAIN T2, Agrees(T, T2), L2 \cap DOMAIN T \subseteq L
    PROVE  TabOK(v, rev + 1, T2, B, L2)
  <1>1. v.current.rev \in Nat /\ v.seen.rev \in Nat
    BY DEF TabOK, TabType, IsProject, Ids
  <1>2. v.current.rev <= rev + 1 /\ v.seen.rev <= rev + 1 /\ v.current.rev # rev + 1
    BY <1>1 DEF TabOK
  <1>3. Known(v.current.attempts, T2, B, L2) /\ Known(v.seen.attempts, T2, B, L2)
    BY KnownStays DEF TabOK
  <1> QED
    BY <1>2, <1>3 DEF TabOK

\* A page that takes no part keeps what it knows while nothing is stored.
LEMMA OthersMove ==
    ASSUME NEW v, NEW rev, NEW T, NEW B, NEW L, NEW B2, NEW L2,
           TabOK(v, rev, T, B, L), B \subseteq B2, L2 \subseteq L,
           v.phase \in Working => (v.command \in B2 <=> v.command \in B)
    PROVE  TabOK(v, rev, T, B2, L2)
  <1>1. Known(v.current.attempts, T, B2, L2) /\ Known(v.seen.attempts, T, B2, L2)
    BY KnownStays DEF TabOK, Agrees
  <1> QED
    BY <1>1 DEF TabOK

\* A page that has just loaded a version.
LEMMA IdleOK ==
    ASSUME NEW p, IsProject(p), NEW rev \in Nat, p.rev <= rev,
           NEW T, NEW B, NEW L, Known(p.attempts, T, B, L)
    PROVE  TabOK(Idle(p), rev, T, B, L)
    BY DeliveryConstants DEF TabOK, TabType, Idle, Ids, None, Working

\* Storing a version and a ledger that know of each other leaves everything
\* stored known.
LEMMA InstallKeeps ==
    ASSUME IInv, MayRevise, NEW next, IsProject(next), NEW transfers, NEW live,
           Install(next, transfers),
           Known(next.attempts, transfers, begun, live),
           Known(transfers, transfers, begun, live),
           DOMAIN ledger \subseteq DOMAIN transfers, Agrees(ledger, transfers),
           DOMAIN transfers \subseteq DOMAIN ledger \cup {Fresh},
           live \cap DOMAIN ledger \subseteq Live,
           \A i \in Ids : Cardinality(Counted(transfers, i)) <= Permitted
    PROVE  /\ StoreOK(project', transfers, kept', begun, live)
           /\ \A s \in Tabs : TabOK(tab[s], Fresh, transfers, begun, live)
           /\ TabOK(Idle(project'), Fresh, transfers, begun, live)
  <1> USE DEF IInv
  <1>1. /\ IsProject(project') /\ project'.rev = Fresh /\ Fresh \in Ids \ {0}
        /\ project'.attempts = next.attempts
        /\ \/ kept' = kept
           \/ kept' = [version |-> project', ledger |-> transfers]
    BY InstalledProject DEF StoreOK
  <1>2. project.rev \in Nat /\ Fresh = project.rev + 1
    BY DEF StoreOK, IsProject, Ids, Fresh
  <1>3. /\ Known(kept.version.attempts, transfers, begun, live)
        /\ Known(kept.ledger, transfers, begun, live)
    BY KnownStays DEF StoreOK
  <1>4. /\ kept' = [version |-> kept'.version, ledger |-> kept'.ledger]
        /\ IsProject(kept'.version)
        /\ Known(kept'.version.attempts, transfers, begun, live)
        /\ Known(kept'.ledger, transfers, begun, live)
    <2>1. CASE kept' = kept
      BY <2>1, <1>3 DEF StoreOK
    <2>2. CASE kept' = [version |-> project', ledger |-> transfers]
      BY <2>2, <1>1
    <2> QED
      BY <1>1, <2>1, <2>2
  <1>5. DOMAIN transfers \subseteq 1 .. Fresh /\ begun \subseteq DOMAIN transfers
    BY <1>2 DEF StoreOK
  <1>6. StoreOK(project', transfers, kept', begun, live)
    BY <1>1, <1>4, <1>5 DEF StoreOK
  <1>7. ASSUME NEW s \in Tabs
        PROVE  TabOK(tab[s], Fresh, transfers, begun, live)
    BY <1>2, OthersInstall
  <1>8. TabOK(Idle(project'), Fresh, transfers, begun, live)
    BY <1>1, IdleOK DEF Ids
  <1> QED
    BY <1>6, <1>7, <1>8

\* Only what its own page opens becomes live.
LEMMA LiveShrinks ==
    ASSUME NEW s \in Tabs, tab = [t \in Tabs |-> tab[t]], NEW v,
           tab' = [tab EXCEPT ![s] = v], begun' \subseteq Live,
           v.phase \in {"recorded", "read"} =>
               tab[s].phase \in {"recorded", "read"} /\ v.command = tab[s].command
    PROVE  Live' \subseteq Live
    BY DEF Live, MayBegin

\* The invariant holds again when it holds of what is stored and of the page
\* that took the step, and the others still know what they knew.
LEMMA Assemble ==
    ASSUME IInv, NEW s \in Tabs, NEW v, tab' = [tab EXCEPT ![s] = v],
           StoreOK(project', ledger', kept', begun', Live'),
           TabOK(v, project'.rev, ledger', begun', Live'),
           \A t \in Tabs \ {s} : TabOK(tab[t], project'.rev, ledger', begun', Live'),
           v.phase \in Working =>
             \A t \in Tabs \ {s} :
               tab[t].phase \in Working => tab[t].command # v.command
    PROVE  IInv'
  <1>1. /\ tab' = [t \in Tabs |-> tab'[t]]
        /\ tab'[s] = v /\ \A t \in Tabs \ {s} : tab'[t] = tab[t]
    BY DEF IInv
  <1>2. \A t \in Tabs : TabOK(tab'[t], project'.rev, ledger', begun', Live')
    BY <1>1
  <1>3. OwnCommands'
    BY <1>1 DEF OwnCommands, IInv
  <1> QED
    BY <1>1, <1>2, <1>3 DEF IInv

\* A ledger that has learned no new command and frees no permission.
Refines(transfers) ==
    /\ Known(transfers, transfers, begun, Live)
    /\ DOMAIN transfers = DOMAIN ledger
    /\ Agrees(ledger, transfers)
    /\ \A i : Counted(transfers, i) \subseteq Counted(ledger, i)

\* The recorded attempts refine themselves.
LEMMA RefinesItself ==
    ASSUME IInv
    PROVE  Refines(ledger)
    BY DEF IInv, StoreOK, Refines, Known

\* What is merged from known attempts still refines the record.
LEMMA RefinesMerged ==
    ASSUME IInv, NEW T, Refines(T), NEW A, Known(A, ledger, begun, Live)
    PROVE  /\ Refines(TakenOver(T, A))
           /\ Known(A, TakenOver(T, A), begun, Live)
  <1> DEFINE R == TakenOver(T, A)
  <1>1. IsAttempts(T) /\ IsAttempts(A) /\ Agrees(A, T)
        /\ Truthful(T, begun, Live) /\ Truthful(A, begun, Live)
    BY DEF Refines, Known, Agrees
  <1> HIDE DEF R
  <1>2. /\ Known(R, R, begun, Live) /\ Known(A, R, begun, Live)
        /\ DOMAIN R = DOMAIN T \cup DOMAIN A
        /\ Agrees(T, R)
        /\ \A i : Counted(R, i) \cap DOMAIN T \subseteq Counted(T, i)
    BY <1>1, MergeKeeps DEF R
  <1>3. DOMAIN R = DOMAIN ledger /\ DOMAIN T = DOMAIN ledger
    BY <1>2 DEF Refines, Known
  <1>4. Agrees(ledger, R)
    BY <1>2, <1>3 DEF Refines, Agrees
  <1>5. \A i : Counted(R, i) \subseteq Counted(ledger, i)
    <2>1. \A i : Counted(R, i) \subseteq DOMAIN R
      BY DEF Counted
    <2> QED
      BY <2>1, <1>2, <1>3 DEF Refines
  <1>6. Refines(R)
    BY <1>2, <1>3, <1>4, <1>5 DEF Refines
  <1> QED
    BY <1>2, <1>6 DEF R

\* A save that records no new command, after which its page is at work on
\* nothing, or on the command it was at work on.
LEMMA SaveKeeps ==
    ASSUME IInv, MayRevise, NEW s \in Tabs, NEW v, tab' = [tab EXCEPT ![s] = v],
           NEW next, IsProject(next), NEW transfers, Refines(transfers),
           Known(next.attempts, transfers, begun, Live),
           Install(next, transfers), begun' = begun,
           \/ v = Idle(project')
           \/ /\ tab[s].phase = "sent"
              /\ v = [tab[s] EXCEPT !.current = project', !.phase = "failed"]
    PROVE  IInv'
  <1>1. /\ IsProject(project') /\ project'.rev = Fresh /\ Fresh \in Ids \ {0}
        /\ project'.attempts = next.attempts /\ ledger' = transfers
    BY InstalledProject DEF IInv, StoreOK
  <1>2. project.rev \in Nat /\ Fresh = project.rev + 1
    BY DEF IInv, StoreOK, IsProject, Ids, Fresh
  <1>3. TabOK(tab[s], project.rev, ledger, begun, Live)
    BY DEF IInv
  <1>4. v.phase \notin {"recorded", "read"}
        /\ (v.phase \in Working => tab[s].phase = "sent" /\ v.command = tab[s].command)
    <2>1. TabType(tab[s])
      BY <1>3 DEF TabOK
    <2>2. v = Idle(project')
          \/ v = [current |-> project', phase |-> "failed",
                  delivery |-> tab[s].delivery, command |-> tab[s].command,
                  seen |-> tab[s].seen, started |-> tab[s].started]
      BY <2>1 DEF TabType
    <2> QED
      BY <2>2 DEF Idle, Working
  <1>5. Live' \subseteq Live
    <2>1. begun' \subseteq Live /\ tab = [t \in Tabs |-> tab[t]]
      BY DEF IInv, Live
    <2> QED
      BY <1>4, <2>1, LiveShrinks
  <1>6. /\ Known(next.attempts, transfers, begun, Live')
        /\ Known(transfers, transfers, begun, Live')
    BY <1>5, KnownStays DEF Refines, Agrees
  <1>7. \A i \in Ids : Cardinality(Counted(transfers, i)) <= Permitted
    <2> SUFFICES ASSUME NEW i \in Ids
                 PROVE  Cardinality(Counted(transfers, i)) <= Permitted
      OBVIOUS
    <2>1. IsAttempts(ledger) /\ IsAttempts(transfers)
      BY DEF IInv, StoreOK, Known, Refines
    <2>2. /\ IsFiniteSet(Counted(ledger, i)) /\ Cardinality(Counted(ledger, i)) \in Nat
          /\ Cardinality(Counted(transfers, i)) \in Nat
      BY <2>1, CountIsFinite
    <2>3. Cardinality(Counted(transfers, i)) <= Cardinality(Counted(ledger, i))
      BY <2>2, FS_Subset DEF Refines
    <2> QED
      BY <2>2, <2>3, DeliveryConstants DEF IInv, StoreOK
  <1>8. /\ StoreOK(project', transfers, kept', begun, Live')
        /\ \A t \in Tabs : TabOK(tab[t], Fresh, transfers, begun, Live')
        /\ TabOK(Idle(project'), Fresh, transfers, begun, Live')
    BY <1>5, <1>6, <1>7, InstallKeeps DEF Refines
  <1>9. TabOK(v, Fresh, transfers, begun, Live')
    <2>1. CASE v = Idle(project')
      BY <2>1, <1>8
    <2>2. CASE /\ tab[s].phase = "sent"
               /\ v = [tab[s] EXCEPT !.current = project', !.phase = "failed"]
      <3>1. TabOK(tab[s], Fresh, transfers, begun, Live')
        BY <1>8
      <3>2. v = [current |-> project', phase |-> "failed", delivery |-> tab[s].delivery,
                 command |-> tab[s].command, seen |-> tab[s].seen,
                 started |-> tab[s].started]
        BY <2>2, <3>1 DEF TabOK, TabType
      <3>3. project'.rev <= Fresh /\ Known(project'.attempts, transfers, begun, Live')
        BY <1>1, <1>2, <1>6
      <3> QED
        BY <2>2, <3>1, <3>2, <3>3, <1>1 DEF TabOK, TabType, Working
    <2> QED
      BY <2>1, <2>2
  <1>10. v.phase \in Working =>
           \A t \in Tabs \ {s} :
             tab[t].phase \in Working => tab[t].command # v.command
    BY <1>4 DEF IInv, OwnCommands, Working
  <1> QED
    BY <1>1, <1>8, <1>9, <1>10, Assemble

\* A page moves on without storing anything; it begins no transfer but that of
\* the command whose project it has read.
LEMMA MoveKeeps ==
    ASSUME IInv, NEW s \in Tabs, NEW v, Moves(s, v), begun \subseteq begun',
           begun' # begun => begun' = begun \cup {tab[s].command}
                               /\ tab[s].phase = "read" /\ v.phase \in Working,
           v.phase \in Working => tab[s].phase \in Working
                                   /\ v.command = tab[s].command
                                   /\ (v.started <=> v.command \in begun'),
           v.phase \in {"recorded", "read"} =>
               tab[s].phase \in {"recorded", "read"} /\ ~v.started,
           v.phase = "sent" => v.started,
           v.phase = "checked" => ~Exhausted(ledger, v.current),
           TabType(v),
           v.current \in {tab[s].current, tab[s].seen, project},
           v.seen \in {tab[s].current, tab[s].seen, project}
    PROVE  IInv'
  <1> USE DEF IInv, Moves
  <1>1. TabOK(tab[s], project.rev, ledger, begun, Live)
    OBVIOUS
  <1>2. Live' \subseteq Live
    <2>1. begun' \subseteq Live
      BY DEF Live, MayBegin
    <2> QED
      BY <2>1, LiveShrinks DEF Working
  <1>3. ASSUME NEW A, Known(A, ledger, begun, Live)
        PROVE  Known(A, ledger, begun', Live')
    BY <1>2, <1>3, KnownStays DEF Agrees
  <1>4. begun' \subseteq DOMAIN ledger
    BY <1>1 DEF StoreOK, TabOK, Working
  <1>5. StoreOK(project, ledger, kept, begun', Live')
    BY <1>3, <1>4 DEF StoreOK
  <1>6. project.rev \in Nat /\ IsProject(project)
        /\ Known(project.attempts, ledger, begun, Live)
    BY DEF StoreOK, IsProject, Ids
  <1>7. /\ v.current.rev <= project.rev /\ v.seen.rev <= project.rev
        /\ Known(v.current.attempts, ledger, begun, Live)
        /\ Known(v.seen.attempts, ledger, begun, Live)
    BY <1>1, <1>6 DEF TabOK
  <1>8. v.phase \in Working => v.command \in DOMAIN ledger
    BY <1>1 DEF TabOK
  <1>9. TabOK(v, project.rev, ledger, begun', Live')
    BY <1>3, <1>7, <1>8 DEF TabOK
  <1>10. ASSUME NEW t \in Tabs \ {s}
         PROVE  TabOK(tab[t], project.rev, ledger, begun', Live')
    <2>1. TabOK(tab[t], project.rev, ledger, begun, Live)
      OBVIOUS
    <2>2. tab[t].phase \in Working =>
            (tab[t].command \in begun' <=> tab[t].command \in begun)
      BY DEF OwnCommands, Working
    <2> QED
      BY <1>2, <2>1, <2>2, OthersMove
  <1>11. v.phase \in Working =>
           \A t \in Tabs \ {s} :
             tab[t].phase \in Working => tab[t].command # v.command
    BY DEF OwnCommands
  <1> QED
    BY <1>5, <1>9, <1>10, <1>11, Assemble

-----------------------------------------------------------------------------
(* Each action preserves the invariant.                                    *)

\* No attempt is recorded at first.
LEMMA InitIInv == Init => IInv
  <1> SUFFICES ASSUME Init
               PROVE  IInv
    OBVIOUS
  <1>1. IsProject(AuthorizedProject)
    BY DeliveryConstants DEF AuthorizedProject, IsProject, IsAttempts, Ids
  <1>2. \A B, L : Known(<<>>, <<>>, B, L)
    BY DEF Known, Agrees, Truthful, IsAttempts
  <1>3. AuthorizedProject.attempts = <<>> /\ AuthorizedProject.rev = 1
    BY DEF AuthorizedProject
  <1>4. \A i : Cardinality(Counted(<<>>, i)) = 0
    <2>1. \A i : Counted(<<>>, i) = {}
      BY DEF Counted
    <2> QED
      BY <2>1, FS_EmptySet
  <1>5. StoreOK(project, ledger, kept, begun, Live)
    BY <1>1, <1>2, <1>3, <1>4, DeliveryConstants DEF Init, StoreOK
  <1>6. \A s \in Tabs : TabOK(tab[s], project.rev, ledger, begun, Live)
    BY <1>1, <1>2, <1>3, IdleOK DEF Init
  <1>7. tab = [s \in Tabs |-> tab[s]] /\ OwnCommands
    BY DEF Init, OwnCommands, Idle, Working
  <1> QED
    BY <1>5, <1>6, <1>7 DEF IInv

\* An edit changes no attempts.
LEMMA EditIInv ==
    ASSUME IInv, NEW s \in Tabs, NEW next, Edit(s, next),
           IsProject(next), next.attempts = project.attempts
    PROVE  IInv'
  <1> DEFINE R == TakenOver(ledger, next.attempts)
  <1>1. Known(next.attempts, ledger, begun, Live)
    BY DEF IInv, StoreOK
  <1>2. Refines(R) /\ Known(next.attempts, R, begun, Live)
    BY <1>1, RefinesItself, RefinesMerged
  <1>3. /\ MayRevise /\ Install(next, R) /\ begun' = begun
        /\ tab' = [tab EXCEPT ![s] = Idle(project')]
    BY DEF Edit, Save, reconcileRecoveryTransfers
  <1> HIDE DEF R
  <1> QED
    BY <1>2, <1>3, SaveKeeps

\* The project is edited without touching its attempts.
LEMMA EditsIInv ==
    ASSUME IInv, NEW s \in Tabs,
           \/ Correct(s) \/ ReviseEvidence(s)
           \/ captureDeliveryIntent(s) \/ calculateTerminal(s)
    PROVE  IInv'
  <1>1. IsProject(project)
    BY DEF IInv, StoreOK
  <1>2. MayRevise => Fresh \in Ids
    BY <1>1, DeliveryConstants DEF IsProject, Ids, MayRevise, Fresh
  <1>3. MayRevise
    <2>1. \A next : Edit(s, next) => MayRevise
      BY DEF Edit
    <2> QED
      BY <2>1 DEF Correct, ReviseEvidence, captureDeliveryIntent, calculateTerminal
  <1>4. CASE Correct(s)
    <2> DEFINE next == [project EXCEPT !.release = Fresh, !.intents = {}]
    <2>1. IsProject(next) /\ next.attempts = project.attempts
      <3> DEFINE corrected == [project EXCEPT !.release = Fresh]
      <3>1. IsProject(corrected) /\ corrected.attempts = project.attempts
        BY <1>1, <1>2, <1>3 DEF IsProject
      <3>2. next = [corrected EXCEPT !.intents = {}]
        OBVIOUS
      <3> HIDE DEF corrected, next
      <3> QED
        BY <3>1, <3>2 DEF IsProject
    <2>2. Edit(s, next)
      BY <1>4 DEF Correct
    <2> HIDE DEF next
    <2> QED
      BY <2>1, <2>2, EditIInv
  <1>5. CASE ReviseEvidence(s)
    <2> DEFINE next == [project EXCEPT !.evidence = Fresh]
    <2>1. IsProject(next) /\ next.attempts = project.attempts
      BY <1>1, <1>2, <1>3 DEF IsProject
    <2>2. Edit(s, next)
      BY <1>5 DEF ReviseEvidence
    <2> HIDE DEF next
    <2> QED
      BY <2>1, <2>2, EditIInv
  <1>6. CASE captureDeliveryIntent(s)
    <2> DEFINE next == [project EXCEPT !.intents = @ \cup {Fresh}]
    <2>1. IsProject(next) /\ next.attempts = project.attempts
      BY <1>1, <1>2, <1>3 DEF IsProject
    <2>2. Edit(s, next)
      BY <1>6 DEF captureDeliveryIntent
    <2> HIDE DEF next
    <2> QED
      BY <2>1, <2>2, EditIInv
  <1>7. CASE calculateTerminal(s)
    <2> DEFINE next == [project EXCEPT !.auth = Authorization(project)]
    <2>1. Authorization(project)
            \in [id : Ids, release : Ids, evidence : Ids, intent : Ids]
      BY <1>1, <1>2, <1>3, IntentType, DeliveryConstants
         DEF Authorization, Unauthorized, None, Ids, IsProject
    <2>2. IsProject(next) /\ next.attempts = project.attempts
      BY <1>1, <2>1 DEF IsProject
    <2> QED
      BY <1>7, <2>2, EditIInv DEF calculateTerminal
  <1> QED
    BY <1>4, <1>5, <1>6, <1>7

\* A restoration keeps the attempts recorded since.
LEMMA RestoreIInv ==
    ASSUME IInv, NEW s \in Tabs, restoreCheckpoint(s)
    PROVE  IInv'
  <1>1. /\ IsProject(kept.version)
        /\ Known(kept.version.attempts, ledger, begun, Live)
    BY DEF IInv, StoreOK
  <1>2. /\ MayRevise /\ Install(kept.version, ledger) /\ begun' = begun
        /\ tab' = [tab EXCEPT ![s] = Idle(project')]
    BY DEF restoreCheckpoint
  <1> QED
    BY <1>1, <1>2, RefinesItself, SaveKeeps

\* An import merges the attempts of the backup.
LEMMA ImportIInv ==
    ASSUME IInv, NEW s \in Tabs, importPackage(s)
    PROVE  IInv'
  <1> DEFINE T == TakenOver(ledger, kept.ledger)
             R == TakenOver(T, kept.version.attempts)
  <1>1. /\ IsProject(kept.version)
        /\ Known(kept.version.attempts, ledger, begun, Live)
        /\ Known(kept.ledger, ledger, begun, Live)
    BY DEF IInv, StoreOK
  <1>2. /\ MayRevise /\ Install(kept.version, R) /\ begun' = begun
        /\ tab' = [tab EXCEPT ![s] = Idle(project')]
    BY DEF importPackage, reconcileRecoveryTransfers
  <1>3. Refines(T)
    BY <1>1, RefinesItself, RefinesMerged
  <1> HIDE DEF T
  <1>4. Refines(R) /\ Known(kept.version.attempts, R, begun, Live)
    BY <1>1, <1>3, RefinesMerged
  <1> HIDE DEF R
  <1> QED
    BY <1>1, <1>2, <1>4, SaveKeeps

\* What any step of a page starts from.
LEMMA PageFacts ==
    ASSUME IInv, NEW s \in Tabs
    PROVE  /\ TabOK(tab[s], project.rev, ledger, begun, Live)
           /\ TabType(tab[s]) /\ IsProject(project)
           /\ IsProject(tab[s].current) /\ IsProject(tab[s].seen)
           /\ project.rev \in Nat
    BY DEF IInv, StoreOK, TabOK, TabType, IsProject, Ids

\* A page that shows a version and is at work on nothing.
LEMMA IdleMove ==
    ASSUME IInv, NEW s \in Tabs, NEW p \in {tab[s].current, project},
           Moves(s, Idle(p)), begun' = begun
    PROVE  IInv'
  <1>1. IsProject(p)
    BY PageFacts
  <1>2. TabType(Idle(p)) /\ Idle(p).phase = "idle"
        /\ Idle(p).current = p /\ Idle(p).seen = p
    BY <1>1, DeliveryConstants DEF TabType, Idle, None, Ids
  <1> QED
    BY <1>2, MoveKeeps DEF Working

\* A tab that reloads or gives up forgets only its own request.
LEMMA LeavingIInv ==
    ASSUME IInv, NEW s \in Tabs, Reload(s) \/ Abandon(s)
    PROVE  IInv'
  <1>1. CASE Reload(s)
    BY <1>1, IdleMove DEF Reload, Moves
  <1>2. CASE Abandon(s)
    BY <1>2, IdleMove DEF Abandon
  <1> QED
    BY <1>1, <1>2

\* A page, from its fields.
PageOf(current, phase, delivery, command, seen, started) ==
    [current |-> current, phase |-> phase, delivery |-> delivery,
     command |-> command, seen |-> seen, started |-> started]

\* The phase of a tab, replaced.
LEMMA ChangedPhase ==
    ASSUME NEW v, TabType(v), NEW a
    PROVE  [v EXCEPT !.phase = a] =
             PageOf(v.current, a, v.delivery, v.command, v.seen, v.started)
    BY DEF TabType, PageOf

\* The phase and the delivery of a tab, replaced.
LEMMA ChangedPhaseAndDelivery ==
    ASSUME NEW v, TabType(v), NEW a, NEW b
    PROVE  [v EXCEPT !.phase = a, !.delivery = b] =
             PageOf(v.current, a, b, v.command, v.seen, v.started)
  <1> DEFINE w == [v EXCEPT !.phase = a]
  <1>1. w = PageOf(v.current, a, v.delivery, v.command, v.seen, v.started)
    BY ChangedPhase
  <1>2. [v EXCEPT !.phase = a, !.delivery = b] = [w EXCEPT !.delivery = b]
    OBVIOUS
  <1> HIDE DEF w
  <1> QED
    BY <1>1, <1>2 DEF PageOf

\* The phase and the version of a tab, replaced.
LEMMA ChangedPhaseAndSeen ==
    ASSUME NEW v, TabType(v), NEW a, NEW b
    PROVE  [v EXCEPT !.phase = a, !.seen = b] =
             PageOf(v.current, a, v.delivery, v.command, b, v.started)
  <1> DEFINE w == [v EXCEPT !.phase = a]
  <1>1. w = PageOf(v.current, a, v.delivery, v.command, v.seen, v.started)
    BY ChangedPhase
  <1>2. [v EXCEPT !.phase = a, !.seen = b] = [w EXCEPT !.seen = b]
    OBVIOUS
  <1> HIDE DEF w
  <1> QED
    BY <1>1, <1>2 DEF PageOf

\* The phase and the started attempt of a tab, replaced.
LEMMA ChangedPhaseAndStarted ==
    ASSUME NEW v, TabType(v), NEW a, NEW b
    PROVE  [v EXCEPT !.phase = a, !.started = b] =
             PageOf(v.current, a, v.delivery, v.command, v.seen, b)
  <1> DEFINE w == [v EXCEPT !.phase = a]
  <1>1. w = PageOf(v.current, a, v.delivery, v.command, v.seen, v.started)
    BY ChangedPhase
  <1>2. [v EXCEPT !.phase = a, !.started = b] = [w EXCEPT !.started = b]
    OBVIOUS
  <1> HIDE DEF w
  <1> QED
    BY <1>1, <1>2 DEF PageOf

\* The version of a tab, replaced.
LEMMA ChangedVersion ==
    ASSUME NEW v, TabType(v), NEW a, NEW b
    PROVE  [v EXCEPT !.current = b, !.phase = a] =
             PageOf(b, a, v.delivery, v.command, v.seen, v.started)
  <1> DEFINE w == [v EXCEPT !.current = b]
  <1>1. w = PageOf(b, v.phase, v.delivery, v.command, v.seen, v.started)
    BY DEF TabType, PageOf
  <1>2. [v EXCEPT !.current = b, !.phase = a] = [w EXCEPT !.phase = a]
    OBVIOUS
  <1> HIDE DEF w
  <1> QED
    BY <1>1, <1>2 DEF PageOf

\* Two changes of one page are one change of it.
LEMMA UpdatedTwice ==
    ASSUME tab = [t \in Tabs |-> tab[t]], NEW s \in Tabs, NEW b, NEW a
    PROVE  [tab EXCEPT ![s].current = b, ![s].phase = a] =
             [tab EXCEPT ![s] = [tab[s] EXCEPT !.current = b, !.phase = a]]
  <1> DEFINE w == [tab[s] EXCEPT !.current = b]
             f == [tab EXCEPT ![s] = w]
  <1>1. [tab EXCEPT ![s].current = b, ![s].phase = a] = [f EXCEPT ![s].phase = a]
    OBVIOUS
  <1>2. [tab[s] EXCEPT !.current = b, !.phase = a] = [w EXCEPT !.phase = a]
    OBVIOUS
  <1>3. f[s] = w /\ DOMAIN f = Tabs /\ \A t \in Tabs \ {s} : f[t] = tab[t]
    OBVIOUS
  <1>4. [f EXCEPT ![s].phase = a] = [f EXCEPT ![s] = [w EXCEPT !.phase = a]]
    BY <1>3
  <1> HIDE DEF w
  <1>5. \A u : [f EXCEPT ![s] = u] = [tab EXCEPT ![s] = u]
    OBVIOUS
  <1> QED
    BY <1>1, <1>2, <1>4, <1>5

\* A request advances without recording anything.
LEMMA MovesIInv ==
    ASSUME IInv, NEW s \in Tabs,
           \/ BeginExport(s) \/ ReadBeforeTransfer(s) \/ Transfer(s)
           \/ RefuseTransfer(s) \/ FailSuccess(s) \/ ReadAfterFailure(s)
    PROVE  IInv'
  <1> DEFINE v == tab[s]
  <1>1. /\ TabOK(v, project.rev, ledger, begun, Live)
        /\ TabType(v) /\ IsProject(project)
        /\ IsProject(v.current) /\ IsProject(v.seen)
    BY PageFacts
  <1>2. /\ v.phase \in Working => (v.started <=> v.command \in begun)
        /\ v.phase \in {"recorded", "read"} => ~v.started
        /\ v.delivery \in Ids /\ v.command \in Ids /\ v.started \in BOOLEAN
    BY <1>1 DEF TabOK, TabType
  <1> HIDE DEF v
  <1>3. CASE BeginExport(s)
    <2> DEFINE w == PageOf(v.current, "checked", v.current.auth.id, v.command,
                           v.seen, v.started)
    <2>1. Moves(s, w) /\ begun' = begun /\ ~Exhausted(ledger, v.current)
      <3>1. [v EXCEPT !.phase = "checked", !.delivery = v.current.auth.id] = w
        BY <1>1, ChangedPhaseAndDelivery
      <3> HIDE DEF w
      <3> QED
        BY <3>1, <1>3 DEF BeginExport, assertRecoveryTransfer, v
    <2>2. TabType(w) /\ w.phase = "checked" /\ w.current = v.current /\ w.seen = v.seen
      BY <1>1, <1>2 DEF TabType, PageOf, IsProject
    <2> HIDE DEF w
    <2> QED
      BY <2>1, <2>2, MoveKeeps DEF v, Working
  <1>4. CASE ReadBeforeTransfer(s)
    <2> DEFINE w == PageOf(v.current, "read", v.delivery, v.command, project, v.started)
    <2>1. Moves(s, w) /\ begun' = begun /\ v.phase = "recorded"
      BY <1>1, <1>4, ChangedPhaseAndSeen DEF ReadBeforeTransfer, v
    <2>2. /\ TabType(w) /\ w.phase = "read" /\ w.current = v.current
          /\ w.seen = project /\ w.command = v.command /\ w.started = v.started
      BY <1>1, <1>2 DEF TabType, PageOf, Working
    <2> HIDE DEF w
    <2> QED
      BY <1>2, <2>1, <2>2, MoveKeeps DEF v, Working
  <1>5. CASE Transfer(s)
    <2>1. PICK after \in {"sent", "failed"} :
             Moves(s, [tab[s] EXCEPT !.phase = after, !.started = TRUE])
      BY <1>5 DEF Transfer
    <2> DEFINE w == PageOf(v.current, after, v.delivery, v.command, v.seen, TRUE)
    <2>2. Moves(s, w) /\ begun' = begun \cup {v.command} /\ v.phase = "read"
      <3>1. [v EXCEPT !.phase = after, !.started = TRUE] = w
        BY <1>1, ChangedPhaseAndStarted
      <3> HIDE DEF w
      <3> QED
        BY <3>1, <2>1, <1>5 DEF Transfer, v
    <2>3. /\ TabType(w) /\ w.phase = after /\ w.current = v.current
          /\ w.seen = v.seen /\ w.command = v.command /\ w.started = TRUE
      BY <1>1, <1>2 DEF TabType, PageOf, Working
    <2> HIDE DEF w
    <2> QED
      BY <2>2, <2>3, MoveKeeps DEF v, Working
  <1>6. CASE RefuseTransfer(s)
    <2> DEFINE w == PageOf(v.current, "failed", v.delivery, v.command, v.seen, v.started)
    <2>1. Moves(s, w) /\ begun' = begun /\ v.phase \in {"recorded", "read"}
      BY <1>1, <1>6, ChangedPhase DEF RefuseTransfer, v
    <2>2. /\ TabType(w) /\ w.phase = "failed" /\ w.current = v.current
          /\ w.seen = v.seen /\ w.command = v.command /\ w.started = v.started
      BY <1>1, <1>2 DEF TabType, PageOf, Working
    <2> HIDE DEF w
    <2> QED
      BY <1>2, <2>1, <2>2, MoveKeeps DEF v, Working
  <1>7. CASE FailSuccess(s)
    <2>1. PICK shown \in {v.current, project} :
             Moves(s, [v EXCEPT !.current = shown, !.phase = "failed"])
      BY <1>7 DEF FailSuccess, v
    <2> DEFINE w == PageOf(shown, "failed", v.delivery, v.command, v.seen, v.started)
    <2>2. Moves(s, w) /\ begun' = begun /\ v.phase = "sent"
      <3>1. [v EXCEPT !.current = shown, !.phase = "failed"] = w
        BY <1>1, ChangedVersion
      <3> HIDE DEF w
      <3> QED
        BY <3>1, <2>1, <1>7 DEF FailSuccess, v
    <2>3. /\ TabType(w) /\ w.phase = "failed" /\ w.current = shown
          /\ w.seen = v.seen /\ w.command = v.command /\ w.started = v.started
      BY <1>1, <1>2 DEF TabType, PageOf, Working
    <2> HIDE DEF w
    <2> QED
      BY <1>2, <2>2, <2>3, MoveKeeps DEF v, Working
  <1>8. CASE ReadAfterFailure(s)
    <2> DEFINE w == PageOf(v.current, "reread", v.delivery, v.command, project, v.started)
    <2>1. Moves(s, w) /\ begun' = begun /\ v.phase = "failed"
      BY <1>1, <1>8, ChangedPhaseAndSeen DEF ReadAfterFailure, v
    <2>2. /\ TabType(w) /\ w.phase = "reread" /\ w.current = v.current
          /\ w.seen = project /\ w.command = v.command /\ w.started = v.started
      BY <1>1, <1>2 DEF TabType, PageOf, Working
    <2> HIDE DEF w
    <2> QED
      BY <1>2, <2>1, <2>2, MoveKeeps DEF v, Working
  <1> QED
    BY <1>3, <1>4, <1>5, <1>6, <1>7, <1>8

\* Only the result of the command's own attempt changes.
LEMMA Completed ==
    ASSUME NEW p, IsProject(p), NEW c, c \in DOMAIN p.attempts, NEW r \in Results,
           NEW q, q = [p EXCEPT !.attempts[c].result = r]
    PROVE  /\ IsProject(q) /\ DOMAIN q.attempts = DOMAIN p.attempts
           /\ q.attempts[c].intent = p.attempts[c].intent
           /\ q.attempts[c].result = r
           /\ \A d \in DOMAIN p.attempts : d # c => q.attempts[d] = p.attempts[d]
  <1> DEFINE a == p.attempts
             e == [a[c] EXCEPT !.result = r]
             b == [a EXCEPT ![c] = e]
  <1>1. q = [p EXCEPT !.attempts = b]
    OBVIOUS
  <1>2. IsAttempts(a) /\ a[c] \in [intent : Ids, delivery : Ids, result : Results]
    BY DEF IsProject, IsAttempts
  <1>3. e.intent = a[c].intent /\ e.result = r
        /\ e \in [intent : Ids, delivery : Ids, result : Results]
    BY <1>2
  <1> HIDE DEF e
  <1>4. DOMAIN b = DOMAIN a /\ b[c] = e /\ \A d \in DOMAIN a : d # c => b[d] = a[d]
    OBVIOUS
  <1> HIDE DEF b
  <1>5. IsAttempts(b)
    BY <1>2, <1>3, <1>4 DEF IsAttempts
  <1> HIDE DEF a
  <1>6. q = [rev |-> p.rev, release |-> p.release, evidence |-> p.evidence,
             intents |-> p.intents, auth |-> p.auth, attempts |-> b]
    BY <1>1 DEF IsProject
  <1> QED
    BY <1>3, <1>4, <1>5, <1>6 DEF IsProject, a

\* An outcome is recorded for the attempt it answers.
LEMMA OutcomeIInv ==
    ASSUME IInv, NEW s \in Tabs, RecordSuccess(s) \/ RecordFailure(s)
    PROVE  IInv'
  <1> DEFINE v == tab[s]
             r == IF v.phase = "sent" THEN "SUCCEEDED" ELSE ActualResult(s)
             next == completeDeliveryAttempt(s, r)
             R == TakenOver(ledger, next.attempts)
  <1>1. /\ TabOK(v, project.rev, ledger, begun, Live)
        /\ TabType(v) /\ IsProject(v.seen)
    BY PageFacts
  <1>2. /\ MayRevise /\ Completable(s) /\ Install(next, R) /\ begun' = begun
        /\ v.phase \in {"sent", "reread"}
        /\ \/ tab' = [tab EXCEPT ![s] = Idle(project')]
           \/ /\ v.phase = "sent"
              /\ tab' = [tab EXCEPT ![s].current = project', ![s].phase = "failed"]
    BY DEF RecordSuccess, RecordFailure, Save, reconcileRecoveryTransfers
  <1>3. /\ r \in {"SUCCEEDED", "FAILED", "UNKNOWN"}
        /\ r = "SUCCEEDED" => v.command \in begun
        /\ r = "FAILED" => v.command \notin Live
    <2>1. v.phase = "sent" => v.started
      BY <1>1 DEF TabOK
    <2>2. v.phase \in Working => (v.started <=> v.command \in begun)
      BY <1>1 DEF TabOK
    <2>3. v.phase \in Working /\ v.phase \notin {"recorded", "read"}
      BY <1>2 DEF Working
    <2>4. v.command \in Live => v.command \in begun
      BY <2>3 DEF Live, MayBegin, IInv, OwnCommands, Working
    <2> QED
      BY <1>2, <2>1, <2>2, <2>3, <2>4 DEF ActualResult
  <1>4. v.command \in DOMAIN v.seen.attempts
    BY <1>2 DEF Completable
  <1>5. next = [v.seen EXCEPT !.attempts[v.command].result = r]
    BY DEF completeDeliveryAttempt
  <1> HIDE DEF r, next, v
  <1>6. /\ IsProject(next) /\ DOMAIN next.attempts = DOMAIN v.seen.attempts
        /\ next.attempts[v.command].intent = v.seen.attempts[v.command].intent
        /\ next.attempts[v.command].result = r
        /\ \A d \in DOMAIN v.seen.attempts :
              d # v.command => next.attempts[d] = v.seen.attempts[d]
    BY <1>1, <1>3, <1>4, <1>5, Completed DEF Results
  <1>7. Known(v.seen.attempts, ledger, begun, Live)
    BY <1>1 DEF TabOK
  <1>8. Known(next.attempts, ledger, begun, Live)
    <2>1. IsAttempts(next.attempts)
      BY <1>6 DEF IsProject
    <2>2. Agrees(next.attempts, ledger)
      BY <1>4, <1>6, <1>7 DEF Known, Agrees
    <2>3. Truthful(next.attempts, begun, Live)
      BY <1>3, <1>4, <1>6, <1>7 DEF Known, Truthful
    <2> QED
      BY <1>6, <1>7, <2>1, <2>2, <2>3 DEF Known
  <1>9. Refines(R) /\ Known(next.attempts, R, begun, Live)
    BY <1>8, RefinesItself, RefinesMerged
  <1> HIDE DEF R
  <1>10. CASE tab' = [tab EXCEPT ![s] = Idle(project')]
    BY <1>2, <1>6, <1>9, <1>10, SaveKeeps
  <1>11. CASE /\ v.phase = "sent"
              /\ tab' = [tab EXCEPT ![s].current = project', ![s].phase = "failed"]
    <2>1. tab' = [tab EXCEPT ![s] = [tab[s] EXCEPT !.current = project', !.phase = "failed"]]
      BY <1>11, UpdatedTwice
    <2> QED
      BY <1>2, <1>6, <1>9, <1>11, <2>1, SaveKeeps DEF v
  <1> QED
    BY <1>2, <1>10, <1>11

\* The page after its pending attempt is recorded.
LEMMA RecordedPage ==
    ASSUME tab = [t \in Tabs |-> tab[t]], NEW s \in Tabs, TabType(tab[s])
    PROVE  [tab EXCEPT ![s].current = project', ![s].phase = "recorded",
                       ![s].command = Fresh, ![s].started = FALSE]
             = [tab EXCEPT ![s] = PageOf(project', "recorded", tab[s].delivery, Fresh,
                                         tab[s].seen, FALSE)]
  <1> DEFINE p == project'
             c == Fresh
             b == FALSE
             v == tab[s]
             v1 == [v EXCEPT !.current = p]
             v2 == [v1 EXCEPT !.phase = "recorded"]
             v3 == [v2 EXCEPT !.command = c]
             v4 == [v3 EXCEPT !.started = b]
             On(w) == [tab EXCEPT ![s] = w]
  <1> HIDE DEF p, c, b
  <1>1. \A w : On(w)[s] = w /\ On(w) = [t \in Tabs |-> IF t = s THEN w ELSE tab[t]]
    OBVIOUS
  <1> HIDE DEF On
  <1>2. \A u, w : [On(u) EXCEPT ![s] = w] = On(w)
    BY <1>1
  <1>3. [tab EXCEPT ![s].current = p] = On(v1)
    BY DEF On
  <1>4. [On(v1) EXCEPT ![s].phase = "recorded"] = On(v2)
    BY <1>1, <1>2
  <1>5. [On(v2) EXCEPT ![s].command = c] = On(v3)
    BY <1>1, <1>2
  <1>6. [On(v3) EXCEPT ![s].started = b] = On(v4)
    BY <1>1, <1>2
  <1>7. v4 = PageOf(p, "recorded", v.delivery, c, v.seen, b)
    <2>1. v1 = PageOf(p, v.phase, v.delivery, v.command, v.seen, v.started)
      BY DEF TabType, PageOf
    <2> HIDE DEF v1
    <2>2. v2 = PageOf(p, "recorded", v.delivery, v.command, v.seen, v.started)
      BY <2>1 DEF PageOf
    <2> HIDE DEF v2
    <2>3. v3 = PageOf(p, "recorded", v.delivery, c, v.seen, v.started)
      BY <2>2 DEF PageOf
    <2> HIDE DEF v3
    <2> QED
      BY <2>3 DEF PageOf
  <1>8. [tab EXCEPT ![s].current = p, ![s].phase = "recorded",
                    ![s].command = c, ![s].started = b]
          = [[[[tab EXCEPT ![s].current = p] EXCEPT ![s].phase = "recorded"]
                EXCEPT ![s].command = c] EXCEPT ![s].started = b]
    OBVIOUS
  <1> HIDE DEF v1, v2, v3, v4
  <1>9. [tab EXCEPT ![s].current = p, ![s].phase = "recorded",
                    ![s].command = c, ![s].started = b] = On(v4)
    BY <1>3, <1>4, <1>5, <1>6, <1>8
  <1> QED
    BY <1>7, <1>9 DEF On, p, c, b

\* An attempt is recorded before it is made.
LEMMA PendingIInv ==
    ASSUME IInv, NEW s \in Tabs, RecordPending(s)
    PROVE  IInv'
  <1> DEFINE v == tab[s]
             i == deliveryIntentRecord(v.current)
             attempt == [intent |-> i, delivery |-> v.delivery, result |-> "PENDING"]
             A == WithAttempt(v.current.attempts, Fresh, attempt)
             next == [v.current EXCEPT !.attempts = A]
             R == TakenOver(ledger, next.attempts)
             recorded == PageOf(project', "recorded", v.delivery, Fresh, v.seen, FALSE)
  <1>1. /\ TabOK(v, project.rev, ledger, begun, Live)
        /\ TabType(v) /\ IsProject(v.current) /\ IsProject(v.seen)
        /\ IsProject(project) /\ project.rev \in Nat
    BY PageFacts
  <1>2. /\ v.phase = "checked" /\ MayRevise /\ project = v.current
        /\ begun' = begun /\ Install(next, R)
    BY DEF RecordPending, MayRecordPending, Replaces, Save, reconcileRecoveryTransfers
  <1>3. \E w \in {Idle(project'), recorded} : tab' = [tab EXCEPT ![s] = w]
    <2>1. tab = [t \in Tabs |-> tab[t]]
      BY DEF IInv
    <2>2. [tab EXCEPT ![s].current = project', ![s].phase = "recorded",
                      ![s].command = Fresh, ![s].started = FALSE]
            = [tab EXCEPT ![s] = recorded]
      <3>1. TabType(tab[s])
        BY <1>1
      <3> QED
        BY <2>1, <3>1, RecordedPage
    <2> HIDE DEF recorded
    <2>3. \/ tab' = [tab EXCEPT ![s].current = project', ![s].phase = "recorded",
                                ![s].command = Fresh, ![s].started = FALSE]
          \/ tab' = [tab EXCEPT ![s] = Idle(project')]
      BY DEF RecordPending
    <2> QED
      BY <2>2, <2>3
  <1>4. Fresh = project.rev + 1 /\ Fresh \in Ids \ {0} /\ Fresh \in Commands
    BY <1>1, <1>2, DeliveryConstants DEF Fresh, MayRevise, IsProject, Ids, Commands
  <1>5. /\ Known(ledger, ledger, begun, Live) /\ IsAttempts(ledger)
        /\ DOMAIN ledger \subseteq 1 .. project.rev /\ Fresh \notin DOMAIN ledger
        /\ begun \subseteq DOMAIN ledger
    BY <1>1, <1>4 DEF IInv, StoreOK, Known
  <1>6. Known(v.current.attempts, ledger, begun, Live)
    BY <1>1 DEF TabOK
  <1>7. i \in Ids /\ v.delivery \in Ids
    BY <1>1, IntentType DEF TabType
  <1>8. ~Exhausted(ledger, v.current)
    BY <1>1, <1>2 DEF TabOK
  <1>9. Live' \subseteq Live \cup {Fresh}
    <2>1. PICK w \in {Idle(project'), recorded} : tab' = [tab EXCEPT ![s] = w]
      BY <1>3
    <2>2. w.phase \in {"recorded", "read"} => w.command = Fresh
      BY DEF Idle, PageOf
    <2>3. tab = [t \in Tabs |-> tab[t]]
      BY DEF IInv
    <2> HIDE DEF recorded
    <2> QED
      BY <1>2, <2>1, <2>2, <2>3 DEF Live, MayBegin
  <1> HIDE DEF v, i
  <1>10. /\ DOMAIN A = DOMAIN v.current.attempts \cup {Fresh}
         /\ A[Fresh] = attempt
         /\ \A c \in DOMAIN v.current.attempts : c # Fresh => A[c] = v.current.attempts[c]
    BY DEF WithAttempt
  <1>11. attempt \in [intent : Ids, delivery : Ids, result : Results]
         /\ attempt.intent = i /\ attempt.result = "PENDING"
    BY <1>7 DEF Results
  <1> HIDE DEF A, attempt
  <1>12. IsAttempts(A)
    BY <1>4, <1>6, <1>10, <1>11 DEF IsAttempts, Known
  <1>13. Agrees(A, ledger) /\ Truthful(A, begun, Live')
    BY <1>5, <1>6, <1>9, <1>10, <1>11 DEF Agrees, Truthful, Known
  <1>14. Truthful(ledger, begun, Live')
    BY <1>5, <1>9 DEF Truthful, Known
  <1>15. IsProject(next) /\ next.attempts = A
    BY <1>1, <1>12 DEF IsProject
  <1>16. R = TakenOver(ledger, A)
    BY <1>15
  <1> HIDE DEF next, R
  <1>17. /\ Known(R, R, begun, Live') /\ Known(A, R, begun, Live')
         /\ DOMAIN R = DOMAIN ledger \cup {Fresh}
         /\ Agrees(ledger, R)
         /\ \A j : Counted(R, j) \cap DOMAIN ledger \subseteq Counted(ledger, j)
    <2>1. DOMAIN A \subseteq DOMAIN ledger \cup {Fresh} /\ Fresh \in DOMAIN A
      BY <1>6, <1>10 DEF Known
    <2>2. /\ Known(R, R, begun, Live') /\ Known(A, R, begun, Live')
          /\ DOMAIN R = DOMAIN ledger \cup DOMAIN A
          /\ Agrees(ledger, R)
          /\ \A j : Counted(R, j) \cap DOMAIN ledger \subseteq Counted(ledger, j)
      BY <1>5, <1>12, <1>13, <1>14, <1>16, MergeKeeps
    <2> QED
      BY <2>1, <2>2
  <1>18. R[Fresh] = attempt
    <2>1. Fresh \in DOMAIN R /\ Fresh \notin DOMAIN ledger
      BY <1>5, <1>17
    <2> QED
      BY <1>10, <1>16, <2>1 DEF TakenOver
  <1>19. ASSUME NEW j \in Ids
         PROVE  Cardinality(Counted(R, j)) <= Permitted
    <2>1. /\ IsFiniteSet(Counted(ledger, j)) /\ Cardinality(Counted(ledger, j)) \in Nat
          /\ IsFiniteSet(Counted(R, j)) /\ Cardinality(Counted(R, j)) \in Nat
      BY <1>5, <1>17, CountIsFinite DEF Known
    <2>2. Counted(R, j) \subseteq DOMAIN R
      BY DEF Counted
    <2>3. Cardinality(Counted(ledger, j)) <= Permitted
      BY DEF IInv, StoreOK
    <2>4. CASE j = i
      <3>1. Counted(R, j) \subseteq Counted(ledger, j) \cup {Fresh}
        BY <1>17, <2>2
      <3>2. /\ IsFiniteSet(Counted(ledger, j) \cup {Fresh})
            /\ Cardinality(Counted(ledger, j) \cup {Fresh})
                  \in {Cardinality(Counted(ledger, j)), Cardinality(Counted(ledger, j)) + 1}
        BY <2>1, FS_AddElement
      <3>3. Cardinality(Counted(R, j)) <= Cardinality(Counted(ledger, j) \cup {Fresh})
        BY <3>1, <3>2, FS_Subset
      <3>4. Cardinality(Counted(ledger, j)) < Permitted
        BY <1>1, <1>5, <1>8, <2>4, RoomInLedger DEF i
      <3> QED
        BY <2>1, <3>2, <3>3, <3>4, DeliveryConstants
    <2>5. CASE j # i
      <3>1. Fresh \notin Counted(R, j)
        BY <1>11, <1>18, <2>5 DEF Counted
      <3>2. Counted(R, j) \subseteq Counted(ledger, j)
        BY <1>17, <2>2, <3>1
      <3>3. Cardinality(Counted(R, j)) <= Cardinality(Counted(ledger, j))
        BY <2>1, <3>2, FS_Subset
      <3> QED
        BY <2>1, <2>3, <3>3, DeliveryConstants
    <2> QED
      BY <2>4, <2>5
  <1>20. Live' \cap DOMAIN ledger \subseteq Live
    BY <1>5, <1>9
  <1>21. /\ StoreOK(project', R, kept', begun, Live')
         /\ \A t \in Tabs : TabOK(tab[t], Fresh, R, begun, Live')
         /\ TabOK(Idle(project'), Fresh, R, begun, Live')
    BY <1>2, <1>15, <1>17, <1>19, <1>20, InstallKeeps
  <1>22. IsProject(project') /\ project'.rev = Fresh /\ ledger' = R
         /\ project'.attempts = A
    BY <1>1, <1>2, <1>15, InstalledProject
  <1>23. TabOK(recorded, Fresh, R, begun, Live')
    <2>1. TabOK(v, Fresh, R, begun, Live')
      BY <1>21 DEF v
    <2>2. /\ recorded.current = project' /\ recorded.seen = v.seen
          /\ recorded.phase = "recorded" /\ recorded.command = Fresh
          /\ recorded.started = FALSE
      BY DEF PageOf
    <2>3. TabType(recorded)
      BY <1>1, <1>4, <1>7, <1>22 DEF TabType, PageOf, Working
    <2>4. Fresh \in DOMAIN R /\ Fresh \notin begun
      BY <1>5, <1>17
    <2>5. project'.rev <= Fresh /\ Known(project'.attempts, R, begun, Live')
      BY <1>4, <1>17, <1>22 DEF Ids
    <2> HIDE DEF recorded
    <2> QED
      BY <2>1, <2>2, <2>3, <2>4, <2>5 DEF TabOK
  <1>24. ASSUME NEW t \in Tabs, tab[t].phase \in Working
         PROVE  tab[t].command # Fresh
    BY <1>5, <1>24 DEF IInv, TabOK
  <1>25. PICK w \in {Idle(project'), recorded} : tab' = [tab EXCEPT ![s] = w]
    BY <1>3 DEF v
  <1>26. TabOK(w, Fresh, R, begun, Live')
    BY <1>21, <1>23, <1>25
  <1>27. w.phase \in Working => w.command = Fresh
    BY <1>25 DEF Idle, Working, PageOf
  <1> HIDE DEF recorded
  <1> QED
    BY <1>2, <1>21, <1>22, <1>24, <1>25, <1>26, <1>27, Assemble

\* Every step keeps IInv.
LEMMA NextIInv ==
    ASSUME IInv, [Next]_vars
    PROVE  IInv'
  <1>1. CASE UNCHANGED vars
    BY <1>1 DEF vars, IInv, OwnCommands, Live, MayBegin
  <1>2. CASE Next
    <2> SUFFICES ASSUME NEW s \in Tabs,
                   \/ Correct(s) \/ ReviseEvidence(s)
                   \/ captureDeliveryIntent(s) \/ calculateTerminal(s)
                   \/ restoreCheckpoint(s) \/ importPackage(s) \/ Reload(s)
                   \/ BeginExport(s) \/ RecordPending(s)
                   \/ ReadBeforeTransfer(s) \/ Transfer(s) \/ RefuseTransfer(s)
                   \/ RecordSuccess(s) \/ FailSuccess(s)
                   \/ ReadAfterFailure(s) \/ RecordFailure(s) \/ Abandon(s)
                 PROVE  IInv'
      BY <1>2 DEF Next
    <2> QED
      BY EditsIInv, RestoreIInv, ImportIInv, LeavingIInv, MovesIInv, PendingIInv,
         OutcomeIInv
  <1> QED
    BY <1>1, <1>2

\* IInv holds in every state.
LEMMA Invariance == Spec => []IInv
    BY InitIInv, NextIInv, PTL DEF Spec

-----------------------------------------------------------------------------
(* The theorems.                                                           *)

\* Every version and every ledger, whoever holds it, has identities that have
\* been drawn and attempts by command.
THEOREM TypeCorrect == Spec => []TypeOK
  <1>1. IInv => TypeOK
    <2> SUFFICES ASSUME IInv
                 PROVE  TypeOK
      OBVIOUS
    <2>1. /\ IsProject(project) /\ IsProject(kept.version)
          /\ IsAttempts(ledger) /\ IsAttempts(kept.ledger)
          /\ begun \subseteq Commands
      BY DEF IInv, StoreOK, Known, IsAttempts
    <2> QED
      BY <2>1, PageFacts DEF TypeOK, TabType, Working
  <1> QED
    BY <1>1, Invariance, PTL

\* The transfers begun under one intent never exceed its permission, whatever
\* is restored, imported, closed or repeated, and by however many pages.
THEOREM PermissionHolds == Spec => []WithinPermission
  <1>1. IInv => WithinPermission
    <2> SUFFICES ASSUME IInv
                 PROVE  WithinPermission
      OBVIOUS
    <2>1. begun \subseteq DOMAIN ledger /\ Known(ledger, ledger, begun, Live)
      BY DEF IInv, StoreOK
    <2> SUFFICES ASSUME NEW c \in begun
                 PROVE  Cardinality({d \in begun : ledger[d].intent = ledger[c].intent})
                          <= Permitted
      BY <2>1 DEF WithinPermission
    <2> DEFINE i == ledger[c].intent
               S == {d \in begun : ledger[d].intent = i}
    <2>2. i \in Ids
      BY <2>1 DEF Known, IsAttempts
    <2>3. S \in SUBSET Counted(ledger, i)
      BY <2>1 DEF Known, Truthful, Counted, Live
    <2>4. IsFiniteSet(Counted(ledger, i)) /\ Cardinality(Counted(ledger, i)) \in Nat
      BY <2>1, CountIsFinite DEF Known
    <2>5. Cardinality(Counted(ledger, i)) <= Permitted
      BY <2>2 DEF IInv, StoreOK
    <2> HIDE DEF i
    <2>6. Cardinality(S) <= Cardinality(Counted(ledger, i)) /\ Cardinality(S) \in Nat
      BY <2>3, <2>4, FS_Subset, FS_CardinalityType
    <2>7. Cardinality(S) <= Permitted
      BY <2>4, <2>5, <2>6, DeliveryConstants
    <2> QED
      BY <2>7 DEF i
  <1> QED
    BY <1>1, Invariance, PTL

\* No version and no ledger says that a transfer which began has FAILED, or
\* that one SUCCEEDED which did not begin.
THEOREM OutcomesHold == Spec => []OutcomesAreTrue
  <1>1. IInv => OutcomesAreTrue
    BY DEF IInv, StoreOK, Known, Truthful, Live, OutcomesAreTrue, TellsTruth
  <1> QED
    BY <1>1, Invariance, PTL

\* The History never forgets a command and never takes an outcome back.
THEOREM OutcomesStay == Spec => OutcomesSettle
  <1> DEFINE Settles ==
               \A c \in DOMAIN ledger :
                 /\ c \in DOMAIN ledger'
                 /\ ledger[c].result \in Final => ledger'[c] = ledger[c]
             Kept(T) ==
               \A c \in DOMAIN ledger :
                 /\ c \in DOMAIN T
                 /\ ledger[c].result \in Final => T[c] = ledger[c]
  <1>1. ASSUME NEW next, Save(next)
        PROVE  Settles
    <2>1. ledger' = TakenOver(ledger, next.attempts)
      BY <1>1 DEF Save, Install, reconcileRecoveryTransfers
    <2> QED
      BY <2>1 DEF TakenOver
  <1>2. ASSUME NEW T, NEW A, Kept(T)
        PROVE  Kept(TakenOver(T, A))
    <2> SUFFICES ASSUME NEW c \in DOMAIN ledger
                 PROVE  /\ c \in DOMAIN TakenOver(T, A)
                        /\ ledger[c].result \in Final => TakenOver(T, A)[c] = ledger[c]
      OBVIOUS
    <2>1. c \in DOMAIN T /\ (ledger[c].result \in Final => T[c] = ledger[c])
      BY <1>2
    <2> QED
      BY <2>1 DEF TakenOver
  <1>3. Kept(ledger)
    OBVIOUS
  <1>4. ASSUME NEW s \in Tabs, importPackage(s)
        PROVE  Settles
    <2>1. ledger' = TakenOver(TakenOver(ledger, kept.ledger), kept.version.attempts)
      BY <1>4 DEF importPackage, Install, reconcileRecoveryTransfers
    <2>2. Kept(TakenOver(TakenOver(ledger, kept.ledger), kept.version.attempts))
      BY <1>2, <1>3
    <2> QED
      BY <2>1, <2>2
  <1>5. [Next]_vars => Settles
    <2> SUFFICES ASSUME Next
                 PROVE  Settles
      BY DEF vars
    <2> PICK s \in Tabs :
                   \/ Correct(s) \/ ReviseEvidence(s)
                   \/ captureDeliveryIntent(s) \/ calculateTerminal(s)
                   \/ restoreCheckpoint(s) \/ importPackage(s) \/ Reload(s)
                   \/ BeginExport(s) \/ RecordPending(s)
                   \/ ReadBeforeTransfer(s) \/ Transfer(s) \/ RefuseTransfer(s)
                   \/ RecordSuccess(s) \/ FailSuccess(s)
                   \/ ReadAfterFailure(s) \/ RecordFailure(s) \/ Abandon(s)
      BY DEF Next
    <2>1. CASE Correct(s) \/ ReviseEvidence(s) \/ captureDeliveryIntent(s)
               \/ calculateTerminal(s)
      <3>1. \E next : Save(next)
        BY <2>1 DEF Correct, ReviseEvidence, captureDeliveryIntent, calculateTerminal,
                    Edit
      <3> QED
        BY <1>1, <3>1
    <2>2. CASE RecordPending(s) \/ RecordSuccess(s) \/ RecordFailure(s)
      <3>1. \E next : Save(next)
        BY <2>2 DEF RecordPending, RecordSuccess, RecordFailure
      <3> QED
        BY <1>1, <3>1
    <2>3. CASE restoreCheckpoint(s)
      BY <2>3 DEF restoreCheckpoint, Install
    <2>4. CASE Reload(s) \/ BeginExport(s) \/ ReadBeforeTransfer(s) \/ Transfer(s)
               \/ RefuseTransfer(s) \/ FailSuccess(s) \/ ReadAfterFailure(s)
               \/ Abandon(s)
      <3>1. ledger' = ledger
        BY <2>4 DEF Reload, BeginExport, ReadBeforeTransfer, Transfer, RefuseTransfer,
                    FailSuccess, ReadAfterFailure, Abandon, Moves
      <3> QED
        BY <3>1
    <2> QED
      BY <1>4, <2>1, <2>2, <2>3, <2>4
  <1> QED
    BY <1>5, PTL DEF Spec, OutcomesSettle
=============================================================================
