---------------------- MODULE ArtifactCustody_proofs ----------------------
(***************************************************************************)
(* Proofs about ArtifactCustody: type correctness, that a file held to be  *)
(* verified is stored unless word of its change is on its way, and that a  *)
(* save decides on files that were there while it ran.                     *)
(*                                                                         *)
(* The argument follows an observation.  A row that is being hashed stands *)
(* for what was stored since its invalidation count was captured, for as   *)
(* long as the count has not moved; whoever changes the file leaves a mark *)
(* that stays until the tab has forgotten the file, and forgetting moves   *)
(* the count, so the observation can no longer be recorded.                *)
(***************************************************************************)
EXTENDS ArtifactCustody, TLAPS

RowType == [file : Files, bytes : {"sound", "damaged"}]
OpType ==
    [at : Places, kind : Kinds, files : SUBSET Files, later : SUBSET Files,
     seen : 0 .. MaxEpoch, rows : SUBSET RowType]

\* An operation that has changed f, and whose tab has not forgotten it.
Owes(o, f) ==
    \/ o.at = "announce" /\ o.kind # "restore" /\ f \in o.files
    \/ o.at = "restored"

\* An operation that has changed f, and has not told the other tabs.
Hides(o, f) ==
    \/ o.at \in {"announce", "restored"} /\ f \in o.files
    \/ o.at \notin {"announce", "restored", "idle"} /\ o.kind = "restore"

\* What tab t knows of f is true, or a mark of the change is left.
Covered(t, f) ==
    \/ stored[f] = "sound"
    \/ inbox[t] > 0
    \/ f \in untold[t]
    \/ \E k \in Threads : TabOf[k] = t /\ Owes(op[k], f)
    \/ \E k \in Threads : TabOf[k] # t /\ Hides(op[k], f)

\* A row that may still be recorded when it has been hashed.
Counts(k, row) ==
    /\ op[k].at = "hash" /\ row \in op[k].rows
    /\ row.bytes = "sound" /\ epoch[TabOf[k]] <= op[k].seen

\* No operation has seen a count that was never reached; a restoration is about
\* every file, and is announced at last.
OpOK(o, count) ==
    o # Idle =>
        /\ o.seen <= count
        /\ o.kind = "restore" =>
             /\ o.files = Files
             /\ o.at \in {"restored", "read", "hash", "announce"}
        /\ o.at \in {"restored", "announce", "cleanup", "delete"} => o.kind # "write"

Saving(k) == op[k].at # "idle" /\ op[k].kind = "write"

IInv ==
    /\ TypeOK
    /\ \A k \in Threads : OpOK(op[k], epoch[TabOf[k]])
    /\ \A t \in Tabs : \A f \in custody[t] : Covered(t, f)
    /\ \A k \in Threads : \A row \in RowType :
         Counts(k, row) => Covered(TabOf[k], row.file)
    /\ \A k \in Threads : Saving(k) => custody[TabOf[k]] \subseteq held[k]
    /\ \A k, j \in Threads : \A row \in RowType :
         Saving(k) /\ TabOf[j] = TabOf[k] /\ Counts(j, row) => row.file \in held[k]

-----------------------------------------------------------------------------
(* What the parts of a step do.                                            *)

\* The shape of one operation and of what it refers to.
LEMMA TypeFacts ==
    ASSUME TypeOK, NEW k \in Threads
    PROVE  /\ op[k] = Idle \/ op[k] \in OpType
           /\ op[k] = Idle <=> op[k].at = "idle"
           /\ TabOf[k] \in Tabs /\ epoch[TabOf[k]] \in 0 .. MaxEpoch
    BY ThreadsOfTabs DEF TypeOK, OpType, RowType, Idle, Places

\* An operation with another place and other rows.
Moved(o, a, r) ==
    [at |-> a, kind |-> o.kind, files |-> o.files, later |-> o.later,
     seen |-> o.seen, rows |-> r]

\* An operation that takes its next place keeps its shape.
LEMMA MovedType ==
    ASSUME NEW o \in OpType, NEW a \in Places, NEW r \in SUBSET RowType
    PROVE  Moved(o, a, r) \in OpType
    BY DEF OpType, Moved

\* Taking another place changes nothing else of an operation.
LEMMA MovedTo ==
    ASSUME NEW o \in OpType, NEW a \in Places
    PROVE  [o EXCEPT !.at = a] = Moved(o, a, o.rows)
    BY DEF OpType, Moved

\* Taking another place with the rows it has read.
LEMMA MovedWithRows ==
    ASSUME NEW o \in OpType, NEW a \in Places, NEW r \in SUBSET RowType
    PROVE  [o EXCEPT !.at = a, !.rows = r] = Moved(o, a, r)
  <1> DEFINE w == [o EXCEPT !.at = a]
  <1>1. w = Moved(o, a, o.rows)
    BY MovedTo
  <1>2. [o EXCEPT !.at = a, !.rows = r] = [w EXCEPT !.rows = r]
    OBVIOUS
  <1> HIDE DEF w
  <1>3. [w EXCEPT !.rows = r] = Moved(o, a, r)
    BY <1>1 DEF Moved
  <1> QED
    BY <1>2, <1>3

\* Where an operation goes on when rows have been read or hashed.
LEMMA ObservingFacts ==
    ASSUME NEW o \in OpType, NEW r \in SUBSET RowType
    PROVE  \/ Observing(o, r) = Idle /\ r = {} /\ o.kind \notin {"write", "restore"}
           \/ Observing(o, r) = Moved(o, "hash", r)
           \/ Observing(o, r) = Moved(o, "next", r) /\ r = {} /\ o.kind = "write"
           \/ Observing(o, r) = Moved(o, "announce", r) /\ r = {} /\ o.kind = "restore"
  <1>1. /\ [o EXCEPT !.at = "hash", !.rows = r] = Moved(o, "hash", r)
        /\ [o EXCEPT !.at = "next", !.rows = {}] = Moved(o, "next", {})
        /\ [o EXCEPT !.at = "announce", !.rows = {}] = Moved(o, "announce", {})
    BY MovedWithRows DEF Places
  <1> QED
    BY <1>1 DEF Observing

\* The shape of an operation that begins.
LEMMA DoingFacts ==
    ASSUME NEW a \in Places, NEW kind \in Kinds, NEW files \in SUBSET Files,
           NEW n \in 0 .. MaxEpoch
    PROVE  /\ Doing(a, kind, files, n) \in OpType
           /\ Doing(a, kind, files, n) =
                [at |-> a, kind |-> kind, files |-> files, later |-> {},
                 seen |-> n, rows |-> {}]
    BY DEF Doing, OpType

\* The rows a read finds are those of stored files.
LEMMA RowsFacts ==
    ASSUME TypeOK, NEW files \in SUBSET Files
    PROVE  /\ Rows(files) \in SUBSET RowType
           /\ \A row \in Rows(files) : row.bytes = stored[row.file]
    BY DEF Rows, Row, RowType, TypeOK

-----------------------------------------------------------------------------
(* A step of one thread, by its effect.                                    *)

\* A mark stays when the operation that leaves it goes on leaving it.
LEMMA CoverStays ==
    ASSUME NEW k \in Threads, NEW n, op' = [op EXCEPT ![k] = n],
           op = [j \in Threads |-> op[j]],
           NEW t \in Tabs, NEW f \in Files, Covered(t, f),
           stored[f] = "sound" =>
               stored'[f] = "sound" \/ (Owes(n, f) /\ Hides(n, f)),
           inbox[t] > 0 => inbox'[t] > 0,
           f \in untold[t] => f \in untold'[t],
           TabOf[k] = t /\ Owes(op[k], f) => Owes(n, f),
           TabOf[k] # t /\ Hides(op[k], f) =>
               Hides(n, f) \/ inbox'[t] > 0 \/ f \in untold'[t]
    PROVE  Covered(t, f)'
    BY DEF Covered

\* A step of one thread that stores and deletes nothing keeps IInv.
LEMMA ThreadStep ==
    ASSUME IInv, NEW k \in Threads, NEW n \in {Idle} \cup OpType,
           op' = [op EXCEPT ![k] = n], context' = context, Track,
           stored' \in [Files -> {"absent", "sound", "damaged"}],
           custody' \in [Tabs -> SUBSET Files],
           epoch' \in [Tabs -> 0 .. MaxEpoch],
           inbox' \in [Tabs -> Nat], untold' \in [Tabs -> SUBSET Files],
           \A t \in Tabs : epoch[t] <= epoch'[t],
           OpOK(n, epoch'[TabOf[k]]),
           \A t \in Tabs : \A f \in Files :
               (f \in custody'[t] \/ epoch'[t] = epoch[t]) /\ Covered(t, f)
                 => Covered(t, f)',
           \A t \in Tabs : \A f \in custody'[t] :
               \/ f \in custody[t]
               \/ /\ t = TabOf[k] /\ epoch' = epoch
                  /\ \E row \in RowType : Counts(k, row) /\ row.file = f,
           n.at = "hash" =>
               \A row \in n.rows : row.bytes = "sound" =>
                   \/ stored'[row.file] = "sound"
                   \/ n.seen = op[k].seen /\ op[k].at = "hash" /\ row \in op[k].rows,
           n.at # "idle" /\ n.kind = "write" =>
               \/ Saving(k)
               \/ /\ op[k] = Idle /\ custody'[TabOf[k]] = {}
                  /\ epoch'[TabOf[k]] > epoch[TabOf[k]] /\ n.at # "hash"
    PROVE  IInv'
  <1>1. /\ op'[k] = n /\ \A j \in Threads \ {k} : op'[j] = op[j]
        /\ op' \in [Threads -> {Idle} \cup OpType]
    BY DEF IInv, TypeOK, OpType, RowType
  <1>epochs. ASSUME NEW j \in Threads
         PROVE  /\ TabOf[j] \in Tabs
                /\ epoch[TabOf[j]] \in Nat /\ epoch'[TabOf[j]] \in Nat
                /\ epoch[TabOf[j]] <= epoch'[TabOf[j]]
    <2>1. TabOf[j] \in Tabs
      BY ThreadsOfTabs
    <2>2. epoch \in [Tabs -> 0 .. MaxEpoch]
      BY DEF IInv, TypeOK
    <2>3. epoch[TabOf[j]] \in 0 .. MaxEpoch /\ epoch'[TabOf[j]] \in 0 .. MaxEpoch
      BY <2>1, <2>2
    <2> QED
      BY <2>1, <2>3, MaxEpochIsNatural
  <1>2. TypeOK'
    <2>1. held' \in [Threads -> SUBSET Files]
      BY DEF Track, Intact, IInv, TypeOK
    <2> QED
      BY <1>1, <2>1 DEF TypeOK, OpType, RowType, IInv
  <1>3. ASSUME NEW j \in Threads
        PROVE  OpOK(op'[j], epoch'[TabOf[j]])
    <2>1. CASE j = k
      BY <1>1, <2>1
    <2>2. CASE j # k
      <3>1. TabOf[j] \in Tabs /\ epoch[TabOf[j]] \in Nat /\ epoch'[TabOf[j]] \in Nat
            /\ epoch[TabOf[j]] <= epoch'[TabOf[j]]
        BY <1>epochs
      <3>2. OpOK(op[j], epoch[TabOf[j]]) /\ (op[j] = Idle \/ op[j].seen \in Nat)
        BY MaxEpochIsNatural, TypeFacts DEF IInv, OpType
      <3>3. op'[j] = op[j]
        BY <1>1, <2>2
      <3> QED
        BY <3>1, <3>2, <3>3 DEF OpOK
    <2> QED
      BY <2>1, <2>2
  <1>4. ASSUME NEW j \in Threads, NEW row \in RowType, Counts(j, row)'
        PROVE  \/ Counts(j, row) /\ epoch'[TabOf[j]] = epoch[TabOf[j]]
               \/ j = k /\ stored'[row.file] = "sound"
    <2>1. /\ TabOf[j] \in Tabs /\ epoch[TabOf[j]] \in Nat /\ epoch'[TabOf[j]] \in Nat
          /\ epoch[TabOf[j]] <= epoch'[TabOf[j]]
      BY <1>epochs
    <2>2. \/ stored'[row.file] = "sound" /\ j = k
          \/ /\ op'[j].seen = op[j].seen /\ op[j].at = "hash" /\ row \in op[j].rows
      BY <1>1, <1>4 DEF Counts
    <2>3. op[j].at = "hash" => op[j].seen <= epoch[TabOf[j]] /\ op[j].seen \in Nat
      BY TypeFacts, MaxEpochIsNatural DEF IInv, OpOK, OpType, Idle
    <2> QED
      BY <1>4, <2>1, <2>2, <2>3 DEF Counts
  <1>5. ASSUME NEW t \in Tabs, NEW f \in custody'[t]
        PROVE  Covered(t, f)'
    <2>1. f \in Files
      OBVIOUS
    <2>2. CASE f \in custody[t]
      BY <2>1, <2>2 DEF IInv
    <2>3. CASE /\ t = TabOf[k] /\ epoch' = epoch
               /\ \E row \in RowType : Counts(k, row) /\ row.file = f
      BY <2>1, <2>3 DEF IInv
    <2> QED
      BY <2>2, <2>3
  <1>6. ASSUME NEW j \in Threads, NEW row \in RowType, Counts(j, row)'
        PROVE  Covered(TabOf[j], row.file)'
    <2>1. TabOf[j] \in Tabs /\ row.file \in Files
      BY ThreadsOfTabs DEF RowType
    <2>2. CASE stored'[row.file] = "sound"
      BY <2>2 DEF Covered
    <2>3. CASE Counts(j, row) /\ epoch'[TabOf[j]] = epoch[TabOf[j]]
      BY <2>1, <2>3 DEF IInv
    <2> QED
      BY <1>4, <1>6, <2>2, <2>3
  <1>7. ASSUME NEW j \in Threads, Saving(j)'
        PROVE  \/ Saving(j) /\ held[j] \cup Intact(stored') \subseteq held'[j]
               \/ /\ j = k /\ Intact(stored') \subseteq held'[j]
                  /\ custody'[TabOf[k]] = {}
                  /\ epoch'[TabOf[k]] > epoch[TabOf[k]]
    <2>1. op'[j] # Idle /\ op'[j].kind = "write"
      BY <1>7 DEF Saving, Idle
    <2>2. held'[j] = (IF At(j, "idle") THEN Intact(stored) ELSE held[j])
                       \cup Intact(stored')
      BY <2>1 DEF Track
    <2>3. CASE j = k
      BY <1>1, <1>7, <2>2, <2>3 DEF Saving, At, Idle
    <2>4. CASE j # k
      BY <1>1, <1>7, <2>2, <2>4 DEF Saving, At
    <2> QED
      BY <2>3, <2>4
  <1>8. ASSUME NEW i \in Threads, NEW j \in Threads, NEW row \in RowType,
               Saving(i)', TabOf[j] = TabOf[i], Counts(j, row) \/ Counts(j, row)',
               epoch'[TabOf[j]] = epoch[TabOf[j]]
        PROVE  row.file \in held'[i]
    <2>1. Saving(i) /\ held[i] \cup Intact(stored') \subseteq held'[i]
      <3>1. epoch[TabOf[k]] \in Nat /\ epoch'[TabOf[k]] \in Nat
        BY <1>epochs
      <3> QED
        BY <1>7, <1>8, <3>1
    <2>2. CASE Counts(j, row)
      BY <1>8, <2>1, <2>2 DEF IInv
    <2>3. CASE stored'[row.file] = "sound"
      BY <2>1, <2>3 DEF Intact, RowType
    <2> QED
      BY <1>4, <1>8, <2>2, <2>3
  <1>9. ASSUME NEW i \in Threads, Saving(i)', NEW f \in custody'[TabOf[i]]
        PROVE  f \in held'[i]
    <2>1. TabOf[i] \in Tabs
      BY ThreadsOfTabs
    <2>2. Saving(i) /\ held[i] \subseteq held'[i]
      BY <1>7, <1>9
    <2>3. CASE f \in custody[TabOf[i]]
      BY <2>2, <2>3 DEF IInv
    <2>4. CASE /\ TabOf[i] = TabOf[k] /\ epoch' = epoch
               /\ \E row \in RowType : Counts(k, row) /\ row.file = f
      BY <1>8, <1>9, <2>4
    <2> QED
      BY <2>1, <2>3, <2>4
  <1>10. ASSUME NEW i \in Threads, NEW j \in Threads, NEW row \in RowType,
                Saving(i)', TabOf[j] = TabOf[i], Counts(j, row)'
         PROVE  row.file \in held'[i]
    <2>1. CASE epoch'[TabOf[j]] = epoch[TabOf[j]]
      BY <1>8, <1>10, <2>1
    <2>2. CASE epoch'[TabOf[j]] # epoch[TabOf[j]]
      <3>1. stored'[row.file] = "sound"
        BY <1>4, <1>10, <2>2
      <3>2. Intact(stored') \subseteq held'[i]
        BY <1>7, <1>10
      <3> QED
        BY <3>1, <3>2 DEF Intact, RowType
    <2> QED
      BY <2>1, <2>2
  <1> QED
    BY <1>2, <1>3, <1>5, <1>6, <1>9, <1>10 DEF IInv

\* A step that stores nothing, forgets nothing and tells nobody.
LEMMA QuietStep ==
    ASSUME IInv, NEW k \in Threads, NEW n \in {Idle} \cup OpType,
           op' = [op EXCEPT ![k] = n], context' = context, Track,
           UNCHANGED <<stored, epoch, inbox, untold>>,
           custody' \in [Tabs -> SUBSET Files],
           OpOK(n, epoch[TabOf[k]]),
           op[k].at \notin {"announce", "restored"},
           op[k].at # "idle" /\ op[k].kind = "restore" =>
               n.at \notin {"idle", "restored"} /\ n.kind = "restore" /\ n.files = Files,
           \A t \in Tabs : \A f \in custody'[t] :
               \/ f \in custody[t]
               \/ /\ t = TabOf[k]
                  /\ \E row \in RowType : Counts(k, row) /\ row.file = f,
           n.at = "hash" =>
               \A row \in n.rows : row.bytes = "sound" =>
                   \/ stored[row.file] = "sound"
                   \/ n.seen = op[k].seen /\ op[k].at = "hash" /\ row \in op[k].rows,
           n.at # "idle" /\ n.kind = "write" => Saving(k)
    PROVE  IInv'
  <1>1. /\ op = [j \in Threads |-> op[j]] /\ epoch \in [Tabs -> 0 .. MaxEpoch]
        /\ stored \in [Files -> {"absent", "sound", "damaged"}]
        /\ inbox \in [Tabs -> Nat] /\ untold \in [Tabs -> SUBSET Files]
    BY DEF IInv, TypeOK
  <1>2. \A t \in Tabs : epoch[t] <= epoch'[t]
    <2>1. \A t \in Tabs : epoch[t] \in 0 .. MaxEpoch
      BY <1>1
    <2> QED
      BY <2>1, MaxEpochIsNatural
  <1>3. ASSUME NEW t \in Tabs, NEW f \in Files, Covered(t, f)
        PROVE  Covered(t, f)'
    <2>1. ~Owes(op[k], f)
      BY DEF Owes
    <2>2. Hides(op[k], f) => Hides(n, f)
      BY DEF Hides
    <2> QED
      BY <1>1, <1>3, <2>1, <2>2, CoverStays
  <1> QED
    BY <1>1, <1>2, <1>3, ThreadStep

\* A read of one file begins.
LEMMA BeginGetIInv ==
    ASSUME IInv, context' = context, Track, NEW k \in Threads, NEW f \in Files,
           BeginGet(k, f) \/ BeginDelete(k, f)
    PROVE  IInv'
  <1>1. TypeOK /\ op[k] = Idle /\ TabOf[k] \in Tabs /\ epoch[TabOf[k]] \in 0 .. MaxEpoch
    BY TypeFacts DEF IInv, BeginGet, BeginDelete, At
  <1>2. PICK o \in {Doing("read", "get", {f}, epoch[TabOf[k]]),
                    Doing("delete", "delete", {f}, epoch[TabOf[k]])} :
           op' = [op EXCEPT ![k] = o]
    BY DEF BeginGet, BeginDelete, Becomes
  <1>3. o \in OpType /\ o.seen = epoch[TabOf[k]] /\ o.at \in {"read", "delete"}
        /\ o.kind \in {"get", "delete"}
    <2>1. \A a \in {"read", "delete"}, kind \in {"get", "delete"} :
            /\ Doing(a, kind, {f}, epoch[TabOf[k]]) \in OpType
            /\ Doing(a, kind, {f}, epoch[TabOf[k]]).seen = epoch[TabOf[k]]
            /\ Doing(a, kind, {f}, epoch[TabOf[k]]).at = a
            /\ Doing(a, kind, {f}, epoch[TabOf[k]]).kind = kind
      BY <1>1 DEF Doing, OpType, Places, Kinds
    <2> QED
      BY <1>2, <2>1
  <1>4. OpOK(o, epoch[TabOf[k]])
    BY <1>1, <1>3, MaxEpochIsNatural DEF OpOK
  <1>5. /\ custody' \in [Tabs -> SUBSET Files]
        /\ \A t \in Tabs : custody'[t] \subseteq custody[t]
    BY <1>1 DEF BeginGet, BeginDelete, Drop, TypeOK
  <1>6. UNCHANGED <<stored, epoch, inbox, untold>>
    BY DEF BeginGet, BeginDelete
  <1>7. op[k].at = "idle"
    BY <1>1 DEF Idle
  <1> QED
    BY <1>2, <1>3, <1>4, <1>5, <1>6, <1>7, QuietStep

\* A read sees the rows there are.
LEMMA ReadIInv ==
    ASSUME IInv, context' = context, Track, NEW k \in Threads, Read(k)
    PROVE  IInv'
  <1> DEFINE now == op[k]
             rows == Rows(now.files)
  <1>1. TypeOK /\ now \in OpType /\ now.at = "read" /\ OpOK(now, epoch[TabOf[k]])
    BY TypeFacts DEF IInv, Read, At, Idle
  <1>2. /\ rows \in SUBSET RowType /\ \A row \in rows : row.bytes = stored[row.file]
    BY <1>1, RowsFacts DEF OpType
  <1>3. PICK n : /\ op' = [op EXCEPT ![k] = n]
                 /\ \/ n = [now EXCEPT !.at = "cleanup"] /\ now.kind = "put"
                    \/ n = Observing(now, rows)
    BY DEF Read, Becomes
  <1>4. /\ n \in {Idle} \cup OpType
        /\ \/ n = Idle /\ now.kind \notin {"write", "restore"}
           \/ /\ n.kind = now.kind /\ n.files = now.files /\ n.seen = now.seen
              /\ \/ n.at = "cleanup" /\ now.kind = "put"
                 \/ n.at = "hash" /\ n.rows = rows
                 \/ n.at = "next" /\ now.kind = "write"
                 \/ n.at = "announce" /\ now.kind = "restore"
    <2> HIDE DEF now, rows
    <2>1. CASE n = [now EXCEPT !.at = "cleanup"] /\ now.kind = "put"
      BY <1>1, <2>1, MovedTo, MovedType DEF Places, Moved, OpType
    <2>2. CASE n = Observing(now, rows)
      <3>1. \A a \in Places : Moved(now, a, rows) \in OpType
        BY <1>1, <1>2, MovedType
      <3> QED
        BY <1>1, <1>2, <2>2, <3>1, ObservingFacts DEF Places, Moved
    <2> QED
      BY <1>3, <2>1, <2>2
  <1> HIDE DEF rows
  <1>5. OpOK(n, epoch[TabOf[k]])
    BY <1>1, <1>4 DEF OpOK, Idle
  <1>6. UNCHANGED <<stored, custody, epoch, inbox, untold>>
    BY DEF Read
  <1>7. n.at # "idle" /\ n.kind = "write" => Saving(k)
    BY <1>1, <1>4 DEF Saving, Idle
  <1>8. now.kind = "restore" =>
          n.at \notin {"idle", "restored"} /\ n.kind = "restore" /\ n.files = Files
    BY <1>1, <1>4 DEF OpOK, Idle
  <1>9. n.at = "hash" => \A row \in n.rows : row.bytes = "sound" => stored[row.file] = "sound"
    BY <1>2, <1>4 DEF Idle
  <1>10. custody \in [Tabs -> SUBSET Files]
    BY <1>1 DEF TypeOK
  <1> QED
    BY <1>1, <1>3, <1>4, <1>5, <1>6, <1>7, <1>8, <1>9, <1>10, QuietStep

\* A row has been hashed: custody is recorded while the epoch is current.
LEMMA ObserveIInv ==
    ASSUME IInv, context' = context, Track, NEW k \in Threads, NEW row, Observe(k, row)
    PROVE  IInv'
  <1> DEFINE now == op[k]
             rows == now.rows \ {row}
  <1>1. TypeOK /\ now \in OpType /\ now.at = "hash" /\ OpOK(now, epoch[TabOf[k]])
        /\ TabOf[k] \in Tabs
    BY TypeFacts DEF IInv, Observe, At, Idle
  <1>2. rows \in SUBSET RowType /\ row \in RowType
    BY <1>1 DEF OpType, Observe
  <1>3. PICK n : op' = [op EXCEPT ![k] = n] /\ n = Observing(now, rows)
    BY DEF Observe, Becomes
  <1>4. /\ n \in {Idle} \cup OpType
        /\ \/ n = Idle /\ now.kind \notin {"write", "restore"}
           \/ /\ n.kind = now.kind /\ n.files = now.files /\ n.seen = now.seen
              /\ \/ n.at = "hash" /\ n.rows = rows
                 \/ n.at = "next" /\ now.kind = "write"
                 \/ n.at = "announce" /\ now.kind = "restore"
    <2> HIDE DEF now, rows
    <2>1. \A a \in Places : Moved(now, a, rows) \in OpType
      BY <1>1, <1>2, MovedType
    <2> QED
      BY <1>1, <1>2, <1>3, <2>1, ObservingFacts DEF Places, Moved
  <1>5. OpOK(n, epoch[TabOf[k]])
    BY <1>1, <1>4 DEF OpOK, Idle
  <1>6. UNCHANGED <<stored, epoch, inbox, untold>>
    BY DEF Observe
  <1>7. custody' = [custody EXCEPT ![TabOf[k]] =
                      IF Records(TabOf[k], now.seen, row) THEN @ \cup {row.file}
                                                          ELSE @ \ {row.file}]
    BY DEF Observe
  <1>8. /\ custody' \in [Tabs -> SUBSET Files]
        /\ \A t \in Tabs : \A f \in custody'[t] :
              \/ f \in custody[t]
              \/ /\ t = TabOf[k] /\ f = row.file /\ Records(TabOf[k], now.seen, row)
    BY <1>1, <1>2, <1>7 DEF TypeOK, RowType
  <1>9. Records(TabOf[k], now.seen, row) => Counts(k, row)
    BY <1>1 DEF Records, Counts, Observe
  <1>10. n.at # "idle" /\ n.kind = "write" => Saving(k)
    BY <1>1, <1>4 DEF Saving, Idle
  <1>11. now.kind = "restore" =>
          n.at \notin {"idle", "restored"} /\ n.kind = "restore" /\ n.files = Files
    BY <1>1, <1>4 DEF OpOK, Idle
  <1>12. n.at = "hash" => n.rows \subseteq now.rows /\ n.seen = now.seen
    BY <1>4 DEF Idle
  <1> QED
    BY <1>1, <1>2, <1>3, <1>4, <1>5, <1>6, <1>8, <1>9, <1>10, <1>11, <1>12, QuietStep

\* A save or an intake turns to its next file.
LEMMA GetNextIInv ==
    ASSUME IInv, context' = context, Track, NEW k \in Threads, NEW f \in Files,
           GetNext(k, f)
    PROVE  IInv'
  <1> DEFINE now == op[k]
             n == [now EXCEPT !.at = "read", !.files = {f},
                              !.later = @ \ {f}, !.seen = epoch[TabOf[k]]]
             m == [at |-> "read", kind |-> now.kind, files |-> {f},
                   later |-> now.later \ {f}, seen |-> epoch[TabOf[k]],
                   rows |-> now.rows]
  <1>1. TypeOK /\ now \in OpType /\ now.at = "next" /\ OpOK(now, epoch[TabOf[k]])
        /\ TabOf[k] \in Tabs /\ epoch[TabOf[k]] \in 0 .. MaxEpoch
    BY TypeFacts DEF IInv, GetNext, At, Idle
  <1>2. n = m
    <2> DEFINE a == [now EXCEPT !.at = "read"]
               b == [a EXCEPT !.files = {f}]
               c == [b EXCEPT !.later = now.later \ {f}]
               d == [c EXCEPT !.seen = epoch[TabOf[k]]]
    <2>1. now = [at |-> now.at, kind |-> now.kind, files |-> now.files,
                 later |-> now.later, seen |-> now.seen, rows |-> now.rows]
      BY <1>1 DEF OpType
    <2>2. n = d
      OBVIOUS
    <2> HIDE DEF now, n, d
    <2>3. a = [at |-> "read", kind |-> now.kind, files |-> now.files,
               later |-> now.later, seen |-> now.seen, rows |-> now.rows]
      BY <2>1
    <2> HIDE DEF a
    <2>4. b = [at |-> "read", kind |-> now.kind, files |-> {f},
               later |-> now.later, seen |-> now.seen, rows |-> now.rows]
      BY <2>3
    <2> HIDE DEF b
    <2>5. c = [at |-> "read", kind |-> now.kind, files |-> {f},
               later |-> now.later \ {f}, seen |-> now.seen, rows |-> now.rows]
      BY <2>4
    <2> HIDE DEF c
    <2>6. d = m
      BY <2>5 DEF d
    <2> QED
      BY <2>2, <2>6
  <1>3. m \in OpType
    BY <1>1 DEF OpType, Places
  <1>4. UNCHANGED <<stored, epoch, inbox, untold>> /\ op' = [op EXCEPT ![k] = n]
    BY DEF GetNext, Becomes
  <1>5. now.kind # "restore"
    BY <1>1 DEF OpOK, Idle
  <1>6. OpOK(m, epoch[TabOf[k]])
    BY <1>1, <1>5, MaxEpochIsNatural DEF OpOK
  <1>7. /\ custody' \in [Tabs -> SUBSET Files]
        /\ \A t \in Tabs : custody'[t] \subseteq custody[t]
    BY <1>1 DEF GetNext, Drop, TypeOK
  <1>8. m.kind = "write" => Saving(k)
    BY <1>1 DEF Saving
  <1>9. m.at = "read"
    OBVIOUS
  <1> HIDE DEF n, m
  <1> QED
    BY <1>1, <1>2, <1>3, <1>4, <1>5, <1>6, <1>7, <1>8, <1>9, QuietStep

\* A save has decided on its files.
LEMMA DecideIInv ==
    ASSUME IInv, context' = context, Track, NEW k \in Threads, Decide(k)
    PROVE  IInv'
  <1>1. /\ TypeOK /\ op[k].at = "next" /\ OpOK(op[k], epoch[TabOf[k]])
        /\ op[k] # Idle
    BY DEF IInv, Decide, Deciding, At, Idle
  <1>2. op' = [op EXCEPT ![k] = Idle] /\ UNCHANGED <<stored, custody, epoch, inbox, untold>>
    BY DEF Decide, Becomes
  <1>3. custody' \in [Tabs -> SUBSET Files] /\ op[k].kind # "restore"
    BY <1>1, <1>2 DEF TypeOK, OpOK
  <1>4. Idle.at = "idle" /\ OpOK(Idle, epoch[TabOf[k]])
    BY DEF Idle, OpOK
  <1> QED
    BY <1>1, <1>2, <1>3, <1>4, QuietStep

\* What a step of a thread starts from.
LEMMA StepFacts ==
    ASSUME IInv, NEW k \in Threads
    PROVE  /\ op = [j \in Threads |-> op[j]] /\ TabOf[k] \in Tabs
           /\ stored \in [Files -> {"absent", "sound", "damaged"}]
           /\ custody \in [Tabs -> SUBSET Files] /\ epoch \in [Tabs -> 0 .. MaxEpoch]
           /\ inbox \in [Tabs -> Nat] /\ untold \in [Tabs -> SUBSET Files]
           /\ \A t \in Tabs : epoch[t] \in Nat /\ epoch[t] <= epoch[t]
           /\ op[k] = Idle \/ op[k] \in OpType
           /\ op[k] = Idle <=> op[k].at = "idle"
           /\ OpOK(op[k], epoch[TabOf[k]])
  <1>1. TypeOK
    BY DEF IInv
  <1>2. epoch \in [Tabs -> 0 .. MaxEpoch]
    BY <1>1 DEF TypeOK
  <1>3. \A t \in Tabs : epoch[t] \in 0 .. MaxEpoch
    BY <1>2
  <1>4. \A t \in Tabs : epoch[t] \in Nat /\ epoch[t] <= epoch[t]
    BY <1>3, MaxEpochIsNatural
  <1> QED
    BY <1>1, <1>2, <1>4, TypeFacts DEF IInv, TypeOK

\* An operation that begins, or goes on, with forgetting files: what it forgets
\* needs no mark, and what was being hashed will not be recorded.
LEMMA ForgetFacts ==
    ASSUME IInv, NEW t \in Tabs, NEW files \in SUBSET Files, Forget(t, files)
    PROVE  /\ epoch' \in [Tabs -> 0 .. MaxEpoch]
           /\ epoch[t] + 1 \in 0 .. MaxEpoch
           /\ epoch'[t] = epoch[t] + 1 /\ epoch'[t] > epoch[t]
           /\ \A u \in Tabs \ {t} : epoch'[u] = epoch[u] /\ custody'[u] = custody[u]
           /\ \A u \in Tabs : epoch[u] <= epoch'[u]
           /\ custody' \in [Tabs -> SUBSET Files]
           /\ custody'[t] = custody[t] \ files
  <1>1. epoch \in [Tabs -> 0 .. MaxEpoch] /\ custody \in [Tabs -> SUBSET Files]
    BY DEF IInv, TypeOK
  <1>2. \A u \in Tabs : epoch[u] \in 0 .. MaxEpoch
    BY <1>1
  <1>3. epoch[t] + 1 \in 0 .. MaxEpoch
    BY <1>2, MaxEpochIsNatural DEF Forget
  <1>4. /\ epoch' \in [Tabs -> 0 .. MaxEpoch] /\ epoch'[t] = epoch[t] + 1
        /\ \A u \in Tabs \ {t} : epoch'[u] = epoch[u]
    BY <1>1, <1>3 DEF Forget
  <1>5. /\ custody' \in [Tabs -> SUBSET Files] /\ custody'[t] = custody[t] \ files
        /\ \A u \in Tabs \ {t} : custody'[u] = custody[u]
    BY <1>1 DEF Forget
  <1>6. \A u \in Tabs : epoch[u] <= epoch'[u]
    BY <1>2, <1>4, MaxEpochIsNatural
  <1>7. epoch'[t] > epoch[t]
    BY <1>2, <1>4, MaxEpochIsNatural
  <1> QED
    BY <1>3, <1>4, <1>5, <1>6, <1>7

\* An operation that forgets all custody of its tab advances its epoch.
LEMMA ForgetAllStep ==
    ASSUME IInv, context' = context, Track, NEW k \in Threads, NEW n \in OpType,
           op' = [op EXCEPT ![k] = n], ForgetAll(TabOf[k]), UNCHANGED <<stored, inbox>>,
           n.seen <= epoch[TabOf[k]] + 1, n.at \in {"read", "next"},
           \/ op[k] = Idle /\ n.kind \in {"list", "write"}
           \/ op[k].at = "restored" /\ n.at = "read" /\ n.kind = "restore" /\ n.files = Files
    PROVE  IInv'
  <1> DEFINE t == TabOf[k]
  <1>1. /\ op = [j \in Threads |-> op[j]] /\ t \in Tabs
        /\ stored \in [Files -> {"absent", "sound", "damaged"}]
        /\ inbox \in [Tabs -> Nat] /\ untold \in [Tabs -> SUBSET Files]
        /\ op[k] = Idle <=> op[k].at = "idle"
    BY StepFacts
  <1>2. /\ epoch' \in [Tabs -> 0 .. MaxEpoch]
        /\ epoch'[t] = epoch[t] + 1 /\ epoch'[t] > epoch[t]
        /\ \A u \in Tabs \ {t} : epoch'[u] = epoch[u] /\ custody'[u] = custody[u]
        /\ \A u \in Tabs : epoch[u] <= epoch'[u]
        /\ custody' \in [Tabs -> SUBSET Files]
        /\ custody'[t] = custody[t] \ Files
    BY <1>1, ForgetFacts DEF ForgetAll
  <1>3. custody'[t] = {}
    <2>1. custody[t] \subseteq Files
      BY <1>1, StepFacts
    <2> QED
      BY <1>2, <2>1
  <1>4. /\ untold' \in [Tabs -> SUBSET Files] /\ \A u \in Tabs \ {t} : untold'[u] = untold[u]
    BY <1>1 DEF ForgetAll
  <1>5. OpOK(n, epoch'[t])
    BY <1>2 DEF OpOK
  <1>6. ASSUME NEW u \in Tabs, NEW f \in Files, Covered(u, f), u # t
        PROVE  Covered(u, f)'
    <2>1. Hides(op[k], f) => Hides(n, f)
      BY <1>1 DEF Hides
    <2> QED
      BY <1>1, <1>4, <1>6, <2>1, CoverStays
  <1>7. \A u \in Tabs : \A f \in Files :
          (f \in custody'[u] \/ epoch'[u] = epoch[u]) /\ Covered(u, f) => Covered(u, f)'
    <2>1. epoch[t] \in Nat
      BY <1>1, StepFacts
    <2> QED
      BY <1>2, <1>3, <1>6, <2>1
  <1>8. \A u \in Tabs : \A f \in custody'[u] : f \in custody[u]
    BY <1>2, <1>3
  <1>9. n.kind = "write" => op[k] = Idle
    BY <1>1 DEF Idle
  <1> QED
    BY <1>1, <1>2, <1>3, <1>4, <1>5, <1>7, <1>8, <1>9, ThreadStep

\* A listing, the listing of a restored project and a save begin by forgetting
\* all custody of their tab.
LEMMA ForgettingIInv ==
    ASSUME IInv, context' = context, Track, NEW k \in Threads,
           \/ BeginList(k) \/ ListRestored(k)
           \/ \E current \in SUBSET Files : BeginWrite(k, current)
    PROVE  IInv'
  <1> DEFINE e == epoch[TabOf[k]] + 1
  <1>1. e \in 0 .. MaxEpoch /\ e <= epoch[TabOf[k]] + 1
    <2>1. ForgetAll(TabOf[k])
      BY DEF BeginList, ListRestored, BeginWrite
    <2>2. TabOf[k] \in Tabs /\ epoch[TabOf[k]] \in Nat
      BY StepFacts
    <2>3. e \in 0 .. MaxEpoch
      BY <2>1, <2>2, ForgetFacts DEF ForgetAll
    <2> QED
      BY <2>2, <2>3
  <1>2. /\ op[k] = Idle <=> op[k].at = "idle"
    BY StepFacts
  <1> HIDE DEF e
  <1>3. \A a \in {"read", "next"}, kind \in {"list", "write", "restore"},
          files \in SUBSET Files :
           /\ Doing(a, kind, files, e) \in OpType
           /\ Doing(a, kind, files, e).at = a /\ Doing(a, kind, files, e).kind = kind
           /\ Doing(a, kind, files, e).files = files /\ Doing(a, kind, files, e).seen = e
    BY <1>1 DEF Doing, OpType, Places, Kinds
  <1>4. CASE BeginList(k)
    <2> DEFINE n == Doing("read", "list", Files, e)
    <2>1. op' = [op EXCEPT ![k] = n]
      BY <1>4 DEF BeginList, Becomes, e
    <2>2. ForgetAll(TabOf[k]) /\ UNCHANGED <<stored, inbox>> /\ op[k] = Idle
      BY <1>2, <1>4 DEF BeginList, At
    <2>3. n \in OpType /\ n.at = "read" /\ n.kind = "list" /\ n.files = Files
          /\ n.seen = e
      BY <1>3
    <2> HIDE DEF n
    <2> QED
      BY <1>1, <2>1, <2>2, <2>3, ForgetAllStep
  <1>5. CASE ListRestored(k)
    <2> DEFINE n == Doing("read", "restore", Files, e)
    <2>1. op' = [op EXCEPT ![k] = n]
      BY <1>5 DEF ListRestored, Becomes, e
    <2>2. ForgetAll(TabOf[k]) /\ UNCHANGED <<stored, inbox>> /\ op[k].at = "restored"
      BY <1>5 DEF ListRestored, At
    <2>3. n \in OpType /\ n.at = "read" /\ n.kind = "restore" /\ n.files = Files
          /\ n.seen = e
      BY <1>3
    <2> HIDE DEF n
    <2> QED
      BY <1>1, <2>1, <2>2, <2>3, ForgetAllStep
  <1>6. ASSUME NEW current \in SUBSET Files, BeginWrite(k, current)
        PROVE  IInv'
    <2> DEFINE d == Doing("next", "write", {}, e)
               n == [d EXCEPT !.later = current]
    <2>1. d \in OpType /\ d.at = "next" /\ d.kind = "write" /\ d.seen = e
      BY <1>3
    <2> HIDE DEF d
    <2>2. n \in OpType /\ n.at = "next" /\ n.kind = "write" /\ n.seen = e
      BY <2>1 DEF OpType
    <2>3. op' = [op EXCEPT ![k] = n]
      BY <1>6 DEF BeginWrite, Becomes, d, e
    <2>4. ForgetAll(TabOf[k]) /\ UNCHANGED <<stored, inbox>> /\ op[k] = Idle
      BY <1>2, <1>6 DEF BeginWrite, At
    <2> HIDE DEF n
    <2> QED
      BY <1>1, <2>2, <2>3, <2>4, ForgetAllStep
  <1> QED
    BY <1>4, <1>5, <1>6

\* An intake of one file begins.
LEMMA BeginPutIInv ==
    ASSUME IInv, context' = context, Track, NEW k \in Threads, NEW f \in Files,
           BeginPut(k, f)
    PROVE  IInv'
  <1> DEFINE t == TabOf[k]
             n == Doing("put", "put", {f}, epoch[t] + 1)
  <1>1. /\ op = [j \in Threads |-> op[j]] /\ t \in Tabs
        /\ stored \in [Files -> {"absent", "sound", "damaged"}]
        /\ inbox \in [Tabs -> Nat] /\ untold \in [Tabs -> SUBSET Files]
        /\ op[k] = Idle /\ op[k].at = "idle" /\ epoch[t] \in Nat
    BY StepFacts DEF BeginPut, At
  <1>2. Forget(t, {f}) /\ UNCHANGED <<stored, inbox, untold>> /\ op' = [op EXCEPT ![k] = n]
    BY DEF BeginPut, Becomes
  <1>3. /\ epoch' \in [Tabs -> 0 .. MaxEpoch] /\ epoch[t] + 1 \in 0 .. MaxEpoch
        /\ epoch'[t] = epoch[t] + 1
        /\ \A u \in Tabs : epoch[u] <= epoch'[u]
        /\ custody' \in [Tabs -> SUBSET Files]
        /\ \A u \in Tabs : custody'[u] \subseteq custody[u]
    BY <1>1, <1>2, ForgetFacts
  <1>4. n \in OpType /\ n.at = "put" /\ n.kind = "put" /\ n.seen = epoch[t] + 1
    BY <1>3 DEF Doing, OpType, Places, Kinds
  <1> HIDE DEF n
  <1>5. OpOK(n, epoch'[t])
    BY <1>1, <1>3, <1>4 DEF OpOK
  <1>6. ASSUME NEW u \in Tabs, NEW g \in Files, Covered(u, g)
        PROVE  Covered(u, g)'
    <2>1. ~Owes(op[k], g) /\ ~Hides(op[k], g)
      BY <1>1 DEF Owes, Hides
    <2> QED
      BY <1>1, <1>2, <1>6, <2>1, CoverStays
  <1> QED
    BY <1>1, <1>2, <1>3, <1>4, <1>5, <1>6, ThreadStep

\* A step that changes the files, or nothing but the place of its operation,
\* and that the tabs have not yet heard of.
LEMMA StoreStep ==
    ASSUME IInv, context' = context, Track, NEW k \in Threads,
           NEW n \in {Idle} \cup OpType, op' = [op EXCEPT ![k] = n],
           stored' \in [Files -> {"absent", "sound", "damaged"}],
           UNCHANGED <<custody, epoch, inbox, untold>>,
           op[k].at \notin {"announce", "restored"},
           op[k].at # "idle" => op[k].kind # "restore",
           \A f \in Files : stored[f] = "sound" =>
               stored'[f] = "sound" \/ (Owes(n, f) /\ Hides(n, f)),
           OpOK(n, epoch[TabOf[k]]),
           n.at = "hash" =>
               \A row \in n.rows : row.bytes = "sound" => stored'[row.file] = "sound",
           n.at # "idle" /\ n.kind = "write" => Saving(k)
    PROVE  IInv'
  <1>1. /\ op = [j \in Threads |-> op[j]] /\ TabOf[k] \in Tabs
        /\ custody' \in [Tabs -> SUBSET Files] /\ epoch' \in [Tabs -> 0 .. MaxEpoch]
        /\ inbox' \in [Tabs -> Nat] /\ untold' \in [Tabs -> SUBSET Files]
        /\ \A t \in Tabs : epoch[t] <= epoch'[t]
    BY StepFacts
  <1>2. ASSUME NEW u \in Tabs, NEW g \in Files, Covered(u, g)
        PROVE  Covered(u, g)'
    <2>1. ~Owes(op[k], g) /\ ~Hides(op[k], g)
      BY DEF Owes, Hides
    <2> QED
      BY <1>1, <1>2, <2>1, CoverStays
  <1> QED
    BY <1>1, <1>2, ThreadStep

\* An intake stores a file or finds the one that is there.
LEMMA PutIInv ==
    ASSUME IInv, context' = context, Track, NEW k \in Threads, Put(k)
    PROVE  IInv'
  <1> DEFINE now == op[k]
  <1>1. /\ now \in OpType /\ now.at = "put" /\ OpOK(now, epoch[TabOf[k]])
        /\ now # Idle /\ stored \in [Files -> {"absent", "sound", "damaged"}]
    BY StepFacts DEF Put, At
  <1> DEFINE Puts(f, n) ==
          /\ op' = [op EXCEPT ![k] = n]
          /\ stored' = [stored EXCEPT ![f] = IF @ = "absent" THEN "sound" ELSE @]
          /\ \/ stored[f] = "absent" /\ n = [now EXCEPT !.at = "next", !.later = {f}]
             \/ stored[f] = "sound" /\ n = Observing(now, {Row(f)})
             \/ n = Idle
  <1>0. PICK f \in Files : \E n : Puts(f, n)
    <2>1. PICK f \in Files :
            /\ stored' = [stored EXCEPT ![f] = IF @ = "absent" THEN "sound" ELSE @]
            /\ Becomes(k, CASE stored[f] = "absent" -> [now EXCEPT !.at = "next",
                                                                  !.later = {f}]
                           [] stored[f] = "sound" -> Observing(now, {Row(f)})
                           [] stored[f] = "damaged" -> Idle)
      BY DEF Put
    <2>2. stored[f] \in {"absent", "sound", "damaged"}
      BY <1>1
    <2> HIDE DEF now
    <2>3. CASE stored[f] = "absent"
      BY <2>1, <2>3 DEF Becomes
    <2>4. CASE stored[f] = "sound"
      BY <2>1, <2>4 DEF Becomes
    <2>5. CASE stored[f] = "damaged"
      BY <2>1, <2>5 DEF Becomes
    <2> QED
      BY <2>2, <2>3, <2>4, <2>5
  <1>2. PICK n : Puts(f, n)
    BY <1>0
  <1>3. /\ stored' \in [Files -> {"absent", "sound", "damaged"}]
        /\ \A g \in Files : stored[g] = "sound" => stored'[g] = "sound"
    BY <1>1, <1>2
  <1>4. /\ n \in {Idle} \cup OpType
        /\ n # Idle => n.kind = now.kind /\ n.seen = now.seen /\ n.at \in {"next", "hash"}
        /\ n.at = "hash" => n.rows = {Row(f)} /\ stored[f] = "sound"
    <2>1. CASE n = Idle
      BY <2>1 DEF Idle
    <2>2. CASE n = [now EXCEPT !.at = "next", !.later = {f}]
      <3> DEFINE a == [now EXCEPT !.at = "next"]
      <3>1. a \in OpType /\ a.at = "next" /\ a.kind = now.kind /\ a.seen = now.seen
        <4> HIDE DEF now
        <4>1. now \in OpType
          BY <1>1
        <4> QED
          BY <4>1 DEF OpType, Places
      <3>2. n = [a EXCEPT !.later = {f}]
        BY <2>2
      <3> HIDE DEF a
      <3> QED
        BY <3>1, <3>2 DEF OpType
    <2>3. CASE stored[f] = "sound" /\ n = Observing(now, {Row(f)})
      <3>1. {Row(f)} \in SUBSET RowType
        BY <2>3 DEF Row, RowType
      <3>2. n = Moved(now, "hash", {Row(f)})
        <4>1. n = [now EXCEPT !.at = "hash", !.rows = {Row(f)}]
          BY <2>3 DEF Observing
        <4> QED
          BY <1>1, <3>1, <4>1, MovedWithRows DEF Places
      <3>3. n \in OpType
        BY <1>1, <3>1, <3>2, MovedType DEF Places
      <3> QED
        BY <2>3, <3>2, <3>3 DEF Moved
    <2> QED
      BY <1>2, <2>1, <2>2, <2>3
  <1>5. now.kind # "restore"
    BY <1>1 DEF OpOK
  <1>6. OpOK(n, epoch[TabOf[k]])
    BY <1>1, <1>4, <1>5 DEF OpOK
  <1>7. n.at = "hash" =>
          \A row \in n.rows : row.bytes = "sound" => stored'[row.file] = "sound"
    BY <1>3, <1>4 DEF Row
  <1>8. n.at # "idle" /\ n.kind = "write" => Saving(k)
    BY <1>1, <1>4 DEF Saving, Idle
  <1>9. UNCHANGED <<custody, epoch, inbox, untold>>
    BY DEF Put
  <1> QED
    BY <1>1, <1>2, <1>3, <1>4, <1>5, <1>6, <1>7, <1>8, <1>9, StoreStep

\* A cleanup or a deletion erases files.
LEMMA ErasingIInv ==
    ASSUME IInv, context' = context, Track, NEW k \in Threads, Cleanup(k) \/ Delete(k)
    PROVE  IInv'
  <1> DEFINE now == op[k]
             n == [now EXCEPT !.at = "announce"]
  <1>1. /\ now \in OpType /\ now.at \in {"cleanup", "delete"}
        /\ OpOK(now, epoch[TabOf[k]])
        /\ now # Idle /\ stored \in [Files -> {"absent", "sound", "damaged"}]
    BY StepFacts DEF Cleanup, Delete, At
  <1>2. now.kind \notin {"restore", "write"}
    BY <1>1 DEF OpOK
  <1>3. /\ n \in OpType /\ n.at = "announce" /\ n.kind = now.kind
        /\ n.files = now.files /\ n.seen = now.seen
    <2> HIDE DEF now
    <2>1. now \in OpType
      BY <1>1
    <2> QED
      BY <2>1 DEF OpType, Places
  <1>4. /\ stored' = [f \in Files |-> IF f \in now.files THEN "absent" ELSE stored[f]]
        /\ UNCHANGED <<custody, epoch, inbox, untold>>
        /\ \/ op' = [op EXCEPT ![k] = n]
           \/ op' = [op EXCEPT ![k] = Idle] /\ stored' = stored
    BY DEF Cleanup, Delete, Becomes
  <1>5. stored' \in [Files -> {"absent", "sound", "damaged"}]
    BY <1>1, <1>4
  <1> HIDE DEF now, n
  <1>6. \A f \in Files : stored[f] = "sound" =>
               stored'[f] = "sound" \/ (Owes(n, f) /\ Hides(n, f))
    BY <1>2, <1>3, <1>4 DEF Owes, Hides
  <1>7. OpOK(n, epoch[TabOf[k]]) /\ OpOK(Idle, epoch[TabOf[k]]) /\ Idle.at = "idle"
    BY <1>1, <1>2, <1>3 DEF OpOK, Idle
  <1>8. CASE op' = [op EXCEPT ![k] = n]
    BY <1>1, <1>2, <1>3, <1>4, <1>5, <1>6, <1>7, <1>8, StoreStep DEF now
  <1>9. CASE op' = [op EXCEPT ![k] = Idle] /\ stored' = stored
    BY <1>1, <1>2, <1>4, <1>5, <1>7, <1>9, StoreStep DEF now
  <1> QED
    BY <1>4, <1>8, <1>9

\* A restoration replaces every file.
LEMMA ReplacingIInv ==
    ASSUME IInv, context' = context, Track, NEW k \in Threads,
           Remove(k) \/ \E retained \in SUBSET Files : Restore(k, retained)
    PROVE  IInv'
  <1>1. /\ op[k] = Idle /\ op[k].at = "idle"
        /\ TabOf[k] \in Tabs /\ epoch[TabOf[k]] \in Nat
        /\ epoch[TabOf[k]] \in 0 .. MaxEpoch
    BY StepFacts DEF Remove, Restore, At
  <1>2. PICK n : /\ op' = [op EXCEPT ![k] = n]
                 /\ n \in {Doing("restored", "restore", Files, epoch[TabOf[k]]),
                           Doing("announce", "remove", Files, epoch[TabOf[k]])}
    BY DEF Remove, Restore, Becomes
  <1>3. /\ n \in OpType /\ n.files = Files /\ n.seen = epoch[TabOf[k]]
        /\ \/ n.at = "restored" /\ n.kind = "restore"
           \/ n.at = "announce" /\ n.kind = "remove"
    BY <1>1, <1>2 DEF Doing, OpType, Places, Kinds
  <1>4. /\ stored' \in [Files -> {"absent", "sound", "damaged"}]
        /\ UNCHANGED <<custody, epoch, inbox, untold>>
    BY DEF Remove, Restore
  <1>5. \A f \in Files : Owes(n, f) /\ Hides(n, f)
    BY <1>3 DEF Owes, Hides
  <1>6. OpOK(n, epoch[TabOf[k]])
    BY <1>1, <1>3 DEF OpOK
  <1> QED
    BY <1>1, <1>2, <1>3, <1>4, <1>5, <1>6, StoreStep

\* A tab announces to the others what it changed.
LEMMA AnnounceIInv ==
    ASSUME IInv, context' = context, Track, NEW k \in Threads, Announce(k)
    PROVE  IInv'
  <1> DEFINE t == TabOf[k]
             now == op[k]
  <1>1. /\ op = [j \in Threads |-> op[j]] /\ t \in Tabs
        /\ stored \in [Files -> {"absent", "sound", "damaged"}]
        /\ inbox \in [Tabs -> Nat] /\ untold \in [Tabs -> SUBSET Files]
        /\ now \in OpType /\ now.at = "announce" /\ OpOK(now, epoch[t]) /\ now # Idle
    BY StepFacts DEF Announce, At
  <1>2. /\ stored' = stored /\ op' = [op EXCEPT ![k] = Idle] /\ Notify(t, now.files)
    BY DEF Announce, Becomes
  <1>3. /\ inbox' \in [Tabs -> Nat]
        /\ untold' \in [Tabs -> SUBSET Files]
        /\ \A u \in Tabs : (inbox[u] > 0 => inbox'[u] > 0) /\ untold[u] \subseteq untold'[u]
        /\ \A u \in Tabs \ {t} : inbox'[u] > 0 \/ now.files \subseteq untold'[u]
    <2>1. inbox' = [u \in Tabs |-> IF context[u] # context[t] THEN inbox[u] + 1
                                                             ELSE inbox[u]]
          /\ untold' = [u \in Tabs |-> IF u # t /\ context[u] = context[t]
                                          THEN untold[u] \cup now.files ELSE untold[u]]
      BY <1>2 DEF Notify
    <2>2. now.files \in SUBSET Files
      BY <1>1 DEF OpType
    <2> HIDE DEF now, t
    <2> QED
      BY <1>1, <2>1, <2>2
  <1>4. /\ epoch' \in [Tabs -> 0 .. MaxEpoch] /\ custody' \in [Tabs -> SUBSET Files]
        /\ \A u \in Tabs : epoch[u] <= epoch'[u] /\ custody'[u] \subseteq custody[u]
        /\ now.kind # "restore" =>
              epoch'[t] # epoch[t] /\ custody'[t] = custody[t] \ now.files
    <2>1. CASE now.kind = "restore"
      BY <2>1, StepFacts DEF Announce
    <2>2. CASE now.kind # "restore"
      <3>1. Forget(t, now.files) /\ now.files \in SUBSET Files
        BY <1>1, <2>2 DEF Announce, OpType
      <3>2. epoch[t] \in Nat
        BY <1>1, StepFacts
      <3> QED
        BY <1>1, <2>2, <3>1, <3>2, ForgetFacts
    <2> QED
      BY <2>1, <2>2
  <1>5. now.kind = "restore" => now.files = Files
    BY <1>1 DEF OpOK
  <1> HIDE DEF t, now
  <1>6. ASSUME NEW u \in Tabs, NEW f \in Files, Covered(u, f),
               f \in custody'[u] \/ epoch'[u] = epoch[u]
        PROVE  Covered(u, f)'
    <2>1. u = t => ~Owes(op[k], f)
      BY <1>1, <1>4, <1>6 DEF Owes, now
    <2>2. u # t /\ Hides(op[k], f) => inbox'[u] > 0 \/ f \in untold'[u]
      BY <1>1, <1>3 DEF Hides, now
    <2> QED
      BY <1>1, <1>2, <1>3, <1>6, <2>1, <2>2, CoverStays DEF t
  <1>7. Idle.at = "idle" /\ OpOK(Idle, epoch'[t])
    BY DEF Idle, OpOK
  <1> QED
    BY <1>1, <1>2, <1>3, <1>4, <1>6, <1>7, ThreadStep DEF t

\* A failed read ends its operation.
LEMMA ReadFailsIInv ==
    ASSUME IInv, context' = context, Track, NEW k \in Threads, ReadFails(k)
    PROVE  IInv'
  <1>1. /\ op = [j \in Threads |-> op[j]] /\ TabOf[k] \in Tabs
        /\ stored \in [Files -> {"absent", "sound", "damaged"}]
        /\ custody \in [Tabs -> SUBSET Files] /\ epoch \in [Tabs -> 0 .. MaxEpoch]
        /\ inbox \in [Tabs -> Nat] /\ untold \in [Tabs -> SUBSET Files]
        /\ \A t \in Tabs : epoch[t] <= epoch[t]
        /\ op[k].at = "read" /\ OpOK(op[k], epoch[TabOf[k]])
    BY StepFacts DEF ReadFails, At
  <1>2. /\ UNCHANGED <<stored, custody, epoch, inbox>> /\ op' = [op EXCEPT ![k] = Idle]
        /\ untold' = [u \in Tabs |-> IF op[k].kind = "restore" /\ u # TabOf[k]
                                        THEN Files ELSE untold[u]]
    BY DEF ReadFails, Becomes
  <1>3. untold' \in [Tabs -> SUBSET Files] /\ \A u \in Tabs : untold[u] \subseteq untold'[u]
    BY <1>1, <1>2
  <1>4. ASSUME NEW u \in Tabs, NEW f \in Files, Covered(u, f)
        PROVE  Covered(u, f)'
    <2>1. ~Owes(op[k], f)
      BY <1>1 DEF Owes
    <2>2. TabOf[k] # u /\ Hides(op[k], f) => f \in untold'[u]
      BY <1>1, <1>2 DEF Hides
    <2> QED
      BY <1>1, <1>2, <1>3, <1>4, <2>1, <2>2, CoverStays
  <1>5. Idle.at = "idle" /\ OpOK(Idle, epoch'[TabOf[k]])
    BY DEF Idle, OpOK
  <1> QED
    BY <1>1, <1>2, <1>3, <1>4, <1>5, ThreadStep

-----------------------------------------------------------------------------
(* A tab hears of a change, or ends.                                       *)

\* A tab hears an announcement and forgets all its custody.
LEMMA HearIInv ==
    ASSUME IInv, context' = context, Track, NEW t \in Tabs, Hear(t)
    PROVE  IInv'
  <1>1. /\ TypeOK /\ ForgetAll(t) /\ stored' = stored /\ op' = op
        /\ inbox' = [inbox EXCEPT ![t] = @ - 1] /\ inbox[t] > 0
    BY DEF IInv, Hear
  <1>2. /\ epoch' \in [Tabs -> 0 .. MaxEpoch]
        /\ epoch'[t] = epoch[t] + 1 /\ epoch'[t] > epoch[t]
        /\ \A u \in Tabs \ {t} : epoch'[u] = epoch[u] /\ custody'[u] = custody[u]
        /\ \A u \in Tabs : epoch[u] <= epoch'[u]
        /\ custody' \in [Tabs -> SUBSET Files]
        /\ custody'[t] = {}
    <2>1. custody[t] \subseteq Files
      BY <1>1 DEF TypeOK
    <2> QED
      BY <1>1, <2>1, ForgetFacts DEF ForgetAll
  <1>3. /\ inbox' \in [Tabs -> Nat] /\ \A u \in Tabs \ {t} : inbox'[u] = inbox[u]
        /\ untold' \in [Tabs -> SUBSET Files] /\ \A u \in Tabs \ {t} : untold'[u] = untold[u]
    BY <1>1 DEF TypeOK, ForgetAll
  <1>4. /\ held' \in [Threads -> SUBSET Files]
        /\ \A k \in Threads : Saving(k) => held[k] \subseteq held'[k]
    BY <1>1 DEF Track, Intact, TypeOK, Saving, At, Idle
  <1>5. TypeOK'
    BY <1>1, <1>2, <1>3, <1>4 DEF TypeOK
  <1>6. ASSUME NEW k \in Threads
        PROVE  OpOK(op[k], epoch'[TabOf[k]])
    <2>1. /\ OpOK(op[k], epoch[TabOf[k]]) /\ (op[k] # Idle => op[k] \in OpType)
          /\ TabOf[k] \in Tabs /\ epoch[TabOf[k]] \in Nat
      BY StepFacts
    <2>2. epoch'[TabOf[k]] \in 0 .. MaxEpoch /\ epoch[TabOf[k]] <= epoch'[TabOf[k]]
      BY <1>2, <2>1
    <2>3. op[k] # Idle => op[k].seen \in Nat
      BY <2>1, MaxEpochIsNatural DEF OpType
    <2> QED
      BY <2>1, <2>2, <2>3, MaxEpochIsNatural DEF OpOK
  <1>7. ASSUME NEW u \in Tabs \ {t}, NEW f \in Files, Covered(u, f)
        PROVE  Covered(u, f)'
    BY <1>1, <1>3, <1>7 DEF Covered
  <1>8. ASSUME NEW k \in Threads, NEW row \in RowType, Counts(k, row)'
        PROVE  TabOf[k] \in Tabs \ {t} /\ Counts(k, row)
    <2>1. /\ OpOK(op[k], epoch[TabOf[k]]) /\ (op[k] # Idle => op[k] \in OpType)
          /\ TabOf[k] \in Tabs /\ epoch[TabOf[k]] \in Nat
          /\ op[k] # Idle => op[k].seen \in 0 .. MaxEpoch
      BY StepFacts DEF OpType
    <2>2. op[k] # Idle
      BY <1>1, <1>8 DEF Counts, Idle
    <2>3. op[k].seen <= epoch[TabOf[k]] /\ op[k].seen \in Nat
      BY <2>1, <2>2, MaxEpochIsNatural DEF OpOK
    <2>4. TabOf[k] # t
      BY <1>1, <1>2, <1>8, <2>1, <2>3 DEF Counts
    <2> QED
      BY <1>1, <1>2, <1>8, <2>1, <2>4 DEF Counts
  <1>9. \A u \in Tabs : \A f \in custody'[u] : Covered(u, f)'
    BY <1>2, <1>5, <1>7 DEF IInv, TypeOK
  <1>10. \A k \in Threads : \A row \in RowType :
          Counts(k, row)' => Covered(TabOf[k], row.file)'
    BY <1>7, <1>8 DEF IInv, RowType
  <1>11. \A k \in Threads : Saving(k)' => Saving(k)
    BY <1>1 DEF Saving
  <1>12. \A u \in Tabs : custody'[u] \subseteq custody[u]
    BY <1>2
  <1>13. \A k \in Threads : Saving(k)' => custody'[TabOf[k]] \subseteq held'[k]
    <2>1. \A k \in Threads : TabOf[k] \in Tabs
      BY ThreadsOfTabs
    <2> QED
      BY <1>4, <1>11, <1>12, <2>1 DEF IInv
  <1>14. \A i, j \in Threads : \A row \in RowType :
          Saving(i)' /\ TabOf[j] = TabOf[i] /\ Counts(j, row)' => row.file \in held'[i]
    BY <1>4, <1>8, <1>11 DEF IInv
  <1> QED
    BY <1>1, <1>5, <1>6, <1>9, <1>10, <1>13, <1>14 DEF IInv

\* What a closing page has not announced stays untold.
LEMMA CloseIInv ==
    ASSUME IInv, context' = context, Track, NEW t \in Tabs, Close(t)
    PROVE  IInv'
  <1>1. /\ TypeOK /\ stored' = stored /\ epoch' = epoch
        /\ custody' = [custody EXCEPT ![t] = {}]
        /\ inbox' = [inbox EXCEPT ![t] = 0]
        /\ op' = [k \in Threads |-> IF TabOf[k] = t THEN Idle ELSE op[k]]
        /\ untold' = [u \in Tabs |-> IF u = t THEN {}
                                     ELSE untold[u] \cup UNION {Unannounced(k) : k \in Of(t)}]
    BY DEF IInv, Close
  <1>2. ASSUME NEW k \in Threads
        PROVE  /\ Unannounced(k) \subseteq Files
               /\ \A f \in Files : Hides(op[k], f) => f \in Unannounced(k)
    <2>1. op[k] = Idle \/ op[k] \in OpType
      BY StepFacts
    <2> QED
      BY <2>1 DEF Unannounced, Hides, At, OpType, Idle
  <1>3. /\ custody' \in [Tabs -> SUBSET Files] /\ custody'[t] = {}
        /\ \A u \in Tabs \ {t} : custody'[u] = custody[u]
        /\ inbox' \in [Tabs -> Nat] /\ \A u \in Tabs \ {t} : inbox'[u] = inbox[u]
    BY <1>1 DEF TypeOK
  <1>4. /\ untold' \in [Tabs -> SUBSET Files]
        /\ \A u \in Tabs \ {t} : untold[u] \subseteq untold'[u]
        /\ \A u \in Tabs \ {t} : \A k \in Threads :
              TabOf[k] = t => Unannounced(k) \subseteq untold'[u]
    <2>1. UNION {Unannounced(k) : k \in Of(t)} \subseteq Files
      BY <1>2 DEF Of
    <2>2. \A k \in Threads :
             TabOf[k] = t => Unannounced(k) \subseteq UNION {Unannounced(j) : j \in Of(t)}
      BY DEF Of
    <2>3. untold \in [Tabs -> SUBSET Files]
      BY <1>1 DEF TypeOK
    <2> QED
      BY <1>1, <2>1, <2>2, <2>3
  <1>5. \A k \in Threads : op'[k] = (IF TabOf[k] = t THEN Idle ELSE op[k])
    BY <1>1
  <1>6. /\ held' \in [Threads -> SUBSET Files]
        /\ \A k \in Threads :
              TabOf[k] # t /\ Saving(k) => held[k] \subseteq held'[k]
    <2>1. \A k \in Threads : Intact(stored') \subseteq Files /\ Intact(stored) \subseteq Files
      BY DEF Intact
    <2>2. held \in [Threads -> SUBSET Files]
      BY <1>1 DEF TypeOK
    <2>3. held' \in [Threads -> SUBSET Files]
      BY <2>1, <2>2 DEF Track
    <2>4. ASSUME NEW k \in Threads, TabOf[k] # t, Saving(k)
          PROVE  held[k] \subseteq held'[k]
      BY <1>5, <2>4 DEF Track, Saving, At, Idle
    <2> QED
      BY <2>3, <2>4
  <1>7. TypeOK'
    <2>1. op' \in [Threads -> {Idle} \cup
          [at : Places, kind : Kinds, files : SUBSET Files, later : SUBSET Files,
           seen : 0 .. MaxEpoch,
           rows : SUBSET [file : Files, bytes : {"sound", "damaged"}]]]
      BY <1>1 DEF TypeOK
    <2> QED
      BY <1>1, <1>3, <1>4, <1>6, <2>1 DEF TypeOK
  <1>8. ASSUME NEW k \in Threads
        PROVE  OpOK(op'[k], epoch'[TabOf[k]])
    BY <1>1, <1>5 DEF IInv, OpOK
  <1>9. ASSUME NEW u \in Tabs \ {t}, NEW f \in Files, Covered(u, f)
        PROVE  Covered(u, f)'
    <2>1. CASE stored[f] = "sound" \/ inbox[u] > 0 \/ f \in untold[u]
      BY <1>1, <1>3, <1>4, <2>1 DEF Covered
    <2>2. CASE \E k \in Threads : TabOf[k] = u /\ Owes(op[k], f)
      BY <1>5, <2>2 DEF Covered
    <2>3. ASSUME NEW k \in Threads, TabOf[k] # u, Hides(op[k], f)
          PROVE  Covered(u, f)'
      <3>1. CASE TabOf[k] = t
        BY <1>2, <1>4, <2>3, <3>1 DEF Covered
      <3>2. CASE TabOf[k] # t
        BY <1>5, <2>3, <3>2 DEF Covered
      <3> QED
        BY <3>1, <3>2
    <2> QED
      BY <1>9, <2>1, <2>2, <2>3 DEF Covered
  <1>10. ASSUME NEW k \in Threads, NEW row \in RowType, Counts(k, row)'
        PROVE  TabOf[k] \in Tabs \ {t} /\ Counts(k, row)
    BY <1>1, <1>5, <1>10, ThreadsOfTabs DEF Counts, Idle
  <1>11. \A k \in Threads : Saving(k)' => TabOf[k] \in Tabs \ {t} /\ Saving(k)
    BY <1>5, ThreadsOfTabs DEF Saving, Idle
  <1>12. \A u \in Tabs : \A f \in custody'[u] : Covered(u, f)'
    BY <1>3, <1>7, <1>9 DEF IInv, TypeOK
  <1>13. \A k \in Threads : \A row \in RowType :
          Counts(k, row)' => Covered(TabOf[k], row.file)'
    BY <1>9, <1>10 DEF IInv, RowType
  <1>14. \A k \in Threads : Saving(k)' => custody'[TabOf[k]] \subseteq held'[k]
    BY <1>3, <1>6, <1>11 DEF IInv
  <1>15. \A i, j \in Threads : \A row \in RowType :
          Saving(i)' /\ TabOf[j] = TabOf[i] /\ Counts(j, row)' => row.file \in held'[i]
    BY <1>6, <1>10, <1>11 DEF IInv
  <1> QED
    BY <1>7, <1>8, <1>12, <1>13, <1>14, <1>15 DEF IInv

\* Nothing is in custody at first.
LEMMA InitIInv == Init => IInv
  <1> SUFFICES ASSUME Init
               PROVE  IInv
    OBVIOUS
  <1>1. TypeOK
    BY MaxEpochIsNatural DEF Init, TypeOK
  <1>2. \A k \in Threads : op[k] = Idle /\ op[k].at = "idle"
    BY DEF Init, Idle
  <1>3. \A t \in Tabs : custody[t] = {}
    BY DEF Init
  <1> QED
    BY <1>1, <1>2, <1>3 DEF IInv, OpOK, Counts, Saving

\* Every step keeps IInv.
LEMMA NextIInv ==
    ASSUME IInv, [Next]_vars
    PROVE  IInv'
  <1>1. CASE UNCHANGED vars
    BY <1>1 DEF vars, IInv, TypeOK, Covered, Counts, Saving
  <1>2. CASE Next
    <2>1. Track /\ context' = context
      BY <1>2 DEF Next
    <2>2. ASSUME NEW k \in Threads, Step(k)
          PROVE  IInv'
      <3>1. CASE \E f \in Files :
                   \/ BeginGet(k, f) \/ BeginPut(k, f) \/ BeginDelete(k, f) \/ GetNext(k, f)
        BY <2>1, <3>1, BeginGetIInv, BeginPutIInv, GetNextIInv
      <3>2. CASE BeginList(k) \/ ListRestored(k)
                   \/ \E files \in SUBSET Files : BeginWrite(k, files)
        BY <2>1, <3>2, ForgettingIInv
      <3>3. CASE Remove(k) \/ \E files \in SUBSET Files : Restore(k, files)
        BY <2>1, <3>3, ReplacingIInv
      <3>4. CASE Read(k) \/ ReadFails(k) \/ Put(k) \/ Cleanup(k) \/ Delete(k)
                   \/ Announce(k) \/ Decide(k)
        BY <2>1, <3>4, ReadIInv, ReadFailsIInv, PutIInv, ErasingIInv, AnnounceIInv,
           DecideIInv
      <3>5. CASE \E row \in op[k].rows : Observe(k, row)
        BY <2>1, <3>5, ObserveIInv
      <3> QED
        BY <2>2, <3>1, <3>2, <3>3, <3>4, <3>5 DEF Step
    <2> QED
      BY <1>2, <2>1, <2>2, HearIInv, CloseIInv DEF Next
  <1> QED
    BY <1>1, <1>2

\* IInv holds in every state.
LEMMA Invariance == Spec => []IInv
    BY InitIInv, NextIInv, PTL DEF Spec

-----------------------------------------------------------------------------
(* The theorems.                                                           *)

\* Every variable of the custody cache keeps its type.
THEOREM TypeCorrect == Spec => []TypeOK
  <1>1. IInv => TypeOK
    BY DEF IInv
  <1> QED
    BY <1>1, Invariance, PTL

\* A file a tab holds to be verified is stored with the bytes it was verified
\* with, unless word of the change is on its way or is never sent.
THEOREM CustodyHolds == Spec => []CustodyMeansStored
  <1>1. IInv => CustodyMeansStored
    <2> SUFFICES ASSUME IInv, NEW t \in Tabs, NEW f \in custody[t]
                 PROVE  stored[f] = "sound" \/ InFlight(t, f) \/ f \in untold[t]
      BY DEF CustodyMeansStored
    <2>1. Covered(t, f) /\ f \in Files
      BY DEF IInv, TypeOK
    <2>2. ASSUME NEW k \in Threads, Hides(op[k], f)
          PROVE  f \in Unannounced(k)
      BY <2>1, <2>2 DEF Hides, Unannounced, At
    <2> QED
      BY <2>1, <2>2 DEF Covered, InFlight, Of, Owes, At
  <1> QED
    BY <1>1, Invariance, PTL

\* When a save recalculates, every file held to be verified was stored intact
\* at some time since the save began.
THEOREM DecisionsHold == Spec => []DecisionsAreFresh
  <1>1. IInv => DecisionsAreFresh
    BY DEF IInv, DecisionsAreFresh, Saving
  <1> QED
    BY <1>1, Invariance, PTL
=============================================================================
