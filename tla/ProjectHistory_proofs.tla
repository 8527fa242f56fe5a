----------------------- MODULE ProjectHistory_proofs -----------------------
(***************************************************************************)
(* What the History of ProjectStore promises an operator: the work on      *)
(* screen is always retained with its files, whatever replaces it can be   *)
(* undone and what Undo leaves can be redone, the store as a whole         *)
(* implements VersionedProject, the bytes of files in use stay, and a tab  *)
(* replaces only what it holds.                                            *)
(***************************************************************************)
EXTENDS ProjectStore_proofs

-----------------------------------------------------------------------------
(* The inductive invariant, on top of IInv.                                *)

\* An entry holds a version when it holds its work and the bytes of its files.
Holds(entry, v) == SameWork(entry.version, v) /\ v.atts \subseteq entry.files
HoldsWork(h, v) == Holds(h.entries[h.active], v)

EntriesWhole(h) ==
    \A i \in DOMAIN h.entries : h.entries[i].version.atts \subseteq h.entries[i].files
OnceIn(seq) == \A i, j \in DOMAIN seq : seq[i] = seq[j] => i = j
WorksOf(h) == {Changes(h.entries[i].version) : i \in DOMAIN h.entries}

\* The version a commit leaves in the History: a view or a removal keeps the
\* one it found.
KeptVersion(kind, prior, next) ==
    IF kind \in {"VIEW", "REMOVE"} THEN prior ELSE next

\* The revision an activation must exceed; a backup brought back after a
\* removal knows none.
RevisionToExceed(prior) == IF prior = None THEN hist.activeRev ELSE prior.rev

\* What Undo leaves comes first in Redo, which forgets nothing it offered.
RedoesUndone(redo) ==
    /\ Len(redo) > 0 /\ redo[1] = hist.active
    /\ \A i \in DOMAIN hist.redo : \E j \in DOMAIN redo : redo[j] = hist.redo[i]

PlanHolds(kind, prior, next, plan) ==
    LET kept == KeptVersion(kind, prior, next) IN
    /\ EntriesWhole(plan)
    /\ OnceIn(plan.redo)
    /\ HoldsWork(plan, kept)
    /\ WorksOf(plan) \subseteq RetainedWorks \cup {Changes(kept)}
    /\ kind \in Activations => Changes(next) \in RetainedWorks
    /\ kept = prior => plan.redo = hist.redo
    /\ kind = "UNDO" => RedoesUndone(plan.redo)
    /\ kind \in Activations /\ (prior # None \/ kind # "IMPORT") =>
           next.rev > RevisionToExceed(prior)

\* What was prepared from the stored project and its History still fits them.
PlanKept(c) ==
    c.gen = hist.gen /\ Stored = c.prior =>
        PlanHolds(c.kind, c.prior, c.next, c.plan)

\* A backup's work never leaves the History it was exported from.
WorksRetained ==
    /\ package # None => Changes(package.version) \in RetainedWorks
    /\ \A s \in Tabs : cmd[s].phase = "read" /\ cmd[s].kind = "IMPORT" =>
                           Changes(cmd[s].next) \in RetainedWorks

PlansKept ==
    \A s \in Tabs :
        /\ cmd[s].phase \in {"read", "ready"} => cmd[s].kind \in Commands
        /\ cmd[s].phase = "ready" => PlanKept(cmd[s])

HInv ==
    /\ ActiveEntryHoldsWork
    /\ EntriesWhole(hist)
    /\ RedoOffersOnce
    /\ WorksRetained
    /\ PlansKept
-----------------------------------------------------------------------------
(* What Without(seq, id) returns.                                          *)

\* Without is the last value of its recursive function, which exists.
LEMMA WithoutComputed ==
    ASSUME NEW seq \in Seq(Nat), NEW id
    PROVE  \E kept : /\ Without(seq, id) = kept[Len(seq)]
                     /\ \A n \in 0..Len(seq) : kept[n] = Keeps(seq, id, kept, n)
<1> DEFINE kept == CHOOSE g : KeepsUpTo(seq, id, g, Len(seq))
<1>1. KeepsUpTo(seq, id, kept, Len(seq))
  BY KeptExists DEF Kept
<1>2. Without(seq, id) = kept[Len(seq)]
  BY DEF Without, KeepsUpTo, Keeps
<1>3. \A n \in 0..Len(seq) : kept[n] = Keeps(seq, id, kept, n)
  <2> HIDE DEF kept
  <2> QED
    BY <1>1 DEF KeepsUpTo
<1> QED
  BY <1>2, <1>3

\* What is kept of the first m elements: distinct ones, all of them but id.
Filters(seq, id, w, m) ==
    /\ w \in Seq(Nat)
    /\ OnceIn(w)
    /\ \A i \in DOMAIN w : w[i] # id /\ \E j \in 1..m : w[i] = seq[j]
    /\ \A j \in 1..m : seq[j] # id => \E i \in DOMAIN w : w[i] = seq[j]

\* One more element is dropped when it is id and kept otherwise.
LEMMA FilterStep ==
    ASSUME NEW seq \in Seq(Nat), NEW id, OnceIn(seq), NEW m \in Nat,
           m + 1 <= Len(seq), NEW w, Filters(seq, id, w, m), NEW x,
           x = IF seq[m + 1] = id THEN w ELSE Append(w, seq[m + 1])
    PROVE  Filters(seq, id, x, m + 1)
<1>1. /\ w \in Seq(Nat) /\ OnceIn(w)
      /\ \A i \in DOMAIN w : w[i] # id /\ \E j \in 1..m : w[i] = seq[j]
      /\ \A j \in 1..m : seq[j] # id => \E i \in DOMAIN w : w[i] = seq[j]
      /\ seq[m + 1] \in Nat
  BY DEF Filters
<1>2. CASE seq[m + 1] = id
  <2>1. \A i \in DOMAIN w : \E j \in 1..(m + 1) : w[i] = seq[j]
    <3> SUFFICES ASSUME NEW i \in DOMAIN w PROVE \E j \in 1..(m + 1) : w[i] = seq[j]
      OBVIOUS
    <3>1. PICK j \in 1..m : w[i] = seq[j]
      BY <1>1
    <3>2. j \in 1..(m + 1)
      OBVIOUS
    <3> QED
      BY <3>1, <3>2
  <2>2. \A j \in 1..(m + 1) : seq[j] # id => j \in 1..m
    BY <1>2
  <2> QED
    BY <1>1, <1>2, <2>1, <2>2 DEF Filters
<1>3. CASE seq[m + 1] # id
  <2>1. /\ x \in Seq(Nat) /\ Len(x) = Len(w) + 1
        /\ DOMAIN x = 1..(Len(w) + 1) /\ DOMAIN w = 1..Len(w)
        /\ x[Len(w) + 1] = seq[m + 1]
        /\ \A i \in 1..Len(w) : x[i] = w[i]
    BY <1>1, <1>3
  <2>2. \A i \in DOMAIN w : w[i] # seq[m + 1]
    <3> SUFFICES ASSUME NEW i \in DOMAIN w PROVE w[i] # seq[m + 1]
      OBVIOUS
    <3>1. PICK j \in 1..m : w[i] = seq[j]
      BY <1>1
    <3>2. j \in DOMAIN seq /\ m + 1 \in DOMAIN seq /\ j # m + 1
      OBVIOUS
    <3> QED
      BY <3>1, <3>2 DEF OnceIn
  <2>3. ASSUME NEW i \in DOMAIN x, NEW j \in DOMAIN x, x[i] = x[j] PROVE i = j
    <3>1. CASE i \in DOMAIN w /\ j \in DOMAIN w
      <4>1. w[i] = w[j]
        BY <2>1, <2>3, <3>1
      <4> QED
        BY <1>1, <3>1, <4>1 DEF OnceIn
    <3>2. CASE i = Len(w) + 1 /\ j \in DOMAIN w
      BY <2>1, <2>2, <2>3, <3>2
    <3>3. CASE j = Len(w) + 1 /\ i \in DOMAIN w
      BY <2>1, <2>2, <2>3, <3>3
    <3> QED
      BY <2>1, <3>1, <3>2, <3>3
  <2>4. \A i \in DOMAIN x : x[i] # id /\ \E j \in 1..(m + 1) : x[i] = seq[j]
    <3> SUFFICES ASSUME NEW i \in DOMAIN x
                 PROVE  x[i] # id /\ \E j \in 1..(m + 1) : x[i] = seq[j]
      OBVIOUS
    <3>1. CASE i = Len(w) + 1
      BY <1>3, <2>1, <3>1
    <3>2. CASE i \in DOMAIN w
      <4>1. PICK j \in 1..m : w[i] = seq[j]
        BY <1>1, <3>2
      <4>2. j \in 1..(m + 1)
        OBVIOUS
      <4>3. x[i] = w[i] /\ w[i] # id
        BY <1>1, <2>1, <3>2
      <4> QED
        BY <4>1, <4>2, <4>3
    <3>3. i = Len(w) + 1 \/ i \in DOMAIN w
      BY <2>1
    <3> QED
      BY <3>1, <3>2, <3>3
  <2>5. OnceIn(x)
    BY <2>3 DEF OnceIn
  <2>6. ASSUME NEW j \in 1..(m + 1), seq[j] # id
        PROVE  \E i \in DOMAIN x : x[i] = seq[j]
    <3>1. CASE j = m + 1
      <4>1. Len(w) + 1 \in DOMAIN x
        BY <2>1
      <4> QED
        BY <2>1, <3>1, <4>1
    <3>2. CASE j # m + 1
      <4>1. j \in 1..m
        BY <3>2
      <4>2. PICK i \in DOMAIN w : w[i] = seq[j]
        BY <1>1, <2>6, <4>1
      <4>3. i \in DOMAIN x /\ x[i] = w[i]
        BY <2>1
      <4> QED
        BY <4>2, <4>3
    <3> QED
      BY <3>1, <3>2
  <2> QED
    BY <2>1, <2>4, <2>5, <2>6 DEF Filters
<1> QED
  BY <1>2, <1>3

\* Without keeps a sequence free of repetitions and drops the removed element
\* only.
LEMMA WithoutFilters ==
    ASSUME NEW seq \in Seq(Nat), NEW id, OnceIn(seq)
    PROVE  Filters(seq, id, Without(seq, id), Len(seq))
<1>1. PICK kept : /\ Without(seq, id) = kept[Len(seq)]
                  /\ \A n \in 0..Len(seq) : kept[n] = Keeps(seq, id, kept, n)
  BY WithoutComputed
<1> DEFINE S == {m \in Nat : m <= Len(seq) => Filters(seq, id, kept[m], m)}
<1>2. 0 \in S
  <2>1. kept[0] = <<>>
    BY <1>1 DEF Keeps
  <2> DEFINE none == <<>>
  <2>2. none \in Seq(Nat) /\ DOMAIN none = {}
    OBVIOUS
  <2> HIDE DEF none
  <2>3. Filters(seq, id, none, 0)
    BY <2>2 DEF Filters, OnceIn
  <2> QED
    BY <2>1, <2>3 DEF none
<1>3. ASSUME NEW m \in Nat, m \in S PROVE m + 1 \in S
  <2> SUFFICES ASSUME m + 1 <= Len(seq) PROVE Filters(seq, id, kept[m + 1], m + 1)
    OBVIOUS
  <2>1. Filters(seq, id, kept[m], m)
    BY <1>3
  <2>2. kept[m + 1] = IF seq[m + 1] = id THEN kept[m]
                      ELSE Append(kept[m], seq[m + 1])
    BY <1>1 DEF Keeps
  <2> QED
    BY <2>1, <2>2, FilterStep
<1>4. Nat \subseteq S
  <2>1. \A m \in Nat : m \in S => m + 1 \in S
    BY <1>3
  <2> HIDE DEF S
  <2> QED
    BY <1>2, <2>1, InductionOnSets
<1> QED
  BY <1>1, <1>4

\* Redo offers no entry twice; Undo puts the one it leaves first and keeps
\* those that were there.
LEMMA RestoredRedoOnce ==
    ASSUME hist \in History, RedoOffersOnce, NEW mode, NEW id \in Nat, NEW redo,
           redo = RestoredRedo(mode, id)
    PROVE  /\ redo \in Seq(Nat)
           /\ OnceIn(redo)
           /\ mode = "UNDO" => RedoesUndone(redo)
<1>1. /\ hist.redo \in Seq(Nat) /\ DOMAIN hist.redo = 1..Len(hist.redo)
      /\ hist.active \in Nat /\ OnceIn(hist.redo)
  BY DEF History, RedoOffersOnce, OnceIn
<1>2. CASE mode = "UNDO"
  <2> DEFINE w == Without(hist.redo, hist.active)
  <2>1. Filters(hist.redo, hist.active, w, Len(hist.redo))
    BY <1>1, WithoutFilters
  <2> HIDE DEF w
  <2>2. /\ w \in Seq(Nat) /\ OnceIn(w)
        /\ \A i \in DOMAIN w : w[i] # hist.active
        /\ \A i \in 1..Len(hist.redo) : hist.redo[i] # hist.active =>
               \E j \in DOMAIN w : w[j] = hist.redo[i]
    BY <2>1 DEF Filters
  <2>3. redo = <<hist.active>> \o w
    BY <1>2 DEF RestoredRedo, w
  <2>4. /\ redo \in Seq(Nat) /\ redo[1] = hist.active
        /\ DOMAIN redo = 1..(Len(w) + 1) /\ DOMAIN w = 1..Len(w)
        /\ \A i \in 2..(Len(w) + 1) : i - 1 \in DOMAIN w /\ redo[i] = w[i - 1]
    BY <1>1, <2>2, <2>3
  <2>5. ASSUME NEW i \in DOMAIN redo, NEW j \in DOMAIN redo, redo[i] = redo[j]
        PROVE  i = j
    <3>1. CASE i # 1 /\ j # 1
      <4>1. i - 1 \in DOMAIN w /\ j - 1 \in DOMAIN w /\ w[i - 1] = w[j - 1]
        BY <2>4, <2>5, <3>1
      <4>2. i - 1 = j - 1
        BY <2>2, <4>1 DEF OnceIn
      <4> QED
        BY <2>4, <4>2
    <3>2. CASE i = 1 /\ j # 1
      <4>1. j - 1 \in DOMAIN w /\ redo[j] = w[j - 1]
        BY <2>4, <3>2
      <4> QED
        BY <2>2, <2>4, <2>5, <3>2, <4>1
    <3>3. CASE j = 1 /\ i # 1
      <4>1. i - 1 \in DOMAIN w /\ redo[i] = w[i - 1]
        BY <2>4, <3>3
      <4> QED
        BY <2>2, <2>4, <2>5, <3>3, <4>1
    <3> QED
      BY <3>1, <3>2, <3>3
  <2>6. ASSUME NEW i \in DOMAIN hist.redo
        PROVE  \E j \in DOMAIN redo : redo[j] = hist.redo[i]
    <3>1. CASE hist.redo[i] = hist.active
      <4>1. 1 \in DOMAIN redo /\ redo[1] = hist.redo[i]
        BY <2>2, <2>4, <3>1
      <4> QED
        BY <4>1
    <3>2. CASE hist.redo[i] # hist.active
      <4>1. PICK j \in DOMAIN w : w[j] = hist.redo[i]
        BY <1>1, <2>2, <3>2
      <4>2. j + 1 \in DOMAIN redo /\ redo[j + 1] = w[j]
        BY <2>2, <2>3, <1>1
      <4> QED
        BY <4>1, <4>2
    <3> QED
      BY <3>1, <3>2
  <2>7. Len(redo) > 0
    BY <2>2, <2>3, <1>1
  <2> QED
    BY <2>4, <2>5, <2>6, <2>7 DEF OnceIn, RedoesUndone
<1>3. CASE mode = "REDO"
  <2> DEFINE w == Without(hist.redo, id)
  <2>1. Filters(hist.redo, id, w, Len(hist.redo))
    BY <1>1, WithoutFilters
  <2>2. redo = w
    BY <1>3 DEF RestoredRedo
  <2> HIDE DEF w
  <2> QED
    BY <1>3, <2>1, <2>2 DEF Filters
<1>4. CASE mode \notin {"UNDO", "REDO"}
  <2>1. redo = <<>>
    BY <1>4 DEF RestoredRedo
  <2> QED
    BY <1>1, <1>4, <2>1 DEF OnceIn
<1> QED
  BY <1>2, <1>3, <1>4
-----------------------------------------------------------------------------
(* What a prepared History holds.                                          *)

\* An entry is added below the active one and replaces it; Redo is emptied.
LEMMA AppendEntryKeeps ==
    ASSUME NEW h \in History, NEW v \in Version,
           NEW view \in Views \cup {None}, NEW fs \in SUBSET Nat, NEW k,
           k = AppendEntry(h, v, view, fs)
    PROVE  /\ k \in History /\ Extends(h, k)
           /\ DOMAIN h.entries = 1..Len(h.entries) /\ Len(h.entries) \in Nat
           /\ DOMAIN k.entries = 1..(Len(h.entries) + 1)
           /\ k.active = Len(h.entries) + 1
           /\ k.entries[k.active].version = v
           /\ k.redo = <<>>
<1>1. k \in History /\ Extends(h, k)
  BY AppendEntryType, AppendEntryFollows DEF Follows
<1> DEFINE e == [parent |-> h.active, version |-> v,
                 view |-> IF view = None THEN DefaultView ELSE view,
                 files |-> fs]
<1>2. k.entries = Append(h.entries, e) /\ e.version = v
  BY DEF AppendEntry, History
<1>3. k.active = Len(h.entries) + 1 /\ k.redo = <<>>
  BY DEF AppendEntry, History
<1>4. h.entries \in Seq(Entry)
  BY DEF History
<1> HIDE DEF e
<1> QED
  BY <1>1, <1>2, <1>3, <1>4

\* The entries a History adds to another: they hold the next version or the
\* one it replaces, if any.
Added(h, k) == DOMAIN k.entries \ DOMAIN h.entries
Adds(h, k, next, prior) ==
    \A i \in Added(h, k) : \/ k.entries[i].version = next
                           \/ prior # None /\ k.entries[i].version = prior

\* The active entry is a new one, and holds a version.
ReplacesActive(h, k, v) ==
    k.active \in Added(h, k) /\ k.entries[k.active].version = v

\* prepareHistoryCommit retains what is replaced and what replaces it: the
\* active entry is a new one with the next version, or the old one where
\* nothing changes.
LEMMA PreparedHistory ==
    ASSUME NEW h \in History, ActiveRetained(h), NEW next \in Version,
           NEW prior \in Version \cup {None},
           NEW view \in Views \cup {None}, NEW fs \in SUBSET Nat, NEW k,
           k = PrepareHistory(h, next, prior, view, fs)
    PROVE  /\ k \in History /\ Follows(h, k) /\ k.gen = h.gen + 1
           /\ Adds(h, k, next, prior)
           /\ ~ReplacesActive(h, k, next) => k.active = h.active /\ next = prior
           /\ next = prior => k.redo = h.redo
           /\ next # prior => k.redo = <<>>
<1> DEFINE h1 == WithPrevious(h, prior, view, fs)
           h2 == WithNext(h1, next, prior, view, fs)
<1>1. k \in History /\ Follows(h, k) /\ k.gen = h.gen + 1
  BY PrepareHistoryType, PrepareHistoryFollows
<1>2. \/ h1 = h
      \/ prior # None /\ h1 = AppendEntry(h, prior, view, fs)
  BY DEF WithPrevious
<1>3. \/ h2 = h1 /\ prior # None /\ next = prior
      \/ h2 = AppendEntry(h1, next, view, fs)
  BY DEF WithNext
<1>4. k = [h2 EXCEPT !.redo = IF next = prior THEN h.redo ELSE @,
                     !.activeRev = next.rev, !.removed = FALSE,
                     !.gen = h.gen + 1]
  BY DEF PrepareHistory
<1> HIDE DEF h1, h2
<1>5. /\ h1 \in History /\ Extends(h, h1)
      /\ \A i \in Added(h, h1) :
             prior # None /\ h1.entries[i].version = prior
      /\ \/ h1 = h
         \/ /\ h1.active \in Added(h, h1)
            /\ h1.entries[h1.active].version = prior
  <2>1. CASE h1 = h
    BY <2>1 DEF Extends, Added, History
  <2>2. CASE prior # None /\ h1 = AppendEntry(h, prior, view, fs)
    <3>1. /\ h1 \in History /\ Extends(h, h1)
          /\ DOMAIN h.entries = 1..Len(h.entries) /\ Len(h.entries) \in Nat
          /\ DOMAIN h1.entries = 1..(Len(h.entries) + 1)
          /\ h1.active = Len(h.entries) + 1
          /\ h1.entries[h1.active].version = prior
      BY <2>2, AppendEntryKeeps
    <3>2. Added(h, h1) = {h1.active}
      BY <3>1 DEF Added
    <3> QED
      BY <2>2, <3>1, <3>2
  <2> QED
    BY <1>2, <2>1, <2>2
<1>6. /\ h2 \in History /\ Extends(h, h2)
      /\ Adds(h, h2, next, prior)
      /\ \/ h2.active \in Added(h, h2) /\ h2.entries[h2.active].version = next
         \/ h2.active = h.active /\ prior # None /\ next = prior
      /\ next # prior => h2.redo = <<>>
  <2>1. CASE h2 = h1 /\ prior # None /\ next = prior
    BY <1>5, <2>1 DEF Adds
  <2>2. CASE h2 = AppendEntry(h1, next, view, fs)
    <3>1. /\ h2 \in History /\ Extends(h1, h2)
          /\ DOMAIN h1.entries = 1..Len(h1.entries) /\ Len(h1.entries) \in Nat
          /\ DOMAIN h2.entries = 1..(Len(h1.entries) + 1)
          /\ h2.active = Len(h1.entries) + 1
          /\ h2.entries[h2.active].version = next
          /\ h2.redo = <<>>
      BY <1>5, <2>2, AppendEntryKeeps
    <3>2. Extends(h, h2)
      BY <1>5, <3>1, ExtendsTransitive
    <3>3. h.entries \in Seq(Entry) /\ Len(h.entries) <= Len(h1.entries)
      BY <1>5 DEF Extends, History
    <3>4. h2.active \in Added(h, h2)
      BY <3>1, <3>3 DEF Added
    <3>5. ASSUME NEW i \in Added(h, h2)
          PROVE  \/ h2.entries[i].version = next
                 \/ prior # None /\ h2.entries[i].version = prior
      <4>1. CASE i = h2.active
        BY <3>1, <4>1
      <4>2. CASE i # h2.active
        <5>1. i \in DOMAIN h1.entries /\ i \in Added(h, h1)
          BY <3>1, <3>5, <4>2 DEF Added
        <5>2. h2.entries[i] = h1.entries[i]
          BY <3>1, <5>1 DEF Extends
        <5> QED
          BY <1>5, <5>1, <5>2
      <4> QED
        BY <4>1, <4>2
    <3> QED
      BY <3>1, <3>2, <3>4, <3>5 DEF Adds
  <2> QED
    BY <1>3, <2>1, <2>2
<1>7. /\ k.entries = h2.entries /\ k.active = h2.active
      /\ k.redo = IF next = prior THEN h.redo ELSE h2.redo
  BY <1>4, <1>6 DEF History
<1> QED
  BY <1>1, <1>6, <1>7 DEF Adds, Added, ReplacesActive

\* Its parts, one by one.
LEMMA PreparedAdds ==
    ASSUME NEW h \in History, ActiveRetained(h), NEW next \in Version,
           NEW prior \in Version \cup {None},
           NEW view \in Views \cup {None}, NEW fs \in SUBSET Nat
    PROVE  Adds(h, PrepareHistory(h, next, prior, view, fs), next, prior)
<1>1. PICK k : k = PrepareHistory(h, next, prior, view, fs)
  OBVIOUS
<1>2. Adds(h, k, next, prior)
  BY <1>1, PreparedHistory
<1> QED
  BY <1>1, <1>2

\* A plan with nothing new leaves the active entry where it was.
LEMMA PreparedActive ==
    ASSUME NEW h \in History, ActiveRetained(h), NEW next \in Version,
           NEW prior \in Version \cup {None},
           NEW view \in Views \cup {None}, NEW fs \in SUBSET Nat,
           ~ReplacesActive(h, PrepareHistory(h, next, prior, view, fs), next)
    PROVE  /\ PrepareHistory(h, next, prior, view, fs).active = h.active
           /\ next = prior
<1>1. PICK k : k = PrepareHistory(h, next, prior, view, fs)
  OBVIOUS
<1> QED
  BY <1>1, PreparedHistory

\* What changes the project forgets what could be redone; a view does not.
LEMMA PreparedRedo ==
    ASSUME NEW h \in History, ActiveRetained(h), NEW next \in Version,
           NEW prior \in Version \cup {None},
           NEW view \in Views \cup {None}, NEW fs \in SUBSET Nat
    PROVE  PrepareHistory(h, next, prior, view, fs).redo = IF next = prior THEN h.redo ELSE <<>>
<1>1. PICK k : k = PrepareHistory(h, next, prior, view, fs)
  OBVIOUS
<1> QED
  BY <1>1, PreparedHistory

\* The checkpoint that only retains the version it finds.
LEMMA SavedHistory ==
    ASSUME NEW h \in History, ActiveRetained(h), NEW v \in Version,
           NEW view \in Views \cup {None}, NEW fs \in SUBSET Nat, NEW k,
           k = PrepareHistory(h, v, v, view, fs)
    PROVE  /\ k \in History /\ Follows(h, k) /\ k.gen = h.gen + 1
           /\ Adds(h, k, v, v)
           /\ ~ReplacesActive(h, k, v) => k.active = h.active
           /\ k.redo = h.redo
<1>1. v \in Version \cup {None}
  OBVIOUS
<1>2. k \in History /\ k.gen = h.gen + 1 /\ Follows(h, k)
  BY <1>1, PreparedHistory
<1>3. Adds(h, k, v, v)
  BY <1>1, PreparedHistory
<1>4. ~ReplacesActive(h, k, v) => k.active = h.active
  BY <1>1, PreparedHistory
<1>5. k.redo = h.redo
  BY <1>1, PreparedHistory
<1> QED
  BY <1>2, <1>3, <1>4, <1>5
-----------------------------------------------------------------------------
(* Works and the entries that hold them.                                   *)

\* Versions of the same work hold the same changes.
LEMMA SameChanges ==
    ASSUME NEW v, NEW w, SameWork(v, w) PROVE Changes(v) = Changes(w)
<1>1. v.work = w.work /\ v.atts = w.atts /\ v.ops = w.ops
  BY DEF SameWork, WorkOf
<1> QED
  BY <1>1 DEF Changes

\* The stored work is one of the retained ones.
LEMMA StoredRetained ==
    ASSUME IInv, HInv, row # None
    PROVE  HoldsWork(hist, Stored) /\ Changes(Stored) \in RetainedWorks
<1>1. HoldsWork(hist, Stored)
  BY DEF HInv, ActiveEntryHoldsWork, HoldsWork, Holds
<1>2. hist.active \in DOMAIN hist.entries
  BY DEF IInv, EntriesRetained, ActiveRetained
<1>3. Changes(hist.entries[hist.active].version) = Changes(Stored)
  BY <1>1, SameChanges DEF HoldsWork, Holds
<1> QED
  BY <1>1, <1>2, <1>3 DEF RetainedWorks

\* A History that follows another holds all of its works.
LEMMA WorksExtend ==
    ASSUME NEW h \in History, NEW k \in History, Extends(h, k)
    PROVE  WorksOf(h) \subseteq WorksOf(k) /\ DOMAIN h.entries \subseteq DOMAIN k.entries
<1>1. h.entries \in Seq(Entry) /\ k.entries \in Seq(Entry)
  BY DEF History
<1>2. DOMAIN h.entries \subseteq DOMAIN k.entries
  BY <1>1 DEF Extends
<1> QED
  BY <1>2 DEF Extends, WorksOf

\* What is added decides which works are new.
LEMMA WorksAdded ==
    ASSUME NEW k \in History, Extends(hist, k), NEW next, NEW prior,
           Adds(hist, k, next, prior), NEW works, RetainedWorks \subseteq works,
           Changes(next) \in works, prior # None => Changes(prior) \in works
    PROVE  WorksOf(k) \subseteq works
<1> SUFFICES ASSUME NEW i \in DOMAIN k.entries
             PROVE  Changes(k.entries[i].version) \in works
  BY DEF WorksOf
<1>1. CASE i \in DOMAIN hist.entries
  BY <1>1 DEF Extends, RetainedWorks
<1>2. CASE i \in Added(hist, k)
  BY <1>2 DEF Adds
<1> QED
  BY <1>1, <1>2 DEF Added

\* A checkpoint is only retained with the files its entries refer to.
LEMMA WholePlan ==
    ASSUME EntriesWhole(hist), NEW k, Extends(hist, k), Retainable(k)
    PROVE  EntriesWhole(k)
<1> SUFFICES ASSUME NEW i \in DOMAIN k.entries
             PROVE  k.entries[i].version.atts \subseteq k.entries[i].files
  BY DEF EntriesWhole
<1>1. CASE i \in DOMAIN hist.entries
  BY <1>1 DEF Extends, EntriesWhole
<1>2. CASE i \notin DOMAIN hist.entries
  BY <1>2 DEF Retainable, InCustody
<1> QED
  BY <1>1, <1>2

\* The active entry holds a version that was added with it, or one that it
\* held before.
LEMMA NewEntryHolds ==
    ASSUME NEW k, EntriesWhole(k), ActiveRetained(k), NEW v,
           k.entries[k.active].version = v
    PROVE  HoldsWork(k, v)
BY DEF EntriesWhole, ActiveRetained, HoldsWork, Holds, SameWork

\* An entry that holds a work still holds it when entries were added behind it.
LEMMA KeptEntryHolds ==
    ASSUME NEW v, HoldsWork(hist, v), ActiveRetained(hist), NEW k,
           Extends(hist, k), k.active = hist.active
    PROVE  HoldsWork(k, v)
BY DEF Extends, ActiveRetained, HoldsWork, Holds
-----------------------------------------------------------------------------
(* The two shapes of step.                                                 *)

\* A step that leaves the project and its History alone.
LEMMA QuietHistory ==
    ASSUME IInv, HInv, UNCHANGED <<row, journal, hist>>,
           package' = package \/ Changes(package'.version) \in RetainedWorks,
           \A t \in Tabs :
               \/ cmd'[t] = cmd[t]
               \/ /\ cmd'[t].phase \in {"read", "ready"} => cmd'[t].kind \in Commands
                  /\ cmd'[t].phase = "read" /\ cmd'[t].kind = "IMPORT" =>
                         Changes(cmd'[t].next) \in RetainedWorks
                  /\ cmd'[t].phase = "ready" => PlanKept(cmd'[t])
    PROVE  HInv'
<1>1. Stored' = Stored /\ RetainedWorks' = RetainedWorks
  BY DEF Stored, RetainedWorks
<1>2. ActiveEntryHoldsWork' /\ EntriesWhole(hist)' /\ RedoOffersOnce'
  BY <1>1 DEF HInv, ActiveEntryHoldsWork, EntriesWhole, RedoOffersOnce
<1>3. WorksRetained'
  BY <1>1 DEF HInv, WorksRetained
<1>4. ASSUME NEW t \in Tabs
      PROVE  /\ cmd'[t].phase \in {"read", "ready"} => cmd'[t].kind \in Commands
             /\ cmd'[t].phase = "ready" => PlanKept(cmd[t])'
  <2>1. /\ cmd'[t].phase \in {"read", "ready"} => cmd'[t].kind \in Commands
        /\ cmd'[t].phase = "ready" => PlanKept(cmd'[t])
    BY DEF HInv, PlansKept
  <2>2. PlanKept(cmd'[t]) => PlanKept(cmd[t])'
    BY <1>1 DEF PlanKept, PlanHolds, EntriesWhole, HoldsWork, Holds, WorksOf,
                RevisionToExceed, RedoesUndone
  <2> QED
    BY <2>1, <2>2
<1>5. PlansKept'
  BY <1>4 DEF PlansKept
<1> QED
  BY <1>2, <1>3, <1>5 DEF HInv

\* A commit leaves the History its operation prepared.
LEMMA PlanCommitted ==
    ASSUME IInv, HInv, NEW s \in Tabs, NEW kinds, Commits(s, kinds)
    PROVE  /\ PlanHolds(cmd[s].kind, Stored, cmd[s].next, hist')
           /\ Follows(hist, hist')
           /\ hist.gen \in Nat /\ hist'.gen \in Nat /\ hist.gen < hist'.gen
<1>1. /\ cmd[s].phase = "ready" /\ hist' = cmd[s].plan
      /\ Stored = cmd[s].prior /\ cmd[s].gen = hist.gen /\ Prepared(cmd[s])
  BY CommitFacts
<1>2. PlanKept(cmd[s])
  BY <1>1 DEF HInv, PlansKept
<1>3. hist.gen \in Nat /\ hist'.gen \in Nat
  BY <1>1 DEF IInv, TypeOK, Prepared, History
<1> QED
  BY <1>1, <1>2, <1>3 DEF PlanKept, Prepared

\* A commit keeps HInv: its plan was made from the History it replaces.
LEMMA CommitHistory ==
    ASSUME IInv, IInv', HInv, NEW s \in Tabs, NEW kinds, Commits(s, kinds),
           \A t \in Tabs \ {s} : cmd'[t] = cmd[t],
           cmd'[s].phase \notin {"read", "ready"}, UNCHANGED package,
           row' # None =>
               Stored' = KeptVersion(cmd[s].kind, Stored, cmd[s].next)
    PROVE  HInv'
<1>1. /\ PlanHolds(cmd[s].kind, Stored, cmd[s].next, hist')
      /\ Follows(hist, hist')
      /\ hist.gen \in Nat /\ hist'.gen \in Nat /\ hist.gen < hist'.gen
  BY PlanCommitted
<1>2. ActiveEntryHoldsWork'
  BY <1>1 DEF PlanHolds, ActiveEntryHoldsWork, HoldsWork, Holds
<1>3. EntriesWhole(hist)' /\ RedoOffersOnce'
  BY <1>1 DEF PlanHolds, EntriesWhole, RedoOffersOnce, OnceIn
<1>4. WorksRetained'
  <2>1. hist \in History /\ hist' \in History /\ Extends(hist, hist')
    BY <1>1 DEF IInv, TypeOK, Follows
  <2>2. RetainedWorks \subseteq RetainedWorks'
    BY <2>1, WorksExtend DEF RetainedWorks, WorksOf
  <2> QED
    BY <2>2 DEF HInv, WorksRetained
<1>5. ASSUME NEW t \in Tabs
      PROVE  /\ cmd'[t].phase \in {"read", "ready"} => cmd'[t].kind \in Commands
             /\ cmd'[t].phase = "ready" => PlanKept(cmd[t])'
  <2>1. CASE t = s
    BY <2>1
  <2>2. CASE t # s
    <3>1. cmd'[t] = cmd[t] /\ cmd[t] \in Command /\ cmd[t].gen \in Nat
      BY <2>2 DEF IInv, TypeOK, Command
    <3>2. cmd[t].phase = "ready" => cmd[t].gen <= hist.gen
      BY DEF IInv, OperationsBound, Prepared
    <3>3. cmd'[t].phase = "ready" => cmd'[t].gen # hist'.gen
      BY <1>1, <3>1, <3>2
    <3>4. cmd'[t].phase \in {"read", "ready"} => cmd'[t].kind \in Commands
      BY <3>1 DEF HInv, PlansKept
    <3> QED
      BY <3>3, <3>4 DEF PlanKept
  <2> QED
    BY <2>1, <2>2
<1> QED
  BY <1>2, <1>3, <1>4, <1>5 DEF HInv, PlansKept
-----------------------------------------------------------------------------
(* Every step preserves the invariant.                                      *)

\* The first checkpoint holds the empty project.
LEMMA InitHistory == Init => HInv
<1> SUFFICES ASSUME Init PROVE HInv
  OBVIOUS
<1>1. Stored = FirstVersion
  BY DEF Init, Stored
<1>2. /\ hist.active = 1 /\ DOMAIN hist.entries = {1}
      /\ hist.entries[1].version = FirstVersion /\ hist.redo = <<>>
  BY DEF Init
<1>3. FirstVersion.atts = {}
  BY DEF FirstVersion
<1>4. ActiveEntryHoldsWork
  BY <1>1, <1>2, <1>3 DEF ActiveEntryHoldsWork, SameWork
<1>5. EntriesWhole(hist) /\ RedoOffersOnce
  BY <1>2, <1>3 DEF EntriesWhole, RedoOffersOnce
<1>6. \A s \in Tabs : cmd[s].phase = "idle"
  BY DEF Init, NoCommand
<1>7. WorksRetained /\ PlansKept
  BY <1>6 DEF Init, WorksRetained, PlansKept
<1> QED
  BY <1>4, <1>5, <1>7 DEF HInv

\* Only what is read or ready matters of a command.
LEMMA OneTab ==
    ASSUME IInv, HInv, NEW s \in Tabs, NEW c, cmd' = [cmd EXCEPT ![s] = c],
           UNCHANGED <<row, journal, hist>>,
           package' = package \/ Changes(package'.version) \in RetainedWorks,
           c.phase \in {"read", "ready"} => c.kind \in Commands,
           c.phase = "read" /\ c.kind = "IMPORT" => Changes(c.next) \in RetainedWorks,
           c.phase = "ready" => PlanKept(c)
    PROVE  HInv'
<1>1. cmd'[s] = c /\ \A t \in Tabs \ {s} : cmd'[t] = cmd[t]
  BY DEF IInv, TypeOK
<1> QED
  BY <1>1, QuietHistory

\* Beginning an operation reads the project and changes no History.
LEMMA BeginHistory ==
    ASSUME IInv, HInv, NEW s \in Tabs, Begin(s) PROVE HInv'
<1> USE DEF store
<1>1. CASE StoreFile(s)
  <2> DEFINE c == [NoCommand EXCEPT !.phase = "stored", !.file = intakes']
  <2>1. c.phase = "stored" /\ cmd' = [cmd EXCEPT ![s] = c]
    BY <1>1 DEF StoreFile, NoCommand
  <2> HIDE DEF c
  <2> QED
    BY <1>1, <2>1, OneTab DEF StoreFile
<1>2. ASSUME NEW kind \in Commands \ {"IMPORT"}, NEW next, NEW view, NEW target,
             Reads(s, kind, next, view, target),
             UNCHANGED <<row, journal, hist, package>>
      PROVE  HInv'
  <2> DEFINE c == [NoCommand EXCEPT !.phase = "read", !.kind = kind,
                                    !.prior = Stored, !.next = next,
                                    !.view = view, !.target = target,
                                    !.file = cmd[s].file]
  <2>1. /\ c.phase = "read" /\ c.kind = kind
        /\ cmd' = [cmd EXCEPT ![s] = c]
    BY <1>2 DEF Reads, NoCommand
  <2> HIDE DEF c
  <2> QED
    BY <1>2, <2>1, OneTab
<1>3. ASSUME NEW kind \in Intents, Submit(s, kind) PROVE HInv'
  <2>1. kind \in Commands \ {"IMPORT"}
    BY <1>3 DEF Submit, Starts, Intents
  <2> QED
    BY <1>2, <1>3, <2>1 DEF Submit
<1>4. ASSUME NEW kind \in Intents, SubmitStale(s, kind) PROVE HInv'
  <2> DEFINE c == [cmd[s] EXCEPT !.phase = "conflict"]
  <2>1. c.phase = "conflict" /\ cmd' = [cmd EXCEPT ![s] = c]
    BY <1>4 DEF SubmitStale, IInv, TypeOK, Command
  <2> HIDE DEF c
  <2> QED
    BY <1>4, <2>1, OneTab DEF SubmitStale
<1>5. CASE BeginView(s)
  BY <1>2, <1>5 DEF BeginView, Starts
<1>6. ASSUME NEW mode \in Restores, BeginRestore(s, mode) PROVE HInv'
  <2>1. mode \in Commands \ {"IMPORT"}
    BY <1>6 DEF BeginRestore, Starts, Restores
  <2> QED
    BY <1>2, <1>6, <2>1 DEF BeginRestore
<1>7. CASE BeginRemove(s)
  BY <1>2, <1>7 DEF BeginRemove, Starts
<1>8. CASE BeginImport(s)
  <2> DEFINE c == [NoCommand EXCEPT !.phase = "read", !.kind = "IMPORT",
                                    !.prior = Stored, !.next = package.version,
                                    !.view = package.view,
                                    !.target = package.active,
                                    !.files = package.files]
  <2>1. /\ c.phase = "read" /\ c.kind = "IMPORT" /\ c.next = package.version
        /\ cmd' = [cmd EXCEPT ![s] = c]
    BY <1>8 DEF BeginImport, NoCommand
  <2>2. Changes(package.version) \in RetainedWorks
    BY <1>8 DEF BeginImport, HInv, WorksRetained
  <2> HIDE DEF c
  <2> QED
    BY <1>8, <2>1, <2>2, OneTab DEF BeginImport, Starts
<1> QED
  BY <1>1, <1>3, <1>4, <1>5, <1>6, <1>7, <1>8 DEF Begin

\* What ends without a commit changes no History; a backup takes stored work.
LEMMA ConcludeHistory ==
    ASSUME IInv, HInv, NEW s \in Tabs, Conclude(s) PROVE HInv'
<1> USE DEF store
<1>1. ASSUME NEW c, cmd' = [cmd EXCEPT ![s] = c], c.phase \notin {"read", "ready"},
             UNCHANGED <<row, journal, hist, package>>
      PROVE  HInv'
  BY <1>1, OneTab
<1>2. ASSUME cmd' = [cmd EXCEPT ![s] = NoCommand],
             UNCHANGED <<row, journal, hist, package>>
      PROVE  HInv'
  <2>1. NoCommand.phase = "idle"
    BY DEF NoCommand
  <2> QED
    BY <1>1, <1>2, <2>1
<1>3. ASSUME Fails(s), UNCHANGED <<row, journal, hist, package>> PROVE HInv'
  <2> DEFINE c == [NoCommand EXCEPT !.phase = "cleanup", !.file = cmd[s].file]
  <2>1. c.phase = "cleanup"
    BY DEF NoCommand
  <2>2. \/ cmd' = [cmd EXCEPT ![s] = NoCommand]
        \/ cmd' = [cmd EXCEPT ![s] = c]
    BY <1>3 DEF Fails
  <2> HIDE DEF c
  <2> QED
    BY <1>1, <1>2, <1>3, <2>1, <2>2
<1>4. CASE AcknowledgeRemoval(s)
  BY <1>2, <1>4 DEF AcknowledgeRemoval, Leaves
<1>5. CASE CommitStale(s)
  <2> DEFINE c == [NoCommand EXCEPT !.phase = "conflict", !.file = cmd[s].file]
  <2>1. c.phase = "conflict" /\ cmd' = [cmd EXCEPT ![s] = c]
    BY <1>5 DEF CommitStale, NoCommand
  <2> HIDE DEF c
  <2> QED
    BY <1>1, <1>5, <2>1 DEF CommitStale
<1>6. CASE Resync(s) \/ Abandon(s) \/ FailBoundary(s)
  BY <1>3, <1>6 DEF Resync, Abandon, FailBoundary
<1>7. CASE DeleteFile(s) \/ Refresh(s) \/ Reload(s)
  BY <1>2, <1>7 DEF DeleteFile, Refresh, Reload
<1>8. CASE Export(s)
  <2>1. package'.version = Stored /\ row # None
    BY <1>8 DEF Export
  <2>2. Changes(package'.version) \in RetainedWorks
    BY <2>1, StoredRetained
  <2> QED
    BY <1>8, <2>2, QuietHistory DEF Export
<1> QED
  BY <1>4, <1>5, <1>6, <1>7, <1>8 DEF Conclude

\* A prepared operation holds a History that fits what it was prepared from.
LEMMA ReadyHistory ==
    ASSUME IInv, HInv, NEW s \in Tabs, cmd[s].phase = "read",
           NEW next, NEW fs, NEW plan, Readies(s, next, fs, plan),
           UNCHANGED <<row, journal, hist, package>>,
           Stored = cmd[s].prior => PlanHolds(cmd[s].kind, Stored, next, plan)
    PROVE  HInv'
<1> DEFINE c == [cmd[s] EXCEPT !.phase = "ready", !.next = next,
                               !.files = fs, !.gen = hist.gen, !.plan = plan]
<1>1. cmd[s] \in Command
  BY DEF IInv, TypeOK
<1>2. /\ c.phase = "ready" /\ c.kind = cmd[s].kind /\ c.prior = cmd[s].prior
      /\ c.next = next /\ c.plan = plan
  BY <1>1 DEF Command
<1>3. cmd' = [cmd EXCEPT ![s] = c]
  BY DEF Readies
<1> HIDE DEF c
<1>4. c.kind \in Commands
  BY <1>2 DEF HInv, PlansKept
<1>5. PlanKept(c)
  BY <1>2 DEF PlanKept
<1> QED
  BY <1>2, <1>3, <1>4, <1>5, OneTab

\* The History prepared for a version on top of the stored one.
LEMMA PreparedHolds ==
    ASSUME IInv, HInv, row # None, NEW next \in Version,
           NEW view \in Views \cup {None}, NEW k,
           k = PrepareHistory(hist, next, Stored, view, files), Retainable(k)
    PROVE  /\ k \in History /\ Follows(hist, k)
           /\ EntriesWhole(k) /\ OnceIn(k.redo)
           /\ HoldsWork(k, next)
           /\ WorksOf(k) \subseteq RetainedWorks \cup {Changes(next)}
           /\ next = Stored => k.redo = hist.redo
<1>1. /\ hist \in History /\ ActiveRetained(hist) /\ files \in SUBSET Nat
      /\ Stored \in Version \cup {None} /\ Stored # None
      /\ hist.redo \in Seq(Nat)
  BY StoredType DEF IInv, TypeOK, EntriesRetained, History
<1>3. k \in History /\ Follows(hist, k)
  <2>1. k \in History
    BY <1>1, PrepareHistoryType
  <2>2. Follows(hist, k)
    BY <1>1, PrepareHistoryFollows
  <2> QED
    BY <2>1, <2>2
<1>4. Adds(hist, k, next, Stored)
  BY <1>1, PreparedAdds
<1>5. ~ReplacesActive(hist, k, next) => k.active = hist.active /\ next = Stored
  BY <1>1, PreparedActive
<1>6. k.redo = IF next = Stored THEN hist.redo ELSE <<>>
  BY <1>1, PreparedRedo
<1>7. EntriesWhole(k)
  BY <1>3, WholePlan DEF HInv, Follows
<1>8. HoldsWork(k, next)
  BY <1>1, <1>3, <1>5, <1>7, StoredRetained, NewEntryHolds, KeptEntryHolds
     DEF Follows, ReplacesActive
<1>9. WorksOf(k) \subseteq RetainedWorks \cup {Changes(next)}
  <2> DEFINE works == RetainedWorks \cup {Changes(next)}
  <2>1. Changes(next) \in works /\ Changes(Stored) \in works
    BY StoredRetained
  <2>2. RetainedWorks \subseteq works
    OBVIOUS
  <2> HIDE DEF works
  <2>3. WorksOf(k) \subseteq works
    BY <1>3, <1>4, <2>1, <2>2, WorksAdded DEF Follows
  <2> QED
    BY <2>3 DEF works
<1>10. OnceIn(k.redo)
  BY <1>1, <1>6 DEF HInv, RedoOffersOnce, OnceIn
<1> QED
  BY <1>3, <1>6, <1>7, <1>8, <1>9, <1>10

\* An activation takes an identity nobody has, so it changes the project.
LEMMA ActivationChanges ==
    ASSUME IInv, NEW next \in Version, next.act = activations + 1
    PROVE  next # Stored
<1>1. /\ activations \in Nat /\ Stored \in Version \cup {None}
      /\ Stored # None => Stored.act <= activations
  BY StoredType DEF IInv, TypeOK, ActivationsDrawn
<1> QED
  BY <1>1, NoneIsDistinct DEF Version

\* A save, a view or a removal prepares the History around what it read.
LEMMA PrepareSaveHistory ==
    ASSUME IInv, HInv, NEW s \in Tabs,
           PrepareWrite(s) \/ PrepareView(s) \/ PrepareRemove(s)
    PROVE  HInv'
<1> USE DEF store
<1>1. /\ cmd[s] \in Command /\ cmd[s].view \in Views \cup {None}
      /\ cmd[s].phase = "read" => Begun(cmd[s])
      /\ Stored # None <=> row # None
  BY StoredType DEF IInv, TypeOK, OperationsBound, Command
<1>2. CASE PrepareWrite(s)
  <2> DEFINE k == PrepareHistory(hist, cmd[s].next, cmd[s].prior,
                                 cmd[s].view, files)
  <2>1. /\ cmd[s].phase = "read" /\ cmd[s].kind \in Intents
        /\ Readies(s, cmd[s].next, {}, k) /\ Retainable(k)
        /\ UNCHANGED <<row, journal, hist, package>>
    BY <1>2 DEF PrepareWrite, Prepares, Readies
  <2>2. cmd[s].prior \in Version /\ cmd[s].next \in Version
    BY <1>1, <2>1 DEF Begun, Saves
  <2>3. cmd[s].kind \notin Activations \cup {"VIEW", "REMOVE", "UNDO"}
    BY <2>1 DEF Intents, Activations, Restores
  <2>4. ASSUME Stored = cmd[s].prior
        PROVE  PlanHolds(cmd[s].kind, Stored, cmd[s].next, k)
    <3>1. row # None
      BY <1>1, <2>2, <2>4, NoneIsDistinct
    <3>2. k = PrepareHistory(hist, cmd[s].next, Stored, cmd[s].view, files)
      BY <2>4
    <3> HIDE DEF k
    <3> QED
      BY <1>1, <2>1, <2>2, <2>3, <3>1, <3>2, PreparedHolds
         DEF PlanHolds, KeptVersion
  <2> HIDE DEF k
  <2> QED
    BY <2>1, <2>4, ReadyHistory
<1>3. CASE PrepareView(s)
  <2> DEFINE k == PrepareHistory(hist, cmd[s].prior, cmd[s].prior,
                                 cmd[s].view, files)
  <2>1. /\ cmd[s].phase = "read" /\ cmd[s].kind = "VIEW"
        /\ Readies(s, cmd[s].next, {}, k) /\ Retainable(k)
        /\ UNCHANGED <<row, journal, hist, package>>
    BY <1>3 DEF PrepareView, Prepares, Readies
  <2>2. cmd[s].prior \in Version
    BY <1>1, <2>1 DEF Begun
  <2>4. ASSUME Stored = cmd[s].prior
        PROVE  PlanHolds(cmd[s].kind, Stored, cmd[s].next, k)
    <3>1. row # None /\ Stored \in Version
      BY <1>1, <2>2, <2>4, NoneIsDistinct
    <3>2. k = PrepareHistory(hist, Stored, Stored, cmd[s].view, files)
      BY <2>4
    <3> HIDE DEF k
    <3> QED
      BY <1>1, <2>1, <3>1, <3>2, PreparedHolds
         DEF PlanHolds, KeptVersion, Activations, Restores
  <2> HIDE DEF k
  <2> QED
    BY <2>1, <2>4, ReadyHistory
<1>4. CASE PrepareRemove(s)
  <2> DEFINE k == PrepareHistory(hist, cmd[s].prior, cmd[s].prior,
                                 cmd[s].view, files)
             plan == [k EXCEPT !.removed = TRUE]
  <2>1. /\ cmd[s].phase = "read" /\ cmd[s].kind = "REMOVE"
        /\ Readies(s, None, {}, plan) /\ Retainable(plan)
        /\ UNCHANGED <<row, journal, hist, package>>
    BY <1>4 DEF PrepareRemove, Prepares, Readies
  <2>2. cmd[s].prior \in Version
    BY <1>1, <2>1 DEF Begun
  <2>4. ASSUME Stored = cmd[s].prior
        PROVE  PlanHolds(cmd[s].kind, Stored, None, plan)
    <3>1. row # None /\ Stored \in Version
      BY <1>1, <2>2, <2>4, NoneIsDistinct
    <3>2. k = PrepareHistory(hist, Stored, Stored, cmd[s].view, files)
      BY <2>4
    <3>3. k \in History
      BY <1>1, <2>2, SavedHistoryType DEF IInv, TypeOK
    <3> HIDE DEF k
    <3>4. /\ plan.entries = k.entries /\ plan.active = k.active
          /\ plan.redo = k.redo
      BY <3>3 DEF History
    <3>5. Retainable(k)
      BY <2>1, <3>4 DEF Retainable, InCustody
    <3>6. /\ EntriesWhole(k) /\ OnceIn(k.redo) /\ HoldsWork(k, Stored)
          /\ WorksOf(k) \subseteq RetainedWorks \cup {Changes(Stored)}
          /\ k.redo = hist.redo
      BY <1>1, <3>1, <3>2, <3>5, PreparedHolds
    <3> HIDE DEF plan
    <3> QED
      BY <2>1, <3>4, <3>6 DEF PlanHolds, KeptVersion, EntriesWhole, HoldsWork,
                              WorksOf, Activations, Restores
  <2> HIDE DEF plan
  <2> QED
    BY <2>1, <2>4, ReadyHistory
<1> QED
  BY <1>2, <1>3, <1>4

\* A stale tab's view is retained beside the History, which stays as it is.
LEMMA PrepareStaleHistory ==
    ASSUME IInv, HInv, NEW s \in Tabs, PrepareStaleView(s) PROVE HInv'
<1> USE DEF store
<1>1. /\ cmd[s] \in Command /\ cmd[s].view \in Views \cup {None}
      /\ cmd[s].phase = "read" => Begun(cmd[s])
      /\ Stored # None <=> row # None
      /\ hist \in History /\ ActiveRetained(hist) /\ hist.redo \in Seq(Nat)
  BY StoredType DEF IInv, TypeOK, OperationsBound, EntriesRetained, Command, History
<1>2. PICK i \in DOMAIN hist.entries :
          LET source == [hist EXCEPT !.active = i, !.head = cmd[s].next,
                                     !.override = None]
              saved == PrepareHistory(source, cmd[s].next, cmd[s].next,
                                      cmd[s].view, hist.entries[i].files)
          IN  /\ hist.entries[i].version = cmd[s].next
              /\ Readies(s, cmd[s].next, {}, [hist EXCEPT !.entries = saved.entries,
                                                          !.gen = saved.gen])
  BY DEF PrepareStaleView
<1> DEFINE v == cmd[s].next
           source == [hist EXCEPT !.active = i, !.head = v, !.override = None]
           saved == PrepareHistory(source, v, v, cmd[s].view,
                                   hist.entries[i].files)
           plan == [hist EXCEPT !.entries = saved.entries, !.gen = saved.gen]
<1>3. /\ cmd[s].phase = "read" /\ cmd[s].kind = "VIEW"
      /\ hist.entries[i].version = v
      /\ Readies(s, v, {}, plan) /\ Retainable(plan)
      /\ UNCHANGED <<row, journal, hist, package>>
  BY <1>2 DEF PrepareStaleView, Prepares, Readies
<1>4. cmd[s].prior \in Version /\ v \in Version
  BY <1>1, <1>3 DEF Begun
<1>5. i \in Nat /\ hist.entries[i].files \in SUBSET Nat
  BY <1>1, EntryType
<1>6. /\ source \in History /\ source.entries = hist.entries
      /\ ActiveRetained(source)
  BY <1>1, <1>4, <1>5 DEF History, ActiveRetained
<1> HIDE DEF source
<1>7. saved \in History /\ Follows(source, saved)
  BY <1>1, <1>4, <1>5, <1>6, SavedHistoryType, SavedHistoryFollows
<1>8. Adds(source, saved, v, v)
  BY <1>1, <1>4, <1>5, <1>6, SavedHistory
<1> HIDE DEF saved, v
<1>9. /\ plan \in History /\ plan.entries = saved.entries
      /\ plan.active = hist.active /\ plan.redo = hist.redo
  BY <1>1, <1>7 DEF History
<1> HIDE DEF plan
<1>10. Extends(hist, plan) /\ Adds(hist, plan, v, v)
  BY <1>6, <1>7, <1>8, <1>9 DEF Follows, Extends, Adds, Added
<1>11. Changes(v) \in RetainedWorks
  BY <1>3 DEF RetainedWorks
<1>12. WorksOf(plan) \subseteq RetainedWorks
  BY <1>9, <1>10, <1>11, WorksAdded
<1>13. EntriesWhole(plan)
  BY <1>3, <1>10, WholePlan DEF HInv
<1>14. OnceIn(plan.redo)
  BY <1>1, <1>9 DEF HInv, RedoOffersOnce, OnceIn
<1>15. ASSUME Stored = cmd[s].prior
       PROVE  PlanHolds(cmd[s].kind, Stored, v, plan)
  <2>1. row # None
    BY <1>1, <1>4, <1>15, NoneIsDistinct
  <2>2. HoldsWork(plan, Stored)
    BY <1>1, <1>9, <1>10, <2>1, StoredRetained, KeptEntryHolds
  <2> QED
    BY <1>3, <1>9, <1>12, <1>13, <1>14, <2>2
       DEF PlanHolds, KeptVersion, Activations, Restores
<1> QED
  BY <1>3, <1>15, ReadyHistory

\* A restoration makes a retained entry the active one.
LEMMA PrepareRestoreHistory ==
    ASSUME IInv, HInv, NEW s \in Tabs, PrepareRestore(s) PROVE HInv'
<1> USE DEF store
<1>1. /\ cmd[s] \in Command /\ cmd[s].prior \in Version \cup {None}
      /\ hist \in History /\ hist.active \in Nat /\ hist.activeRev \in Nat
      /\ activations \in Nat
      /\ Stored # None <=> row # None
  BY StoredType DEF IInv, TypeOK, Command, History
<1> DEFINE id == cmd[s].target
           entry == hist.entries[id]
           rev == Larger(KnownRevision(s), entry.version.rev) + 1
           act == activations + 1
           next == [entry.version EXCEPT !.rev = rev, !.act = act]
           redo == RestoredRedo(cmd[s].kind, id)
           plan == [Activated(hist, id, next, entry.view, redo)
                        EXCEPT !.gen = hist.gen + 1]
<1>2. /\ cmd[s].phase = "read" /\ cmd[s].kind \in Restores
      /\ id \in DOMAIN hist.entries
      /\ Readies(s, next, entry.files, plan) /\ Retainable(plan)
      /\ UNCHANGED <<row, journal, hist, package>>
  BY DEF PrepareRestore, Prepares, Readies
<1>3. id \in Nat /\ entry.version \in Version /\ entry.version.rev \in Nat
  BY <1>1, <1>2, EntryType DEF Version
<1>4. /\ KnownRevision(s) = RevisionToExceed(cmd[s].prior)
      /\ KnownRevision(s) \in Nat
  BY <1>1 DEF KnownRevision, RevisionToExceed, Version
<1>5. rev \in Nat /\ act \in Nat /\ rev > KnownRevision(s)
  BY <1>1, <1>3, <1>4 DEF Larger
<1> HIDE DEF rev, act
<1>6. next \in Version /\ next.act = act
  BY <1>3, <1>5, ActivatedVersionType
<1>7. /\ SameWork(entry.version, next) /\ Changes(next) = Changes(entry.version)
      /\ next.atts = entry.version.atts /\ next.rev = rev
  <2> HIDE DEF entry
  <2>1. /\ next.work = entry.version.work /\ next.atts = entry.version.atts
        /\ next.ops = entry.version.ops /\ next.rev = rev
    BY <1>3 DEF Version
  <2> HIDE DEF next
  <2> QED
    BY <2>1, SameChanges DEF SameWork, WorkOf
<1>8. /\ redo \in Seq(Nat) /\ OnceIn(redo)
      /\ cmd[s].kind = "UNDO" => RedoesUndone(redo)
  BY <1>1, <1>3, RestoredRedoOnce DEF HInv
<1>9. next # Stored
  BY <1>6, ActivationChanges DEF act
<1> HIDE DEF next, redo
<1>10. /\ plan.entries = hist.entries /\ plan.active = id /\ plan.redo = redo
  BY <1>1 DEF Activated, History
<1> HIDE DEF plan
<1>11. EntriesWhole(plan) /\ WorksOf(plan) = RetainedWorks
  BY <1>10 DEF HInv, EntriesWhole, WorksOf, RetainedWorks
<1>12. HoldsWork(plan, next)
  BY <1>2, <1>7, <1>10, <1>11 DEF HoldsWork, Holds, EntriesWhole
<1>13. Changes(next) \in RetainedWorks
  BY <1>2, <1>7 DEF RetainedWorks
<1>14. cmd[s].kind \in Activations /\ cmd[s].kind \notin {"VIEW", "REMOVE"}
  BY <1>2 DEF Activations, Restores
<1> HIDE DEF id, entry
<1>15. Stored = cmd[s].prior => PlanHolds(cmd[s].kind, Stored, next, plan)
  BY <1>4, <1>5, <1>7, <1>8, <1>9, <1>10, <1>11, <1>12, <1>13, <1>14
     DEF PlanHolds, KeptVersion
<1> QED
  BY <1>2, <1>15, ReadyHistory

\* A backup becomes active at its own entry or below it, beside the project it
\* replaces.
LEMMA PrepareImportHistory ==
    ASSUME IInv, HInv, NEW s \in Tabs, NEW kept \in SUBSET Nat,
           ImportOver(s, kept)
    PROVE  HInv'
<1> USE DEF store
<1>1. /\ cmd[s] \in Command /\ cmd[s].prior \in Version \cup {None}
      /\ cmd[s].files \in SUBSET Nat /\ cmd[s].target \in Nat
      /\ hist \in History /\ ActiveRetained(hist) /\ hist.redo \in Seq(Nat)
      /\ activations \in Nat
      /\ Stored # None <=> row # None
      /\ cmd[s].phase = "read" => Begun(cmd[s])
  BY StoredType DEF IInv, TypeOK, Command, History, EntriesRetained, OperationsBound
<1> DEFINE prior == cmd[s].prior
           backup == cmd[s].next
           view == cmd[s].view
           id == cmd[s].target
           fs == cmd[s].files
           local == ReplacedHistory(prior, kept)
           merged == [local EXCEPT !.active = id]
           entry == hist.entries[id]
           rev == ImportedRevision(prior, backup)
           act == activations + 1
           next == [backup EXCEPT !.rev = rev, !.act = act]
           activated == [Activated(merged, id, next, view, <<>>)
                             EXCEPT !.gen = local.gen + 1]
           appended == PrepareHistory(merged, next, None, view, fs)
           plan == IF SameWork(entry.version, backup) /\ entry.files = fs
                   THEN activated ELSE appended
<1>2. /\ cmd[s].phase = "read" /\ cmd[s].kind = "IMPORT"
      /\ Readies(s, next, fs, plan) /\ Retainable(plan)
      /\ UNCHANGED <<row, journal, hist, package>>
  BY DEF ImportOver, Prepares, Readies
<1>3. /\ backup \in Version /\ view \in Views \cup {None}
      /\ id \in DOMAIN hist.entries /\ Changes(backup) \in RetainedWorks
      /\ backup.rev \in Nat
  BY <1>1, <1>2 DEF Begun, IInv, EntriesRetained, HInv, WorksRetained, Version
<1>4. /\ rev \in Nat /\ act \in Nat
      /\ prior # None => rev > prior.rev
  BY <1>1, <1>3 DEF ImportedRevision, Larger, Version
<1> HIDE DEF rev, act
<1>5. next \in Version /\ next.act = act
  <2> HIDE DEF backup
  <2> QED
    BY <1>3, <1>4 DEF Version
<1>6. /\ SameWork(backup, next) /\ Changes(next) = Changes(backup)
      /\ next.atts = backup.atts /\ next.rev = rev
  <2> HIDE DEF backup
  <2>1. /\ next.work = backup.work /\ next.atts = backup.atts
        /\ next.ops = backup.ops /\ next.rev = rev
    BY <1>3 DEF Version
  <2> HIDE DEF next
  <2> QED
    BY <2>1, SameChanges DEF SameWork, WorkOf
<1>7. next # Stored
  BY <1>5, ActivationChanges DEF act
<1>8. /\ local \in History /\ Extends(hist, local)
      /\ Adds(hist, local, next, prior)
  <2>1. CASE prior = None
    BY <1>1, <2>1 DEF Extends, Adds, Added, ReplacedHistory
  <2>2. CASE prior # None
    <3>1. prior \in Version /\ None \in Views \cup {None}
      BY <1>1, <2>2
    <3>2. local = PrepareHistory(hist, prior, prior, None, kept)
      BY <2>2 DEF ReplacedHistory
    <3> HIDE DEF local, prior
    <3>3. local \in History /\ Follows(hist, local)
      BY <1>1, <3>1, <3>2, SavedHistoryType, SavedHistoryFollows
    <3>4. Adds(hist, local, prior, prior)
      BY <1>1, <3>1, <3>2, SavedHistory
    <3> QED
      BY <2>2, <3>3, <3>4 DEF Follows, Adds
  <2> QED
    BY <2>1, <2>2
<1> HIDE DEF local
<1>9. /\ merged \in History /\ merged.entries = local.entries
      /\ merged.active = id /\ ActiveRetained(merged)
  <2>1. /\ merged \in History /\ merged.entries = local.entries
        /\ merged.active = id
    BY <1>1, <1>8 DEF History
  <2>2. DOMAIN hist.entries \subseteq DOMAIN local.entries
    BY <1>1, <1>8, WorksExtend
  <2> HIDE DEF merged
  <2> QED
    BY <1>3, <2>1, <2>2 DEF ActiveRetained
<1> HIDE DEF merged, next, rev, act
<1> DEFINE Fits ==
               /\ plan \in History /\ Extends(hist, plan)
               /\ Adds(hist, plan, next, prior) /\ plan.redo = <<>>
               /\ EntriesWhole(plan) /\ HoldsWork(plan, next)
<1>10. ASSUME SameWork(entry.version, backup), entry.files = fs PROVE Fits
  <2>1. plan = activated
    BY <1>10
  <2>2. activated.entries = local.entries /\ activated.active = id
        /\ activated.redo = <<>>
    BY <1>9 DEF Activated, History
  <2> HIDE DEF activated, plan
  <2>3. Extends(hist, plan) /\ Adds(hist, plan, next, prior) /\ plan.redo = <<>>
    BY <1>8, <2>1, <2>2 DEF Extends, Adds, Added
  <2>4. plan \in History
    <3> DEFINE none == <<>>
    <3>1. none \in Seq(Nat) /\ local.gen + 1 \in Nat
      BY <1>8 DEF History
    <3>2. view \in Views
      BY <1>1, <1>2 DEF Begun
    <3>3. plan = [Activated(merged, id, next, view, none)
                      EXCEPT !.gen = local.gen + 1]
      BY <2>1 DEF activated
    <3> HIDE DEF none
    <3> QED
      BY <1>1, <1>5, <1>9, <3>1, <3>2, <3>3, RestoredHistoryType
  <2>5. EntriesWhole(plan)
    BY <1>2, <2>3, WholePlan DEF HInv
  <2>6. plan.entries[id] = entry /\ plan.active = id
    BY <1>3, <2>1, <2>2, <2>3 DEF Extends
  <2>7. HoldsWork(plan, next)
    BY <1>3, <1>6, <1>10, <2>6 DEF HoldsWork, Holds, SameWork, WorkOf, HInv, EntriesWhole
  <2> QED
    BY <2>3, <2>4, <2>5, <2>7
<1>11. ASSUME ~(SameWork(entry.version, backup) /\ entry.files = fs) PROVE Fits
  <2>1. plan = appended
    BY <1>11
  <2> DEFINE p == None
  <2>2. p \in Version \cup {None} /\ next # p
    BY <1>5, NoneIsDistinct
  <2>3. plan = PrepareHistory(merged, next, p, view, fs)
    BY <2>1
  <2>12. view \in Views \cup {None} /\ fs \in SUBSET Nat
    BY <1>1, <1>3
  <2> HIDE DEF p, appended, plan, view, fs, id, backup
  <2>4. plan \in History /\ Follows(merged, plan)
    BY <1>5, <1>9, <2>2, <2>3, <2>12, PrepareHistoryType, PrepareHistoryFollows
  <2>5. Adds(merged, plan, next, p)
    BY <1>5, <1>9, <2>2, <2>3, <2>12, PreparedAdds
  <2>6. ReplacesActive(merged, plan, next)
    BY <1>5, <1>9, <2>2, <2>3, <2>12, PreparedActive
  <2>7. plan.redo = <<>>
    BY <1>5, <1>9, <2>2, <2>3, <2>12, PreparedRedo
  <2>8. Extends(hist, plan)
    <3>1. Extends(local, plan)
      BY <1>9, <2>4 DEF Follows, Extends
    <3> QED
      BY <1>1, <1>8, <2>4, <3>1, ExtendsTransitive
  <2>9. Adds(hist, plan, next, prior)
    <3> SUFFICES ASSUME NEW i \in Added(hist, plan)
                 PROVE  \/ plan.entries[i].version = next
                        \/ prior # None /\ plan.entries[i].version = prior
      BY DEF Adds
    <3>1. CASE i \in DOMAIN local.entries
      <4>1. i \in Added(hist, local) /\ plan.entries[i] = local.entries[i]
        BY <1>9, <2>4, <3>1 DEF Added, Follows, Extends
      <4> QED
        BY <1>8, <4>1 DEF Adds
    <3>2. CASE i \notin DOMAIN local.entries
      <4>1. i \in Added(merged, plan)
        BY <1>9, <3>2 DEF Added
      <4> QED
        BY <2>5, <4>1 DEF Adds, p
    <3> QED
      BY <3>1, <3>2
  <2>10. EntriesWhole(plan)
    BY <1>2, <2>8, WholePlan DEF HInv
  <2>11. HoldsWork(plan, next)
    BY <2>4, <2>6, <2>10, NewEntryHolds DEF Follows, ReplacesActive
  <2> QED
    BY <2>4, <2>7, <2>8, <2>9, <2>10, <2>11
<1>12. Fits
  BY <1>10, <1>11
<1> HIDE DEF plan, appended, activated, entry
<1>13. OnceIn(plan.redo)
  BY <1>1, <1>12 DEF OnceIn
<1>14. ASSUME Stored = prior PROVE PlanHolds(cmd[s].kind, Stored, next, plan)
  <2>1. prior # None => Changes(prior) \in RetainedWorks
    BY <1>1, <1>14, StoredRetained
  <2>2. WorksOf(plan) \subseteq RetainedWorks
    BY <1>3, <1>6, <1>12, <2>1, WorksAdded
  <2>3. prior # None => next.rev > RevisionToExceed(prior)
    BY <1>4, <1>6 DEF RevisionToExceed
  <2> HIDE DEF prior, backup
  <2> QED
    BY <1>2, <1>3, <1>6, <1>7, <1>12, <1>13, <1>14, <2>2, <2>3
       DEF PlanHolds, KeptVersion
<1> QED
  BY <1>2, <1>14, ReadyHistory

\* What a commit makes of the stored project.
LEMMA CommittedVersion ==
    ASSUME IInv, NEW s \in Tabs, Commit(s)
    PROVE  /\ \E kinds : Commits(s, kinds)
           /\ \A t \in Tabs \ {s} : cmd'[t] = cmd[t]
           /\ cmd'[s].phase \notin {"read", "ready"}
           /\ UNCHANGED package
           /\ row' # None => Stored' = KeptVersion(cmd[s].kind, Stored, cmd[s].next)
           /\ row' = None => Stored # None /\ row # None /\ cmd[s].kind = "REMOVE"
<1>1. cmd \in [Tabs -> Command] /\ (Stored = None <=> row = None)
  BY CommandType DEF IInv, TypeOK
<1>2. ASSUME Committed(s)
      PROVE  /\ \A t \in Tabs \ {s} : cmd'[t] = cmd[t]
             /\ cmd'[s].phase \notin {"read", "ready"}
  BY <1>1, <1>2 DEF Committed, NoCommand
<1>3. CASE CommitWrite(s) \/ CommitOperate(s)
  <2>1. PICK kinds \in SUBSET Intents :
            Commits(s, kinds) /\ Committed(s) /\ UNCHANGED package
    BY <1>3 DEF CommitWrite, CommitOperate, Intents
  <2>2. cmd[s].kind \notin {"VIEW", "REMOVE"}
    BY <2>1, CommitFacts DEF Intents
  <2>3. Stored' = cmd[s].next /\ row' \in Version
    BY <1>3, SaveStores
  <2> QED
    BY <1>2, <2>1, <2>2, <2>3, NoneIsDistinct DEF KeptVersion
<1>4. CASE CommitView(s)
  <2>1. /\ Commits(s, {"VIEW"}) /\ Committed(s) /\ UNCHANGED package
        /\ Stored' = Stored /\ row' = row
    BY <1>4 DEF CommitView, Stored
  <2>2. cmd[s].kind = "VIEW" /\ Stored \in Version
    BY <2>1, CommitFacts DEF Begun
  <2> QED
    BY <1>1, <1>2, <2>1, <2>2, NoneIsDistinct DEF KeptVersion
<1>5. CASE CommitActivation(s)
  <2>1. /\ Commits(s, Activations) /\ Committed(s) /\ UNCHANGED package
        /\ row' = cmd[s].next /\ journal' = None
    BY <1>5 DEF CommitActivation, Activations
  <2>2. /\ cmd[s].kind \notin {"VIEW", "REMOVE"} /\ cmd[s].next \in Version
    BY <2>1, CommitFacts DEF Activations, Restores, Prepared
  <2>3. Stored' = cmd[s].next
    BY <2>1 DEF Stored
  <2> QED
    BY <1>2, <2>1, <2>2, <2>3, NoneIsDistinct DEF KeptVersion
<1>6. CASE CommitRemove(s)
  <2>1. /\ Commits(s, {"REMOVE"}) /\ Leaves(s) /\ UNCHANGED package
        /\ row' = None
    BY <1>6 DEF CommitRemove
  <2>2. Stored \in Version /\ cmd[s].kind = "REMOVE"
    BY <2>1, CommitFacts DEF Begun
  <2>3. /\ \A t \in Tabs \ {s} : cmd'[t] = cmd[t]
        /\ cmd'[s].phase \notin {"read", "ready"}
    BY <1>1, <2>1 DEF Leaves, NoCommand
  <2> QED
    BY <1>1, <2>1, <2>2, <2>3, NoneIsDistinct
<1> QED
  BY <1>3, <1>4, <1>5, <1>6 DEF Commit

\* Every step keeps HInv.
LEMMA StepHistory == IInv /\ IInv' /\ HInv /\ [Next]_vars => HInv'
<1> SUFFICES ASSUME IInv, IInv', HInv, [Next]_vars PROVE HInv'
  OBVIOUS
<1>1. CASE Next
  <2>1. PICK s \in Tabs : Begin(s) \/ Prepare(s) \/ Commit(s) \/ Conclude(s)
    BY <1>1 DEF Next
  <2>2. CASE Prepare(s)
    BY <1>1, <2>2, PrepareSaveHistory, PrepareStaleHistory,
       PrepareRestoreHistory, PrepareImportHistory, ImportsOver DEF Prepare
  <2>3. CASE Commit(s)
    BY <2>3, CommittedVersion, CommitHistory
  <2> QED
    BY <2>1, <2>2, <2>3, BeginHistory, ConcludeHistory
<1>2. CASE UNCHANGED vars
  BY <1>2, QuietHistory DEF vars, store
<1> QED
  BY <1>1, <1>2

\* IInv and HInv hold in every state of the store.
LEMMA HistoryInvariance == Spec => [](IInv /\ HInv)
<1>1. Init => HInv
  BY InitHistory
<1> QED
  BY <1>1, InitInvariant, StepInvariant, StepHistory, PTL DEF Spec

\* A commit leaves the project and its History as its operation prepared them.
LEMMA CommitHolds ==
    ASSUME IInv, HInv, NEW s \in Tabs, Commit(s)
    PROVE  /\ PlanHolds(cmd[s].kind, Stored, cmd[s].next, hist')
           /\ Extends(hist, hist') /\ ActiveRetained(hist')
           /\ row' # None => Stored' = KeptVersion(cmd[s].kind, Stored, cmd[s].next)
           /\ row' = None => Stored # None /\ row # None /\ cmd[s].kind = "REMOVE"
BY CommittedVersion, PlanCommitted DEF Follows
-----------------------------------------------------------------------------
(* The theorems.                                                           *)

\* What an operator sees can always be returned to: the active entry of the
\* History holds the stored work and the bytes of every file it refers to.
THEOREM ActiveWorkHeld == Spec => []ActiveEntryHoldsWork
<1>1. HInv => ActiveEntryHoldsWork
  BY DEF HInv
<1> QED
  BY <1>1, HistoryInvariance, PTL

\* Redo never offers a version twice, however Undo, Redo and saves interleave.
THEOREM RedoUnique == Spec => []RedoOffersOnce
<1>1. HInv => RedoOffersOnce
  BY DEF HInv
<1> QED
  BY <1>1, HistoryInvariance, PTL

\* Whatever a save, restoration, backup or removal replaces is retained with
\* its files in the History it leaves.
THEOREM ReplacedKept == Spec => ReplacedWorkRetained
<1> DEFINE Survives == row # None /\ Stored' # Stored =>
                       \E i \in DOMAIN hist'.entries :
                           /\ SameWork(hist'.entries[i].version, Stored)
                           /\ Stored.atts \subseteq hist'.entries[i].files
<1>1. ASSUME IInv, HInv, [Next]_vars PROVE [Survives]_vars
  <2>1. CASE UNCHANGED <<row, journal, hist>>
    BY <2>1 DEF Stored
  <2>2. ASSUME NEW s \in Tabs, Commit(s), row # None PROVE Survives
    <3>1. HoldsWork(hist, Stored) /\ hist.active \in DOMAIN hist.entries
      BY <1>1, <2>2, StoredRetained DEF IInv, EntriesRetained, ActiveRetained
    <3>2. Extends(hist, hist') /\ hist \in History /\ hist' \in History
      BY <1>1, <2>2, CommitHolds, CommitInvariant DEF IInv, TypeOK
    <3>3. hist.active \in DOMAIN hist'.entries
      BY <3>1, <3>2, WorksExtend
    <3> QED
      BY <3>1, <3>2, <3>3 DEF HoldsWork, Holds, Extends
  <2> QED
    BY <1>1, <2>1, <2>2, OnlyCommitsChange
<1> QED
  BY <1>1, HistoryInvariance, PTL DEF Spec, ReplacedWorkRetained

\* Only what changes the project costs its Redo.
THEOREM ViewsCostNoRedo == Spec => ViewsKeepRedo
<1>1. ASSUME IInv, HInv, [Next]_vars, Stored' = Stored
      PROVE  hist'.redo = hist.redo
  <2>1. CASE UNCHANGED <<row, journal, hist>>
    BY <2>1
  <2>2. ASSUME NEW s \in Tabs, Commit(s) PROVE hist'.redo = hist.redo
    <3>1. row' # None
      BY <1>1, <2>2, CommitHolds DEF Stored
    <3> QED
      BY <1>1, <2>2, <3>1, CommitHolds DEF PlanHolds
  <2> QED
    BY <1>1, <2>1, <2>2, OnlyCommitsChange
<1> QED
  BY <1>1, HistoryInvariance, PTL DEF Spec, ViewsKeepRedo

\* An Undo is only done by its commit.
LEMMA UndoCommits ==
    ASSUME IInv, [Next]_vars, NEW s \in Tabs, Undoes(s) PROVE Commit(s)
<1>1. cmd \in [Tabs -> Command] /\ cmd[s].phase = "ready" /\ cmd'[s].phase = "refresh"
  BY DEF IInv, TypeOK, Undoes
<1>2. PICK t \in Tabs : Begin(t) \/ Prepare(t) \/ Commit(t) \/ Conclude(t)
  BY <1>1 DEF Next, vars
<1>3. ~Begin(t)
  BY <1>1 DEF Begin, StoreFile, Submit, SubmitStale, BeginView, BeginRestore,
              BeginRemove, BeginImport, Starts, Reads, NoCommand, Intents
<1>4. ~Prepare(t)
  <2>1. ASSUME NEW next, NEW fs, NEW plan, Readies(t, next, fs, plan) PROVE FALSE
    BY <1>1, <2>1 DEF Readies, Command
  <2>2. ~PrepareWrite(t) /\ ~PrepareView(t) /\ ~PrepareStaleView(t)
    BY <2>1 DEF PrepareWrite, PrepareView, PrepareStaleView
  <2>3. ~PrepareRestore(t) /\ ~PrepareRemove(t)
    BY <2>1 DEF PrepareRestore, PrepareRemove
  <2>4. ~PrepareImport(t) /\ ~PrepareImportOverDamage(t)
    BY <2>1 DEF PrepareImport, PrepareImportOverDamage, ImportOver
  <2> QED
    BY <2>2, <2>3, <2>4 DEF Prepare
<1>5. ~Conclude(t)
  <2>1. NoCommand.phase = "idle"
    BY DEF NoCommand
  <2>2. ASSUME Fails(t) PROVE FALSE
    <3>1. cmd'[t].phase \in {"idle", "cleanup"}
      BY <1>1, <2>2 DEF Fails, NoCommand
    <3>2. \A u \in Tabs \ {t} : cmd'[u] = cmd[u]
      BY <1>1, <2>2 DEF Fails
    <3> QED
      BY <1>1, <3>1, <3>2
  <2>3. ASSUME cmd' = [cmd EXCEPT ![t] = NoCommand] PROVE FALSE
    BY <1>1, <2>1, <2>3
  <2>4. ASSUME CommitStale(t) PROVE FALSE
    <3>1. cmd'[t].phase = "conflict"
      BY <1>1, <2>4 DEF CommitStale, NoCommand
    <3>2. \A u \in Tabs \ {t} : cmd'[u] = cmd[u]
      BY <1>1, <2>4 DEF CommitStale
    <3> QED
      BY <1>1, <3>1, <3>2
  <2>5. ~AcknowledgeRemoval(t) /\ ~DeleteFile(t) /\ ~Refresh(t) /\ ~Reload(t)
    BY <2>3 DEF AcknowledgeRemoval, Leaves, DeleteFile, Refresh, Reload
  <2>6. ~Resync(t) /\ ~Abandon(t) /\ ~FailBoundary(t)
    BY <2>2 DEF Resync, Abandon, FailBoundary
  <2>7. ~Export(t)
    BY <1>1 DEF Export
  <2> QED
    BY <2>4, <2>5, <2>6, <2>7 DEF Conclude
<1>6. Commit(t)
  BY <1>2, <1>3, <1>4, <1>5
<1>7. t = s
  BY <1>1, <1>6, CommittedVersion
<1> QED
  BY <1>6, <1>7

\* What any Undo leaves is what Redo offers next, with its bytes, and it costs
\* nothing that could be redone before it.
THEOREM UndoneWorkKept == Spec => UndoneWorkRedoable
<1> DEFINE Redoable == \A s \in Tabs : Undoes(s) /\ row # None => LeavesWorkToRedo
<1>1. ASSUME IInv, HInv, [Next]_vars PROVE Redoable
  <2> SUFFICES ASSUME NEW s \in Tabs, Undoes(s), row # None PROVE LeavesWorkToRedo
    OBVIOUS
  <2>1. Commit(s)
    BY <1>1, UndoCommits
  <2>2. HoldsWork(hist, Stored) /\ hist.active \in DOMAIN hist.entries
    BY <1>1, StoredRetained DEF IInv, EntriesRetained, ActiveRetained
  <2>3. RedoesUndone(hist'.redo) /\ Extends(hist, hist')
    BY <1>1, <2>1, CommitHolds DEF PlanHolds, Undoes
  <2>4. hist'.entries[hist'.redo[1]] = hist.entries[hist.active]
    BY <2>2, <2>3 DEF RedoesUndone, Extends
  <2> QED
    BY <2>2, <2>3, <2>4 DEF LeavesWorkToRedo, RedoesUndone, HoldsWork, Holds
<1> QED
  BY <1>1, HistoryInvariance, PTL DEF Spec, UndoneWorkRedoable

\* A commit that stores another row gives it a revision beyond the one it
\* replaces, or beyond the last one the History knows of a removed project.
LEMMA RevisionStep ==
    ASSUME IInv, HInv, NEW s \in Tabs, Commit(s), row' # None, row' # row,
           row # None \/ "IMPORT" \notin Commands
    PROVE  row'.rev > IF row = None THEN hist.activeRev ELSE row.rev
<1>1. /\ row # None => Stored.rev = row.rev /\ row.rev \in Nat
      /\ Stored = None <=> row = None
  BY StoredType DEF IInv, TypeOK, Version
<1>2. CASE CommitWrite(s)
  <2>1. /\ Saves(cmd[s]) /\ row \in Version /\ Stored = cmd[s].prior
    BY <1>2, SaveStores
  <2>2. /\ row' = cmd[s].next /\ cmd[s].next # cmd[s].prior
        /\ cmd[s].kind # "OPERATE"
    BY <1>2, CommitFacts DEF CommitWrite
  <2>3. row # None /\ cmd[s].next.rev = cmd[s].prior.rev + 1
    BY <2>1, <2>2, NoneIsDistinct DEF Saves
  <2> QED
    BY <1>1, <2>1, <2>2, <2>3
<1>3. CASE CommitActivation(s)
  <2>1. Commits(s, Activations) /\ row' = cmd[s].next
    BY <1>3 DEF CommitActivation, Activations
  <2>2. /\ cmd[s].kind \in Activations /\ cmd[s].phase = "ready"
        /\ cmd[s].kind \in Commands
    BY <2>1, CommitFacts DEF HInv, PlansKept
  <2>3. cmd[s].next.rev > RevisionToExceed(Stored)
    BY <1>1, <2>2, CommitHolds DEF PlanHolds
  <2> QED
    BY <1>1, <2>1, <2>3 DEF RevisionToExceed
<1> QED
  BY <1>2, <1>3 DEF Commit, CommitOperate, CommitView, CommitRemove

\* With imports too: as long as a project is stored, what replaces its row has
\* a later revision.
StoredRevisionAdvances ==
    [][ row # None /\ row' # None /\ row' # row => row'.rev > row.rev ]_vars

\* No save, restoration or import of a stored project goes back in revision.
THEOREM StoredRevisionsAdvance == Spec => StoredRevisionAdvances
<1> DEFINE Advances == row # None /\ row' # None /\ row' # row =>
                           row'.rev > row.rev
<1>1. ASSUME IInv, HInv, [Next]_vars PROVE [Advances]_vars
  <2>1. ASSUME NEW s \in Tabs, Commit(s) PROVE Advances
    BY <1>1, <2>1, RevisionStep
  <2> QED
    BY <1>1, <2>1, OnlyCommitsChange
<1> QED
  BY <1>1, HistoryInvariance, PTL DEF Spec, StoredRevisionAdvances
-----------------------------------------------------------------------------
(* The store implements VersionedProject.                                  *)

\* No set of changes is the mark of a removed project.
LEMMA ChangesPresent == ASSUME NEW v PROVE Changes(v) # RemovedWork
<1>1. <<"removed", 0>> \in RemovedWork
  BY DEF RemovedWork
<1>2. <<"removed", 0>> \notin Changes(v)
  BY DEF Changes
<1> QED
  BY <1>1, <1>2

\* A save adds to the changes of the version it replaces.
LEMMA SavedChanges ==
    ASSUME NEW c, Saves(c) PROVE Changes(c.prior) \subseteq Changes(c.next)
BY DEF Saves, Changes

\* A commit saves on top of the current work, returns to a retained one,
\* removes the project, or changes nothing of it.
LEMMA CommitPromise ==
    ASSUME IInv, HInv, NEW s \in Tabs, Commit(s)
    PROVE  [Promise!Next]_<<CurrentWork, RetainedWorks>>
<1>1. /\ PlanHolds(cmd[s].kind, Stored, cmd[s].next, hist')
      /\ Extends(hist, hist') /\ ActiveRetained(hist')
      /\ row' # None => Stored' = KeptVersion(cmd[s].kind, Stored, cmd[s].next)
      /\ row' = None => Stored # None /\ row # None /\ cmd[s].kind = "REMOVE"
  BY CommitHolds
<1>2. hist \in History /\ hist' \in History
  BY CommitInvariant DEF IInv, TypeOK
<1>3. RetainedWorks' = WorksOf(hist') /\ RetainedWorks \subseteq RetainedWorks'
  BY <1>1, <1>2, WorksExtend DEF RetainedWorks, WorksOf
<1>4. /\ RetainedWorks' \subseteq
             RetainedWorks \cup {Changes(KeptVersion(cmd[s].kind, Stored, cmd[s].next))}
      /\ HoldsWork(hist', KeptVersion(cmd[s].kind, Stored, cmd[s].next))
      /\ cmd[s].kind \in Activations => Changes(cmd[s].next) \in RetainedWorks
  BY <1>1, <1>3 DEF PlanHolds
<1>5. row # None => Changes(Stored) \in RetainedWorks
  BY StoredRetained
<1>6. CASE CommitWrite(s) \/ CommitOperate(s)
  <2>1. /\ Saves(cmd[s]) /\ row \in Version /\ row' \in Version
        /\ Stored = cmd[s].prior /\ Stored' = cmd[s].next
    BY <1>6, SaveStores
  <2>2. row # None /\ row' # None
    BY <2>1, NoneIsDistinct
  <2>3. /\ CurrentWork = Changes(Stored) /\ CurrentWork' = Changes(Stored')
        /\ CurrentWork # RemovedWork /\ CurrentWork' # RemovedWork
        /\ CurrentWork \subseteq CurrentWork'
    BY <2>1, <2>2, SavedChanges, ChangesPresent DEF CurrentWork
  <2>4. /\ SameWork(hist'.entries[hist'.active].version, Stored')
        /\ hist'.active \in DOMAIN hist'.entries
    BY <1>1, <1>4, <2>2 DEF HoldsWork, Holds, ActiveRetained
  <2>5. CurrentWork' \in RetainedWorks'
    BY <1>3, <2>3, <2>4, SameChanges DEF WorksOf
  <2>6. RetainedWorks' = RetainedWorks \cup {CurrentWork'}
    BY <1>1, <1>3, <1>4, <2>2, <2>3, <2>5
  <2> QED
    BY <2>3, <2>6 DEF Promise!Next, Promise!Save
<1>7. CASE CommitView(s)
  <2>1. row' = row /\ Stored' = Stored /\ Commits(s, {"VIEW"})
    BY <1>7 DEF CommitView, Stored
  <2>2. cmd[s].kind = "VIEW" /\ Stored \in Version
    BY <2>1, CommitFacts DEF Begun
  <2>3. row # None
    BY <2>2, StoredType, NoneIsDistinct DEF IInv, TypeOK
  <2>4. RetainedWorks' = RetainedWorks /\ CurrentWork' = CurrentWork
    BY <1>3, <1>4, <1>5, <2>1, <2>2, <2>3 DEF KeptVersion, CurrentWork
  <2> QED
    BY <2>4
<1>8. CASE CommitActivation(s)
  <2>1. Commits(s, Activations) /\ row' = cmd[s].next
    BY <1>8 DEF CommitActivation, Activations
  <2>2. /\ cmd[s].kind \in Activations /\ cmd[s].kind \notin {"VIEW", "REMOVE"}
        /\ row' # None
    BY <2>1, CommitFacts, NoneIsDistinct DEF Activations, Restores, Prepared
  <2>3. CurrentWork' = Changes(cmd[s].next)
    BY <1>1, <2>2 DEF CurrentWork, KeptVersion
  <2>4. RetainedWorks' = RetainedWorks /\ CurrentWork' \in RetainedWorks
    BY <1>3, <1>4, <2>2, <2>3 DEF KeptVersion
  <2> QED
    BY <2>4 DEF Promise!Next, Promise!Return
<1>9. CASE CommitRemove(s)
  <2>1. Commits(s, {"REMOVE"}) /\ row' = None
    BY <1>9 DEF CommitRemove
  <2>2. row # None /\ cmd[s].kind = "REMOVE"
    BY <1>1, <2>1
  <2>3. CurrentWork # RemovedWork /\ CurrentWork' = RemovedWork
    BY <2>1, <2>2, ChangesPresent DEF CurrentWork
  <2>4. RetainedWorks' = RetainedWorks
    BY <1>3, <1>4, <1>5, <2>2 DEF KeptVersion
  <2> QED
    BY <2>3, <2>4 DEF Promise!Next, Promise!Remove
<1> QED
  BY <1>6, <1>7, <1>8, <1>9 DEF Commit

\* For any number of tabs and operations, and with reloads and failures between
\* any two transactions, the store is a versioned project: work is saved on top
\* of the current work, replaced by a retained one or removed, never lost.
THEOREM StoreImplementsPromise == Spec => ImplementsPromise
<1>1. Init => Promise!Init
  <2> SUFFICES ASSUME Init PROVE Promise!Init
    OBVIOUS
  <2>1. FirstVersion \in Version
    BY DEF FirstVersion, Version
  <2>2. row # None /\ Stored = FirstVersion
    BY <2>1, NoneIsDistinct DEF Init, Stored
  <2>3. CurrentWork = Changes(FirstVersion)
    BY <2>2 DEF CurrentWork
  <2>4. DOMAIN hist.entries = {1} /\ hist.entries[1].version = FirstVersion
    BY DEF Init
  <2>5. RetainedWorks = {Changes(FirstVersion)}
    BY <2>4 DEF RetainedWorks
  <2> QED
    BY <2>3, <2>5, ChangesPresent DEF Promise!Init
<1>2. ASSUME IInv, HInv, [Next]_vars
      PROVE  [Promise!Next]_<<CurrentWork, RetainedWorks>>
  <2>1. CASE UNCHANGED <<row, journal, hist>>
    BY <2>1 DEF CurrentWork, RetainedWorks, Stored
  <2> QED
    BY <1>2, <2>1, CommitPromise, OnlyCommitsChange
<1> QED
  BY <1>1, <1>2, HistoryInvariance, PTL DEF Spec, ImplementsPromise, Promise!Spec
-----------------------------------------------------------------------------
(* The files of the stored project.                                        *)

\* A file some retained version refers to.
Referred(f) == \E w \in RetainedWorks : <<"file", f>> \in w

\* A tab still answers for the file of an intake that has not committed.
Pending(c) == c.file # 0 /\ c.phase # "refresh"

\* The identity an activation has drawn is later than any a tab has seen.
DrawnLast(c) ==
    /\ row # None => Stored.act < c.next.act
    /\ \A t \in Tabs :
           /\ tab[t] # None => tab[t].act < c.next.act
           /\ cmd[t].prior # None => cmd[t].prior.act < c.next.act

\* What an activation is about to put back holds the files it refers to.
BringsFiles(c) ==
    c.gen = hist.gen =>
        /\ DrawnLast(c)
        /\ Stored = c.prior => c.next.atts \subseteq c.files

\* Between two activations no stored file is lost but those of failed intakes.
IntakeStored(s) ==
    /\ cmd[s].phase = "stored" /\ tab[s] # None /\ tab[s].act = Stored.act =>
           cmd[s].file \in files
    /\ /\ cmd[s].phase \in {"read", "ready"} /\ cmd[s].kind = "ATTACH"
       /\ cmd[s].prior.act = Stored.act
       => cmd[s].file \in files

\* A save refers to no file but those of what it replaces and its own.
AddsOwnFile(c) ==
    c.next.atts \subseteq c.prior.atts \cup (IF c.kind = "ATTACH" THEN {c.file} ELSE {})

CommandFiles(s) ==
    LET c == cmd[s] IN
    /\ c.phase = "read" /\ c.kind = "IMPORT" => c.next.atts \subseteq c.files
    /\ c.phase = "ready" /\ c.kind \in Activations => BringsFiles(c)
    /\ c.phase \in {"read", "ready"} /\ c.kind \in Intents => AddsOwnFile(c)
    /\ row # None => IntakeStored(s)
    /\ c.file <= intakes
    /\ c.phase = "cleanup" => c.file # 0
    /\ c.file # 0 => \A t \in Tabs \ {s} : cmd[t].file # c.file
    /\ Pending(c) => ~Referred(c.file)

FInv ==
    /\ ReferredFilesStored
    /\ package # None => package.version.atts \subseteq package.files
    /\ \A f \in Nat : Referred(f) => f <= intakes
    /\ \A s \in Tabs : tab[s] # None => tab[s].act <= activations
    /\ \A s \in Tabs : CommandFiles(s)

\* An export never commits.
LEMMA CommitKind ==
    ASSUME IInv, NEW s \in Tabs, Commit(s)
    PROVE  cmd[s].kind \in {"VIEW", "REMOVE"} \cup Activations \cup Intents
BY CommitFacts
   DEF Commit, CommitWrite, CommitOperate, CommitView, CommitActivation,
       CommitRemove, Intents, Activations, Restores

\* A change is a file of a version exactly when the version refers to it.
LEMMA FileChanges ==
    ASSUME NEW v, NEW f PROVE <<"file", f>> \in Changes(v) <=> f \in v.atts
BY DEF Changes

\* The files of a retained version are referred to.
LEMMA ReferredFiles ==
    ASSUME NEW v, Changes(v) \in RetainedWorks, NEW f \in v.atts PROVE Referred(f)
BY FileChanges DEF Referred

\* A step of one tab that leaves the project and its History alone and at most
\* deletes the tab's own file.
Quiet(s, c) ==
    /\ cmd' = [cmd EXCEPT ![s] = c]
    /\ UNCHANGED <<row, journal, hist>>
    /\ \A t \in Tabs \ {s} : tab'[t] = tab[t]
    /\ tab'[s] \in {tab[s], Stored, None}
    /\ c.prior \in {cmd[s].prior, Stored, None}
    /\ intakes' \in Nat /\ intakes <= intakes'
    /\ activations' \in Nat /\ activations <= activations'
    /\ \/ c.file \in {0, cmd[s].file}
       \/ c.file = intakes + 1 /\ c.file <= intakes'
    /\ \A f \in files : f \in files' \/ (f = cmd[s].file /\ f # 0)
    /\ ReferredFilesStored'
    /\ package' = package \/ package'.version.atts \subseteq package'.files

\* What the command of the tab that takes it must fulfil.
Fulfils(s, c) ==
    /\ c.phase = "read" /\ c.kind = "IMPORT" => c.next.atts \subseteq c.files
    /\ c.phase = "ready" /\ c.kind \in Activations => BringsFiles(c)
    /\ c.phase \in {"read", "ready"} /\ c.kind \in Intents => AddsOwnFile(c)
    /\ row # None => IntakeStored(s)'
    /\ c.phase = "cleanup" => c.file # 0
    /\ Pending(c) => ~Referred(c.file)

\* Such a step keeps FInv.
LEMMA QuietFiles ==
    ASSUME IInv, FInv, NEW s \in Tabs, NEW c, Quiet(s, c), Fulfils(s, c)
    PROVE  FInv'
<1> USE DEF Quiet, Fulfils
<1>1. /\ cmd'[s] = c /\ \A t \in Tabs \ {s} : cmd'[t] = cmd[t]
      /\ \A t \in Tabs : cmd[t] \in Command /\ cmd[t].file \in Nat
      /\ intakes \in Nat
  BY DEF IInv, TypeOK, Command
<1>2. /\ Stored' = Stored /\ RetainedWorks' = RetainedWorks
      /\ Stored = None <=> row = None
  BY CommandType DEF Stored, RetainedWorks
<1>3. \A f : Referred(f)' <=> Referred(f)
  BY <1>2 DEF Referred
<1>4. \A f \in Nat : Referred(f)' => f <= intakes'
  BY <1>1, <1>3 DEF FInv
<1>5. package' # None => package'.version.atts \subseteq package'.files
  BY DEF FInv
<1>6. ASSUME NEW d, BringsFiles(d) PROVE BringsFiles(d)'
  <2> SUFFICES ASSUME d.gen = hist.gen
               PROVE  DrawnLast(d)' /\ (Stored = d.prior => d.next.atts \subseteq d.files)
    BY <1>2 DEF BringsFiles
  <2>1. DrawnLast(d) /\ (Stored = d.prior => d.next.atts \subseteq d.files)
    BY <1>6 DEF BringsFiles
  <2>2. ASSUME NEW t \in Tabs
        PROVE  /\ tab'[t] # None => tab'[t].act < d.next.act
               /\ cmd'[t].prior # None => cmd'[t].prior.act < d.next.act
    <3>1. CASE t # s
      BY <1>1, <2>1, <3>1 DEF DrawnLast
    <3>2. CASE t = s
      BY <1>1, <1>2, <2>1, <3>2 DEF DrawnLast
    <3> QED
      BY <3>1, <3>2
  <2> QED
    BY <1>2, <2>1, <2>2 DEF DrawnLast
<1>7. ASSUME NEW t \in Tabs PROVE CommandFiles(t)'
  <2>1. CommandFiles(t) /\ CommandFiles(s)
    BY DEF FInv
  <2>2. CASE t = s
    <3>1. c.file <= intakes' /\ (c.file # 0 => \A u \in Tabs \ {s} : cmd'[u].file # c.file)
      <4>1. \A u \in Tabs \ {s} : cmd[u].file <= intakes
        BY DEF FInv, CommandFiles
      <4>2. CASE c.file \in {0, cmd[s].file}
        BY <1>1, <2>1, <4>2 DEF CommandFiles
      <4>3. CASE c.file = intakes + 1 /\ c.file <= intakes'
        BY <1>1, <4>1, <4>3
      <4> QED
        BY <4>2, <4>3
    <3>2. c.phase = "ready" /\ c.kind \in Activations => BringsFiles(c)'
      BY <1>6
    <3>3. BringsFiles(cmd[s])' <=> BringsFiles(c)'
      BY <1>1 DEF BringsFiles, DrawnLast
    <3> QED
      BY <1>1, <1>3, <2>2, <3>1, <3>2, <3>3
         DEF CommandFiles, AddsOwnFile, Pending
  <2>3. CASE t # s
    <3>1. cmd'[t] = cmd[t] /\ tab'[t] = tab[t]
      BY <1>1, <2>3
    <3>2. cmd'[t].phase = "ready" /\ cmd'[t].kind \in Activations =>
              BringsFiles(cmd[t])'
      BY <1>6, <2>1, <3>1 DEF CommandFiles
    <3>3. cmd[t].file \in files => cmd[t].file \in files'
      BY <2>1, <2>3 DEF CommandFiles
    <3>4. row # None => IntakeStored(t)'
      BY <1>2, <2>1, <3>1, <3>3 DEF CommandFiles, IntakeStored
    <3>5. cmd[t].file <= intakes'
      BY <1>1, <2>1 DEF CommandFiles
    <3>6. cmd[t].file # 0 => \A u \in Tabs \ {t} : cmd'[u].file # cmd[t].file
      <4>1. c.file # cmd[t].file \/ cmd[t].file = 0
        BY <1>1, <2>1, <2>3 DEF CommandFiles
      <4> QED
        BY <1>1, <2>1, <4>1 DEF CommandFiles
    <3> QED
      BY <1>3, <2>1, <3>1, <3>2, <3>4, <3>5, <3>6
         DEF CommandFiles, AddsOwnFile, Pending
  <2> QED
    BY <2>2, <2>3
<1>8. ASSUME NEW t \in Tabs, tab'[t] # None PROVE tab'[t].act <= activations'
  <2>1. /\ Stored # None => Stored.act \in Nat /\ Stored.act <= activations
        /\ tab[t] # None => tab[t].act \in Nat /\ tab[t].act <= activations
        /\ activations \in Nat
    BY CommandType DEF FInv, IInv, TypeOK, Version
  <2>2. tab'[t] \in {tab[t], Stored}
    BY <1>8
  <2> QED
    BY <2>1, <2>2, <1>8
<1> QED
  BY <1>4, <1>5, <1>7, <1>8 DEF FInv

\* A commit of one tab: what it adds to the retained works is its own file.
LEMMA CommitFilesStep ==
    ASSUME IInv, HInv, FInv, NEW s \in Tabs, NEW kinds, Commits(s, kinds),
           Commit(s), \A t \in Tabs \ {s} : tab'[t] = tab[t],
           cmd'[s].phase \in {"idle", "refresh"},
           cmd'[s].file \in {0, cmd[s].file}, ~Pending(cmd'[s]),
           UNCHANGED <<package, intakes, activations>>, ReferredFilesStored',
           tab'[s] # None => tab'[s].act <= activations,
           row' # None =>
               \/ row # None /\ Stored'.act = Stored.act /\ files' = files
               \/ \A t \in Tabs : /\ tab[t] # None => tab[t].act < Stored'.act
                                  /\ cmd[t].prior # None => cmd[t].prior.act < Stored'.act
    PROVE  FInv'
<1>1. /\ \A t \in Tabs \ {s} : cmd'[t] = cmd[t]
      /\ cmd'[s].phase \notin {"stored", "read", "ready"}
      /\ \A t \in Tabs : /\ cmd[t].file \in Nat /\ cmd[t].gen \in Nat
                         /\ cmd[t].prior # None => cmd[t].prior.act \in Nat
                         /\ tab[t] # None => tab[t].act \in Nat
      /\ intakes \in Nat
  BY CommittedVersion DEF IInv, TypeOK, Command, Version
<1>2. /\ Stored = None <=> row = None
      /\ hist.gen \in Nat /\ hist'.gen \in Nat /\ hist.gen < hist'.gen
      /\ PlanHolds(cmd[s].kind, Stored, cmd[s].next, hist')
      /\ Stored = cmd[s].prior /\ Begun(cmd[s])
      /\ cmd[s].phase = "ready"
  BY PlanCommitted, CommitFacts, CommandType
<1>3. ASSUME NEW f, Referred(f)'
      PROVE  Referred(f) \/ (cmd[s].kind = "ATTACH" /\ f = cmd[s].file)
  <2>1. PICK w \in WorksOf(hist') : <<"file", f>> \in w
    BY <1>3 DEF Referred, RetainedWorks, WorksOf
  <2>2. CASE w \in RetainedWorks
    BY <2>1, <2>2 DEF Referred
  <2>3. CASE w = Changes(KeptVersion(cmd[s].kind, Stored, cmd[s].next))
    <3>1. row # None => Changes(Stored) \in RetainedWorks
      BY StoredRetained
    <3>2. CASE cmd[s].kind \in {"VIEW", "REMOVE"}
      <4>1. row # None
        BY <1>2, <3>2, NoneIsDistinct DEF Begun
      <4> QED
        BY <2>1, <2>3, <3>1, <3>2, <4>1 DEF KeptVersion, Referred
    <3>3. CASE cmd[s].kind \in Activations
      BY <1>2, <2>1, <2>3, <3>3 DEF PlanHolds, KeptVersion, Activations, Restores,
                                    Referred
    <3>4. CASE cmd[s].kind \in Intents
      <4>1. cmd[s].kind \notin {"VIEW", "REMOVE"}
        BY <3>4 DEF Intents
      <4>2. f \in cmd[s].next.atts
        BY <2>1, <2>3, <4>1, FileChanges DEF KeptVersion
      <4>3. AddsOwnFile(cmd[s])
        BY <1>2, <3>4 DEF FInv, CommandFiles
      <4>4. row # None
        BY <1>2, <3>4, NoneIsDistinct DEF Begun, Saves
      <4>5. f \in Stored.atts => Referred(f)
        BY <3>1, <4>4, ReferredFiles
      <4> QED
        BY <1>2, <4>2, <4>3, <4>5 DEF AddsOwnFile
    <3>5. cmd[s].kind \in {"VIEW", "REMOVE"} \cup Activations \cup Intents
      BY CommitKind
    <3> QED
      BY <3>2, <3>3, <3>4, <3>5
  <2> QED
    BY <1>2, <2>1, <2>2, <2>3 DEF PlanHolds
<1>4. cmd[s].kind = "ATTACH" => cmd[s].file <= intakes
  BY DEF FInv, CommandFiles
<1>5. \A f \in Nat : Referred(f)' => f <= intakes'
  BY <1>3, <1>4 DEF FInv
<1>6. ASSUME NEW t \in Tabs PROVE CommandFiles(t)'
  <2>1. CommandFiles(t) /\ CommandFiles(s)
    BY DEF FInv
  <2>2. CASE t = s
    BY <1>1, <2>1, <2>2 DEF CommandFiles, IntakeStored
  <2>3. CASE t # s
    <3>1. cmd'[t] = cmd[t] /\ tab'[t] = tab[t]
      BY <1>1, <2>3
    <3>2. cmd[t].phase = "ready" => cmd[t].gen # hist'.gen
      BY <1>1, <1>2 DEF IInv, OperationsBound, Prepared
    <3>3. cmd[t].phase = "ready" => BringsFiles(cmd[t])'
      BY <3>1, <3>2 DEF BringsFiles
    <3>4. row' # None => IntakeStored(t)'
      <4> SUFFICES ASSUME row' # None PROVE IntakeStored(t)'
        OBVIOUS
      <4>1. CASE row # None /\ Stored'.act = Stored.act /\ files' = files
        BY <2>1, <3>1, <4>1 DEF CommandFiles, IntakeStored
      <4>2. CASE \A u \in Tabs :
                     /\ tab[u] # None => tab[u].act < Stored'.act
                     /\ cmd[u].prior # None => cmd[u].prior.act < Stored'.act
        <5>1. tab[t] # None => tab[t].act # Stored'.act
          BY <1>1, <4>2
        <5>2. cmd[t].phase \in {"read", "ready"} /\ cmd[t].kind = "ATTACH" =>
                  cmd[t].prior # None
          BY NoneIsDistinct DEF IInv, OperationsBound, Begun, Saves, Intents
        <5>3. cmd[t].prior # None => cmd[t].prior.act # Stored'.act
          BY <1>1, <4>2
        <5> QED
          BY <3>1, <5>1, <5>2, <5>3 DEF IntakeStored
      <4> QED
        BY <4>1, <4>2
    <3>5. cmd[t].file # 0 => \A u \in Tabs \ {t} : cmd'[u].file # cmd[t].file
      BY <1>1, <2>1, <2>3 DEF CommandFiles
    <3>6. Pending(cmd[t]) => ~Referred(cmd[t].file)'
      <4>1. Pending(cmd[t]) => cmd[t].file # cmd[s].file
        BY <2>1, <2>3 DEF CommandFiles, Pending
      <4> QED
        BY <1>3, <2>1, <3>1, <4>1 DEF CommandFiles
    <3> QED
      BY <2>1, <3>1, <3>3, <3>4, <3>5, <3>6 DEF CommandFiles, AddsOwnFile, Pending
  <2> QED
    BY <2>2, <2>3
<1>7. package' # None => package'.version.atts \subseteq package'.files
  BY DEF FInv
<1>8. \A t \in Tabs : tab'[t] # None => tab'[t].act <= activations'
  BY DEF FInv
<1> QED
  BY <1>5, <1>6, <1>7, <1>8 DEF FInv

\* The first checkpoint refers to no file, and no operation is in progress.
LEMMA InitFiles == Init => FInv
<1> SUFFICES ASSUME Init PROVE FInv
  OBVIOUS
<1>1. /\ Stored = FirstVersion /\ FirstVersion.atts = {} /\ FirstVersion.act = 0
      /\ row = FirstVersion
  BY DEF Init, Stored, FirstVersion
<1>2. ASSUME NEW f PROVE ~Referred(f)
  <2>1. RetainedWorks = {Changes(FirstVersion)}
    BY DEF Init, RetainedWorks
  <2> QED
    BY <1>1, <2>1, FileChanges DEF Referred
<1>3. ASSUME NEW s \in Tabs PROVE CommandFiles(s)
  <2>1. \A t \in Tabs : /\ cmd[t] = NoCommand
                        /\ NoCommand.phase = "idle" /\ NoCommand.file = 0
    BY DEF Init, NoCommand
  <2>2. intakes = 0
    BY DEF Init
  <2> QED
    BY <2>1, <2>2 DEF CommandFiles, IntakeStored, Pending
<1>4. package = None /\ activations = 0 /\ \A s \in Tabs : tab[s] = FirstVersion
  BY DEF Init
<1> QED
  BY <1>1, <1>2, <1>3, <1>4 DEF FInv, ReferredFilesStored

\* What the stored project refers to is retained, so a pending intake is none
\* of its files.
LEMMA StoredFilesReferred ==
    ASSUME IInv, HInv, row # None, NEW f \in Stored.atts PROVE Referred(f)
BY StoredRetained, ReferredFiles

\* An operation begins: it reads the project, and changes nothing.
LEMMA ReadFiles ==
    ASSUME IInv, FInv, NEW s \in Tabs, NEW kind, NEW next, NEW view, NEW target,
           Reads(s, kind, next, view, target), kind # "IMPORT",
           UNCHANGED <<store, package, tab, shown, activations, intakes>>,
           cmd[s].phase # "refresh",
           kind \in Intents =>
               AddsOwnFile([kind |-> kind, prior |-> Stored, next |-> next,
                            file |-> cmd[s].file]),
           row # None /\ kind = "ATTACH" => cmd[s].file \in files
    PROVE  FInv'
<1> DEFINE c == [NoCommand EXCEPT !.phase = "read", !.kind = kind,
                                  !.prior = Stored, !.next = next,
                                  !.view = view, !.target = target,
                                  !.file = cmd[s].file]
<1>1. /\ c.phase = "read" /\ c.kind = kind /\ c.prior = Stored
      /\ c.next = next /\ c.file = cmd[s].file
      /\ cmd' = [cmd EXCEPT ![s] = c]
  BY DEF Reads, NoCommand
<1> HIDE DEF c
<1>2. c.kind \in Intents => AddsOwnFile(c)
  BY <1>1 DEF AddsOwnFile
<1>3. cmd'[s] = c
  BY <1>1 DEF IInv, TypeOK
<1>4. row # None => IntakeStored(s)'
  BY <1>1, <1>3 DEF IntakeStored, store
<1>5. Pending(c) => ~Referred(c.file)
  BY <1>1 DEF FInv, CommandFiles, Pending
<1>6. ReferredFilesStored' /\ intakes \in Nat /\ activations \in Nat
  BY DEF FInv, ReferredFilesStored, Stored, store, IInv, TypeOK
<1>7. Quiet(s, c)
  BY <1>1, <1>6 DEF Quiet, store
<1>8. Fulfils(s, c)
  BY <1>1, <1>2, <1>4, <1>5 DEF Fulfils
<1> QED
  BY <1>7, <1>8, QuietFiles

\* An intake stores its file before any version refers to it; what else begins
\* changes no file.
LEMMA BeginFiles ==
    ASSUME IInv, HInv, FInv, NEW s \in Tabs, Begin(s) PROVE FInv'
<1> USE DEF store
<1>1. CASE StoreFile(s)
  <2> DEFINE c == [NoCommand EXCEPT !.phase = "stored", !.file = intakes']
  <2>1. /\ c.phase = "stored" /\ c.file = intakes + 1 /\ c.prior = None
        /\ intakes' = intakes + 1
        /\ cmd' = [cmd EXCEPT ![s] = c]
        /\ UNCHANGED <<row, journal, hist, package, tab, activations>>
        /\ files' = files \cup {intakes'}
    BY <1>1 DEF StoreFile, NoCommand
  <2> HIDE DEF c
  <2>2. intakes \in Nat /\ activations \in Nat /\ cmd'[s] = c
    BY <2>1 DEF IInv, TypeOK
  <2>3. ReferredFilesStored'
    BY <2>1 DEF FInv, ReferredFilesStored, Stored
  <2>4. IntakeStored(s)'
    BY <2>1, <2>2 DEF IntakeStored
  <2>5. ~Referred(c.file)
    BY <2>1, <2>2 DEF FInv
  <2> QED
    <3>1. Quiet(s, c)
      BY <2>1, <2>2, <2>3 DEF Quiet
    <3>2. Fulfils(s, c)
      BY <2>1, <2>3, <2>4, <2>5 DEF Fulfils
    <3> QED
      BY <3>1, <3>2, QuietFiles
<1>2. ASSUME NEW kind \in Intents, Submit(s, kind) PROVE FInv'
  <2>1. /\ tab[s] # None /\ Stored = tab[s]
        /\ cmd[s].phase \in {"stored", "idle"}
        /\ kind = "ATTACH" => cmd[s].phase = "stored"
        /\ UNCHANGED <<store, package, tab, shown, activations, intakes>>
    BY <1>2 DEF Submit, Starts, SubmitsCurrent
  <2>2. PICK candidate \in Candidates(s, kind), view \in Views :
            Reads(s, kind, Revised(kind, candidate), view, 0)
    BY <1>2 DEF Submit
  <2> DEFINE next == Revised(kind, candidate)
             own == IF kind = "ATTACH" THEN {cmd[s].file} ELSE {}
  <2>3. Stored \in Version
    BY <2>1, CommandType
  <2>4. candidate \in Version /\ candidate.atts \subseteq Stored.atts \cup own
    <3>1. kind \in {"WRITE", "OPERATE", "ATTACH"} /\ cmd[s].file \in Nat
      BY DEF Intents, IInv, TypeOK, Command
    <3> QED
      BY <2>1, <2>2, <2>3, <3>1 DEF Candidates, Version
  <2>5. next.atts \subseteq Stored.atts \cup own
    BY <2>4 DEF Revised, Version
  <2>6. AddsOwnFile([kind |-> kind, prior |-> Stored, next |-> next,
                     file |-> cmd[s].file])
    BY <2>5 DEF AddsOwnFile
  <2>7. row # None /\ kind = "ATTACH" => cmd[s].file \in files
    BY <2>1 DEF FInv, CommandFiles, IntakeStored
  <2>8. kind # "IMPORT"
    BY DEF Intents
  <2> HIDE DEF next
  <2> QED
    BY <2>1, <2>2, <2>6, <2>7, <2>8, ReadFiles DEF next
<1>3. ASSUME NEW kind \in Intents, SubmitStale(s, kind) PROVE FInv'
  <2> DEFINE c == [cmd[s] EXCEPT !.phase = "conflict"]
  <2>1. /\ c.phase = "conflict" /\ c.file = cmd[s].file /\ c.prior = cmd[s].prior
        /\ cmd' = [cmd EXCEPT ![s] = c] /\ cmd'[s] = c
        /\ cmd[s].phase # "refresh"
        /\ UNCHANGED <<row, journal, hist, files, package, tab, activations, intakes>>
    BY <1>3 DEF SubmitStale, Starts, IInv, TypeOK, Command
  <2> HIDE DEF c
  <2>2. ReferredFilesStored' /\ intakes \in Nat /\ activations \in Nat
    BY <2>1 DEF FInv, ReferredFilesStored, Stored, IInv, TypeOK
  <2>3. IntakeStored(s)'
    BY <2>1 DEF IntakeStored
  <2>4. Pending(c) => ~Referred(c.file)
    BY <2>1 DEF FInv, CommandFiles, Pending
  <2> QED
    <3>1. Quiet(s, c)
      BY <2>1, <2>2 DEF Quiet
    <3>2. Fulfils(s, c)
      BY <2>1, <2>3, <2>4 DEF Fulfils
    <3> QED
      BY <3>1, <3>2, QuietFiles
<1>4. CASE BeginView(s)
  BY <1>4, ReadFiles DEF BeginView, Starts, Intents
<1>5. ASSUME NEW mode \in Restores, BeginRestore(s, mode) PROVE FInv'
  <2>1. mode \notin Intents \cup {"IMPORT", "ATTACH"}
    BY DEF Restores, Intents
  <2> QED
    BY <1>5, <2>1, ReadFiles DEF BeginRestore, Starts
<1>6. CASE BeginRemove(s)
  BY <1>6, ReadFiles DEF BeginRemove, Starts, Intents
<1>7. CASE BeginImport(s)
  <2> DEFINE c == [NoCommand EXCEPT !.phase = "read", !.kind = "IMPORT",
                                    !.prior = Stored, !.next = package.version,
                                    !.view = package.view,
                                    !.target = package.active,
                                    !.files = package.files]
  <2>1. /\ c.phase = "read" /\ c.kind = "IMPORT" /\ c.prior = Stored
        /\ c.next = package.version /\ c.files = package.files /\ c.file = 0
        /\ cmd' = [cmd EXCEPT ![s] = c]
        /\ UNCHANGED <<row, journal, hist, files, package, tab, activations, intakes>>
        /\ package # None
    BY <1>7 DEF BeginImport, NoCommand
  <2> HIDE DEF c
  <2>2. /\ ReferredFilesStored' /\ intakes \in Nat /\ activations \in Nat
        /\ cmd'[s] = c
    BY <2>1 DEF FInv, ReferredFilesStored, Stored, IInv, TypeOK
  <2>3. IntakeStored(s)'
    BY <2>1, <2>2 DEF IntakeStored
  <2>4. c.next.atts \subseteq c.files
    BY <2>1 DEF FInv
  <2>5. "IMPORT" \notin Intents
    BY DEF Intents
  <2> QED
    <3>1. Quiet(s, c)
      BY <2>1, <2>2 DEF Quiet
    <3>2. Fulfils(s, c)
      BY <2>1, <2>3, <2>4, <2>5 DEF Fulfils, Pending
    <3> QED
      BY <3>1, <3>2, QuietFiles
<1> QED
  BY <1>1, <1>2, <1>3, <1>4, <1>5, <1>6, <1>7 DEF Begin

\* A checkpoint is ready: the project and its files stay as they are.
LEMMA ReadyFiles ==
    ASSUME IInv, FInv, NEW s \in Tabs, cmd[s].phase = "read",
           NEW next, NEW fs, NEW plan, Readies(s, next, fs, plan),
           UNCHANGED <<store, package, tab, shown, intakes>>,
           activations' \in Nat, activations <= activations',
           cmd[s].kind \in Intents => next = cmd[s].next,
           cmd[s].kind \in Activations =>
               /\ next.act = activations + 1
               /\ Stored = cmd[s].prior => next.atts \subseteq fs
    PROVE  FInv'
<1> DEFINE c == [cmd[s] EXCEPT !.phase = "ready", !.next = next, !.files = fs,
                               !.gen = hist.gen, !.plan = plan]
<1>1. /\ c.phase = "ready" /\ c.next = next /\ c.files = fs
      /\ c.kind = cmd[s].kind /\ c.prior = cmd[s].prior /\ c.file = cmd[s].file
      /\ cmd' = [cmd EXCEPT ![s] = c] /\ cmd'[s] = c
  BY DEF Readies, IInv, TypeOK, Command
<1> HIDE DEF c
<1>2. /\ \A t \in Tabs : tab[t] # None =>
             tab[t].act \in Nat /\ tab[t].act <= activations
      /\ \A t \in Tabs : cmd[t].prior # None =>
             cmd[t].prior.act \in Nat /\ cmd[t].prior.act <= activations
      /\ row # None => Stored.act \in Nat /\ Stored.act <= activations
      /\ activations \in Nat /\ intakes \in Nat
  <2>1. /\ Stored \in Version \cup {None}
        /\ Stored = None <=> row = None
        /\ Stored # None => Stored.act <= activations
    BY CommandType
  <2>2. \A t \in Tabs : /\ tab[t] \in Version \cup {None}
                        /\ cmd[t].prior \in Version \cup {None}
    BY DEF IInv, TypeOK, Command
  <2>3. activations \in Nat /\ intakes \in Nat
    BY DEF IInv, TypeOK
  <2>4. \A t \in Tabs : cmd[t].prior # None => cmd[t].prior.act <= activations
    BY DEF IInv, ActivationsDrawn
  <2>5. \A t \in Tabs : tab[t] # None => tab[t].act <= activations
    BY DEF FInv
  <2>6. \A v \in Version : v.act \in Nat
    BY DEF Version
  <2>7. \A t \in Tabs : tab[t] # None => tab[t].act \in Nat
    BY <2>2, <2>6
  <2>8. \A t \in Tabs : cmd[t].prior # None => cmd[t].prior.act \in Nat
    BY <2>2, <2>6
  <2>9. row # None => Stored.act \in Nat
    BY <2>1, <2>6
  <2> QED
    BY <2>1, <2>3, <2>4, <2>5, <2>7, <2>8, <2>9
<1>3. c.kind \in Activations => BringsFiles(c)
  BY <1>1, <1>2 DEF BringsFiles, DrawnLast
<1>4. c.kind \in Intents => AddsOwnFile(c)
  BY <1>1 DEF FInv, CommandFiles, AddsOwnFile
<1>5. row # None => IntakeStored(s)'
  <2>1. Stored' = Stored
    BY DEF Stored, store
  <2>2. row # None => IntakeStored(s)
    BY DEF FInv, CommandFiles
  <2> QED
    BY <1>1, <2>1, <2>2 DEF IntakeStored, store
<1>6. Pending(c) => ~Referred(c.file)
  BY <1>1 DEF FInv, CommandFiles, Pending
<1>7. ReferredFilesStored'
  BY DEF FInv, ReferredFilesStored, Stored, store
<1>8. Quiet(s, c)
  BY <1>1, <1>2, <1>7 DEF Quiet, store
<1>9. Fulfils(s, c)
  BY <1>1, <1>3, <1>4, <1>5, <1>6 DEF Fulfils
<1> QED
  BY <1>8, <1>9, QuietFiles

\* A restoration brings the files its entry retains, a backup those it carries.
LEMMA PrepareFiles ==
    ASSUME IInv, HInv, FInv, NEW s \in Tabs, Prepare(s) PROVE FInv'
<1>1. activations \in Nat
  BY DEF IInv, TypeOK
<1>2. CASE PrepareWrite(s)
  <2>1. cmd[s].kind \in Intents /\ cmd[s].kind \notin Activations
    BY <1>2 DEF PrepareWrite, Prepares, Intents, Activations, Restores
  <2> QED
    BY <1>1, <1>2, <2>1, ReadyFiles DEF PrepareWrite, Prepares
<1>3. CASE PrepareView(s)
  BY <1>1, <1>3, ReadyFiles
     DEF PrepareView, Prepares, Intents, Activations, Restores
<1>4. CASE PrepareStaleView(s)
  BY <1>1, <1>4, ReadyFiles
     DEF PrepareStaleView, Prepares, Intents, Activations, Restores
<1>5. CASE PrepareRestore(s)
  <2> DEFINE id == cmd[s].target
             saved == hist.entries[id]
             rev == Larger(KnownRevision(s), saved.version.rev) + 1
             next == [saved.version EXCEPT !.rev = rev, !.act = activations + 1]
             plan == [Activated(hist, id, next, saved.view,
                                RestoredRedo(cmd[s].kind, id))
                          EXCEPT !.gen = hist.gen + 1]
  <2>1. /\ cmd[s].phase = "read" /\ cmd[s].kind \in Restores
        /\ id \in DOMAIN hist.entries
        /\ Readies(s, next, saved.files, plan)
        /\ activations' = activations + 1
        /\ UNCHANGED <<store, package, tab, shown, intakes>>
    BY <1>5 DEF PrepareRestore, Prepares
  <2>2. saved.version \in Version /\ saved.version.atts \subseteq saved.files
    BY <2>1, EntryType DEF HInv, EntriesWhole, IInv, TypeOK
  <2>3. next.act = activations + 1 /\ next.atts = saved.version.atts
    BY <2>2 DEF Version
  <2>4. cmd[s].kind \notin Intents
    BY <2>1 DEF Intents, Restores
  <2> HIDE DEF next, plan
  <2> QED
    BY <1>1, <2>1, <2>2, <2>3, <2>4, ReadyFiles
<1>6. CASE PrepareRemove(s)
  BY <1>1, <1>6, ReadyFiles
     DEF PrepareRemove, Prepares, Intents, Activations, Restores
<1>7. CASE PrepareImport(s) \/ PrepareImportOverDamage(s)
  <2>0. PICK kept \in SUBSET Nat : ImportOver(s, kept)
    BY <1>7, ImportsOver
  <2>1. PICK next, plan :
          /\ cmd[s].phase = "read" /\ cmd[s].kind = "IMPORT"
          /\ next = [cmd[s].next EXCEPT
                        !.rev = ImportedRevision(cmd[s].prior, cmd[s].next),
                        !.act = activations + 1]
          /\ Readies(s, next, cmd[s].files, plan)
          /\ activations' = activations + 1
          /\ UNCHANGED <<store, package, tab, shown, intakes>>
    BY <2>0 DEF ImportOver, Prepares
  <2>2. cmd[s].next \in Version /\ cmd[s].next.atts \subseteq cmd[s].files
    BY <2>1 DEF IInv, OperationsBound, Begun, FInv, CommandFiles
  <2>3. next.act = activations + 1 /\ next.atts = cmd[s].next.atts
    BY <2>1, <2>2 DEF Version
  <2>4. cmd[s].kind \notin Intents
    BY <2>1 DEF Intents
  <2>5. /\ cmd[s].phase = "read"
        /\ Readies(s, next, cmd[s].files, plan)
        /\ activations' = activations + 1
        /\ UNCHANGED <<store, package, tab, shown, intakes>>
    BY <2>1
  <2> QED
    BY <1>1, <2>2, <2>3, <2>4, <2>5, ReadyFiles
<1> QED
  BY <1>2, <1>3, <1>4, <1>5, <1>6, <1>7 DEF Prepare

\* Of the operations that end without a commit only a failed intake deletes a
\* file, and no version refers to it: none of a committed intake is deleted.
LEMMA ConcludeFiles ==
    ASSUME ~BoundaryFails, IInv, HInv, FInv, NEW s \in Tabs, Conclude(s)
    PROVE  FInv'
<1> USE DEF store
<1>1. /\ NoCommand.phase = "idle" /\ NoCommand.file = 0 /\ NoCommand.prior = None
      /\ intakes \in Nat /\ activations \in Nat
      /\ cmd = [cmd EXCEPT ![s] = cmd[s]]
  BY DEF NoCommand, IInv, TypeOK
<1>2. UNCHANGED <<row, journal, files>> => ReferredFilesStored'
  BY DEF FInv, ReferredFilesStored, Stored
<1>3. ASSUME NEW c, cmd' = [cmd EXCEPT ![s] = c], c.prior = None,
             c.phase \in {"idle", "conflict", "cleanup"},
             \/ c.file = 0 /\ c.phase # "cleanup"
             \/ c.file = cmd[s].file /\ c.file # 0 /\ cmd[s].phase # "refresh",
             UNCHANGED <<row, journal, hist, activations, intakes>>,
             \A t \in Tabs \ {s} : tab'[t] = tab[t],
             tab'[s] \in {tab[s], Stored, None},
             \A f \in files : f \in files' \/ (f = cmd[s].file /\ f # 0),
             ReferredFilesStored', UNCHANGED package
      PROVE  FInv'
  <2>1. cmd'[s] = c
    BY <1>3 DEF IInv, TypeOK
  <2>2. IntakeStored(s)'
    BY <1>3, <2>1 DEF IntakeStored
  <2>3. Pending(c) => ~Referred(c.file)
    BY <1>3 DEF FInv, CommandFiles, Pending
  <2>4. Quiet(s, c)
    BY <1>1, <1>3 DEF Quiet
  <2>5. Fulfils(s, c)
    BY <1>3, <2>2, <2>3 DEF Fulfils
  <2> QED
    BY <2>4, <2>5, QuietFiles
<1>4. ASSUME Fails(s), cmd[s].phase # "refresh",
             UNCHANGED <<row, journal, hist, files, package, activations, intakes>>,
             \A t \in Tabs \ {s} : tab'[t] = tab[t],
             tab'[s] \in {tab[s], Stored, None}
      PROVE  FInv'
  <2>1. CASE cmd[s].file = 0
    BY <1>1, <1>2, <1>3, <1>4, <2>1 DEF Fails
  <2>2. CASE cmd[s].file # 0
    <3> DEFINE c == [NoCommand EXCEPT !.phase = "cleanup", !.file = cmd[s].file]
    <3>1. /\ c.phase = "cleanup" /\ c.file = cmd[s].file /\ c.prior = None
          /\ cmd' = [cmd EXCEPT ![s] = c]
      BY <1>4, <2>2 DEF Fails, NoCommand
    <3> HIDE DEF c
    <3> QED
      BY <1>2, <1>3, <1>4, <2>2, <3>1
  <2> QED
    BY <2>1, <2>2
<1>5. CASE AcknowledgeRemoval(s)
  <2>1. \A t \in Tabs \ {s} : tab'[t] = tab[t]
    BY <1>5 DEF AcknowledgeRemoval, Leaves, IInv, TypeOK
  <2>2. tab'[s] = None
    BY <1>5 DEF AcknowledgeRemoval, Leaves, IInv, TypeOK
  <2> QED
    BY <1>1, <1>2, <1>3, <1>5, <2>1, <2>2 DEF AcknowledgeRemoval, Leaves
<1>6. CASE CommitStale(s)
  <2> DEFINE c == [NoCommand EXCEPT !.phase = "conflict", !.file = cmd[s].file]
  <2>1. /\ c.phase = "conflict" /\ c.file = cmd[s].file /\ c.prior = None
        /\ cmd' = [cmd EXCEPT ![s] = c]
        /\ cmd[s].phase # "refresh"
        /\ UNCHANGED <<row, journal, hist, files, package, tab, activations, intakes>>
    BY <1>6 DEF CommitStale, NoCommand
  <2> HIDE DEF c
  <2> QED
    BY <1>2, <1>3, <2>1
<1>7. CASE Resync(s)
  <2>1. /\ \A t \in Tabs \ {s} : tab'[t] = tab[t]
        /\ tab'[s] \in {tab[s], Stored}
    BY <1>7 DEF Resync, IInv, TypeOK
  <2> QED
    BY <1>4, <1>7, <2>1 DEF Resync
<1>8. CASE Abandon(s)
  BY <1>4, <1>8 DEF Abandon
<1>9. CASE DeleteFile(s)
  <2>1. /\ files' = files \ {cmd[s].file} /\ cmd[s].phase = "cleanup"
        /\ cmd' = [cmd EXCEPT ![s] = NoCommand]
        /\ UNCHANGED <<row, journal, hist, package, tab, activations, intakes>>
    BY <1>9 DEF DeleteFile
  <2>2. cmd[s].file # 0 /\ ~Referred(cmd[s].file)
    BY <2>1 DEF FInv, CommandFiles, Pending
  <2>3. row # None => cmd[s].file \notin Stored.atts
    BY <2>2, StoredFilesReferred
  <2>4. ReferredFilesStored'
    BY <2>1, <2>3 DEF FInv, ReferredFilesStored, Stored
  <2>5. \A f \in files : f \in files' \/ (f = cmd[s].file /\ f # 0)
    BY <2>1, <2>2
  <2> QED
    BY <1>1, <1>3, <2>1, <2>4, <2>5
<1>10. CASE Refresh(s)
  BY <1>1, <1>2, <1>3, <1>10 DEF Refresh
<1>11. CASE Reload(s)
  <2>1. /\ \A t \in Tabs \ {s} : tab'[t] = tab[t]
        /\ tab'[s] = Stored
    BY <1>11 DEF Reload, IInv, TypeOK
  <2> QED
    BY <1>1, <1>2, <1>3, <1>11, <2>1 DEF Reload
<1>12. CASE Export(s)
  <2>1. /\ UNCHANGED <<row, journal, hist, files, tab, cmd, activations, intakes>>
        /\ package'.version = Stored /\ package'.files = files
        /\ Stored.atts \subseteq files
    BY <1>12 DEF Export
  <2>2. Quiet(s, cmd[s])
    BY <1>1, <1>2, <2>1 DEF Quiet
  <2>3. IntakeStored(s)' <=> IntakeStored(s)
    BY <2>1 DEF IntakeStored, Stored
  <2>4. Fulfils(s, cmd[s])
    BY <2>3 DEF Fulfils, FInv, CommandFiles
  <2> QED
    BY <2>2, <2>4, QuietFiles
<1> QED
  BY <1>5, <1>6, <1>7, <1>8, <1>9, <1>10, <1>11, <1>12 DEF Conclude, FailBoundary

\* Within an activation a commit keeps every file and adds at most its own;
\* an activation brings the files of what it puts back; a removal ends both.
LEMMA CommitFiles ==
    ASSUME IInv, HInv, FInv, NEW s \in Tabs, Commit(s) PROVE FInv'
<1>1. /\ cmd[s] \in Command /\ cmd[s].phase = "ready"
      /\ Begun(cmd[s]) /\ Prepared(cmd[s])
      /\ Stored = cmd[s].prior /\ cmd[s].gen = hist.gen
  BY CommitFacts DEF Commit, CommitWrite, CommitOperate, CommitView,
                     CommitActivation, CommitRemove
<1>2. /\ Stored = None <=> row = None
      /\ Stored # None => Stored.act <= activations
  BY CommandType
<1>3. ASSUME NEW kinds, Commits(s, kinds), Committed(s),
             UNCHANGED <<package, intakes, activations>>,
             tab' \in {tab, [tab EXCEPT ![s] = cmd[s].next]},
             cmd[s].kind # "VIEW" => cmd[s].next.act <= activations,
             cmd[s].kind = "VIEW" => tab' = tab,
             ReferredFilesStored',
             row' # None =>
                 \/ row # None /\ Stored'.act = Stored.act /\ files' = files
                 \/ \A t \in Tabs : /\ tab[t] # None => tab[t].act < Stored'.act
                                    /\ cmd[t].prior # None => cmd[t].prior.act < Stored'.act
      PROVE  FInv'
  <2>1. /\ cmd'[s].phase = "refresh" /\ cmd'[s].file = cmd[s].file
    BY <1>3 DEF Committed, NoCommand, IInv, TypeOK
  <2>2. \A t \in Tabs \ {s} : tab'[t] = tab[t]
    BY <1>3 DEF IInv, TypeOK
  <2>3. tab'[s] # None => tab'[s].act <= activations
    <3>1. tab'[s] = tab[s] \/ (tab'[s] = cmd[s].next /\ cmd[s].kind # "VIEW")
      BY <1>3 DEF IInv, TypeOK
    <3>2. tab[s] # None => tab[s].act <= activations
      BY DEF FInv
    <3> QED
      BY <1>3, <3>1, <3>2
  <2>4. ~Pending(cmd'[s])
    BY <2>1 DEF Pending
  <2> QED
    BY <1>3, <2>1, <2>2, <2>3, <2>4, CommitFilesStep
<1>4. CASE CommitWrite(s) \/ CommitOperate(s)
  <2>1. /\ Saves(cmd[s]) /\ row \in Version /\ row' \in Version
        /\ Stored' = cmd[s].next /\ cmd[s].next.act = Stored.act
        /\ files' = files
    BY <1>1, <1>4, SaveStores DEF CommitWrite, CommitOperate, Saves
  <2>2. row # None /\ cmd[s].kind \in Intents /\ cmd[s].kind # "VIEW"
    BY <1>1, <1>4, <2>1, NoneIsDistinct
       DEF CommitWrite, CommitOperate, Commits, Intents
  <2>3. cmd[s].next.atts \subseteq files
    <3>1. AddsOwnFile(cmd[s]) /\ IntakeStored(s)
      BY <1>1, <2>2 DEF FInv, CommandFiles
    <3>2. cmd[s].kind = "ATTACH" => cmd[s].file \in files
      BY <1>1, <3>1 DEF IntakeStored
    <3>3. Stored.atts \subseteq files
      BY <2>2 DEF FInv, ReferredFilesStored
    <3> QED
      BY <1>1, <3>1, <3>2, <3>3 DEF AddsOwnFile
  <2>4. ReferredFilesStored'
    BY <2>1, <2>3 DEF ReferredFilesStored
  <2>5. cmd[s].next.act <= activations
    BY <1>2, <2>1, <2>2
  <2> QED
    BY <1>3, <1>4, <2>1, <2>2, <2>4, <2>5 DEF CommitWrite, CommitOperate
<1>5. CASE CommitView(s)
  <2>1. /\ Commits(s, {"VIEW"}) /\ Committed(s) /\ cmd[s].kind = "VIEW"
        /\ UNCHANGED <<row, journal, files, tab, package, intakes, activations>>
    BY <1>5 DEF CommitView, Commits
  <2>2. Stored' = Stored /\ ReferredFilesStored'
    BY <2>1 DEF FInv, ReferredFilesStored, Stored
  <2> QED
    BY <1>3, <2>1, <2>2
<1>6. CASE CommitActivation(s)
  <2>1. /\ Commits(s, Restores \cup {"IMPORT"}) /\ Committed(s)
        /\ cmd[s].kind \in Activations /\ cmd[s].kind # "VIEW"
        /\ row' = cmd[s].next /\ journal' = None /\ files' = cmd[s].files
        /\ tab' = [tab EXCEPT ![s] = cmd[s].next]
        /\ UNCHANGED <<package, intakes, activations>>
    BY <1>6 DEF CommitActivation, Commits, Activations, Restores
  <2>2. Stored' = cmd[s].next
    BY <2>1 DEF Stored
  <2>3. BringsFiles(cmd[s])
    BY <1>1, <2>1 DEF FInv, CommandFiles
  <2>4. ReferredFilesStored'
    BY <1>1, <2>1, <2>2, <2>3 DEF BringsFiles, ReferredFilesStored
  <2>5. cmd[s].next.act <= activations
    BY <1>1, <2>1 DEF Prepared
  <2> QED
    BY <1>1, <1>3, <2>1, <2>2, <2>3, <2>4, <2>5 DEF BringsFiles, DrawnLast
<1>7. CASE CommitRemove(s)
  <2>1. /\ Commits(s, {"REMOVE"}) /\ row' = None
        /\ cmd'[s] = NoCommand /\ tab'[s] = None
        /\ \A t \in Tabs \ {s} : tab'[t] = tab[t]
        /\ UNCHANGED <<package, intakes, activations>>
    BY <1>7 DEF CommitRemove, Leaves, IInv, TypeOK
  <2>2. cmd'[s].phase = "idle" /\ cmd'[s].file = 0 /\ ~Pending(cmd'[s])
    BY <2>1 DEF NoCommand, Pending
  <2>3. ReferredFilesStored'
    BY <2>1 DEF ReferredFilesStored
  <2> QED
    BY <2>1, <2>2, <2>3, CommitFilesStep
<1> QED
  BY <1>4, <1>5, <1>6, <1>7 DEF Commit

\* Every step keeps FInv where bookkeeping does not fail after a commit.
LEMMA StepFiles ==
    ASSUME ~BoundaryFails
    PROVE  IInv /\ IInv' /\ HInv /\ FInv /\ [Next]_vars => FInv'
<1> SUFFICES ASSUME IInv, HInv, FInv, [Next]_vars PROVE FInv'
  OBVIOUS
<1>1. CASE UNCHANGED vars
  <2>1. UNCHANGED <<row, journal, hist, files, package, tab, cmd, activations, intakes>>
    BY <1>1 DEF vars, store
  <2>2. Stored' = Stored /\ RetainedWorks' = RetainedWorks
    BY <2>1 DEF Stored, RetainedWorks
  <2> QED
    BY <2>1, <2>2 DEF FInv, ReferredFilesStored, CommandFiles, IntakeStored,
                      BringsFiles, DrawnLast, AddsOwnFile, Pending, Referred
<1>2. ASSUME NEW s \in Tabs, Begin(s) \/ Prepare(s) \/ Commit(s) \/ Conclude(s)
      PROVE  FInv'
  BY <1>2, BeginFiles, PrepareFiles, CommitFiles, ConcludeFiles
<1> QED
  BY <1>1, <1>2 DEF Next

\* FInv holds in every state of such a store.
LEMMA FilesInvariance ==
    ASSUME ~BoundaryFails PROVE Spec => []FInv
<1>1. Init => FInv
  BY InitFiles
<1>2. IInv /\ IInv' /\ HInv /\ FInv /\ [Next]_vars => FInv'
  BY StepFiles
<1> QED
  BY <1>1, <1>2, HistoryInvariance, PTL DEF Spec

\* The stored project never refers to a file whose bytes are not stored: no
\* interleaving of intakes, failed intakes, restorations and removals of any
\* number of tabs loses the bytes of a file in use, as long as no tab takes a
\* committed intake for a failed one.
THEOREM ReferredFilesKept ==
    ASSUME ~BoundaryFails PROVE Spec => []ReferredFilesStored
<1>1. FInv => ReferredFilesStored
  BY DEF FInv
<1> QED
  BY <1>1, FilesInvariance, PTL
-----------------------------------------------------------------------------
(* Tabs and revisions, on top of both invariants.                          *)

\* No operator brings a backup back after a removal; its revision may have
\* been used.
NoReturnAfterRemoval == "IMPORT" \notin Commands \/ "REMOVE" \notin Commands

\* The plan of an operation records the revision of the version it leaves.
PlanNumbered(c) ==
    c.phase = "ready" /\ c.gen = hist.gen /\ Stored = c.prior =>
        c.plan.activeRev = KeptVersion(c.kind, c.prior, c.next).rev

\* A tab holds the last version that was stored or an earlier one, and tells
\* the stored one by its revision.
NotAhead(v) ==
    v # None => /\ v.rev <= hist.activeRev
                /\ row # None /\ v.rev = row.rev => v.act = row.act

\* A submission was made from the version of its tab; what a restoration read
\* had the revision of its tab.
ReadAsHeld(v, c) ==
    /\ c.phase \in {"read", "ready"} /\ c.kind \in Intents => v = c.prior
    /\ c.phase = "ready" /\ c.kind \in Restores /\ c.prior # None /\ v # None =>
           v.rev = c.prior.rev

RInv ==
    /\ row # None => hist.activeRev = row.rev
    /\ "REMOVE" \notin Commands => row # None
    /\ \A s \in Tabs : PlanNumbered(cmd[s])
    /\ \A s \in Tabs : NotAhead(tab[s])
    /\ \A s \in Tabs : ReadAsHeld(tab[s], cmd[s])

\* The first version is the one every tab holds.
LEMMA InitRevisions == Init => RInv
<1> SUFFICES ASSUME Init PROVE RInv
  OBVIOUS
<1>1. /\ row = FirstVersion /\ FirstVersion.rev = 0 /\ hist.activeRev = 0
      /\ FirstVersion \in Version
  BY DEF Init, FirstVersion, Version
<1>2. ASSUME NEW s \in Tabs
      PROVE  cmd[s].phase = "idle" /\ tab[s] = FirstVersion
  BY DEF Init, NoCommand
<1> QED
  BY <1>1, <1>2, NoneIsDistinct DEF RInv, PlanNumbered, NotAhead, ReadAsHeld

\* A step of one tab that leaves the project and the History alone.
LEMMA QuietRevisions ==
    ASSUME IInv, RInv, NEW s \in Tabs, NEW c, cmd' = [cmd EXCEPT ![s] = c],
           UNCHANGED <<row, journal, hist>>,
           \A t \in Tabs \ {s} : tab'[t] = tab[t],
           tab'[s] \in {tab[s], Stored, None},
           PlanNumbered(c), ReadAsHeld(tab'[s], c)
    PROVE  RInv'
<1>1. /\ cmd'[s] = c /\ \A t \in Tabs \ {s} : cmd'[t] = cmd[t]
      /\ Stored' = Stored
      /\ row # None => Stored.rev = row.rev /\ Stored.act = row.act /\ row.rev \in Nat
      /\ row \in Version \cup {None} /\ (Stored = None <=> row = None)
  BY StoredType DEF IInv, TypeOK, Version, Stored
<1>2. ASSUME NEW t \in Tabs PROVE PlanNumbered(cmd[t])'
  BY <1>1 DEF RInv, PlanNumbered
<1>3. ASSUME NEW t \in Tabs PROVE NotAhead(tab[t])'
  <2>1. tab'[t] \in {tab[t], Stored, None}
    OBVIOUS
  <2> QED
    BY <1>1, <2>1 DEF RInv, NotAhead
<1>4. ASSUME NEW t \in Tabs PROVE ReadAsHeld(tab[t], cmd[t])'
  BY <1>1 DEF RInv, ReadAsHeld
<1> QED
  BY <1>2, <1>3, <1>4 DEF RInv

\* What begins or ends without a commit.
LEMMA BeginRevisions ==
    ASSUME IInv, RInv, NEW s \in Tabs, Begin(s) PROVE RInv'
<1> USE DEF store
<1>1. /\ cmd[s] \in Command /\ Stored \in Version \cup {None}
      /\ tab \in [Tabs -> Version \cup {None}]
  BY StoredType DEF IInv, TypeOK
<1>2. ASSUME NEW c, cmd' = [cmd EXCEPT ![s] = c], c.phase \notin {"read", "ready"},
             UNCHANGED <<row, journal, hist, tab>>
      PROVE  RInv'
  <2>1. PlanNumbered(c) /\ ReadAsHeld(tab'[s], c)
    BY <1>2 DEF PlanNumbered, ReadAsHeld
  <2> QED
    BY <1>2, <2>1, QuietRevisions
<1>3. ASSUME NEW kind, NEW next, NEW view, NEW target,
             Reads(s, kind, next, view, target),
             kind \in Intents => tab[s] = Stored,
             UNCHANGED <<row, journal, hist, tab>>
      PROVE  RInv'
  <2> DEFINE c == [NoCommand EXCEPT !.phase = "read", !.kind = kind,
                                    !.prior = Stored, !.next = next,
                                    !.view = view, !.target = target,
                                    !.file = cmd[s].file]
  <2>1. /\ c.phase = "read" /\ c.kind = kind /\ c.prior = Stored
        /\ cmd' = [cmd EXCEPT ![s] = c]
    BY <1>3 DEF Reads, NoCommand
  <2> HIDE DEF c
  <2>2. PlanNumbered(c) /\ ReadAsHeld(tab'[s], c)
    BY <1>3, <2>1 DEF PlanNumbered, ReadAsHeld
  <2> QED
    BY <1>3, <2>1, <2>2, QuietRevisions
<1>4. CASE StoreFile(s)
  <2> DEFINE c == [NoCommand EXCEPT !.phase = "stored", !.file = intakes']
  <2>1. c.phase = "stored" /\ cmd' = [cmd EXCEPT ![s] = c]
    BY <1>4 DEF StoreFile, NoCommand
  <2> HIDE DEF c
  <2> QED
    BY <1>2, <1>4, <2>1 DEF StoreFile
<1>5. ASSUME NEW kind \in Intents, Submit(s, kind) PROVE RInv'
  BY <1>3, <1>5 DEF Submit, SubmitsCurrent
<1>6. ASSUME NEW kind \in Intents, SubmitStale(s, kind) PROVE RInv'
  <2> DEFINE c == [cmd[s] EXCEPT !.phase = "conflict"]
  <2>1. c.phase = "conflict" /\ cmd' = [cmd EXCEPT ![s] = c]
    BY <1>1, <1>6 DEF SubmitStale, Command, IInv, TypeOK
  <2> HIDE DEF c
  <2> QED
    BY <1>2, <1>6, <2>1 DEF SubmitStale
<1>7. CASE BeginView(s)
  BY <1>3, <1>7 DEF BeginView, Intents
<1>8. ASSUME NEW mode \in Restores, BeginRestore(s, mode) PROVE RInv'
  BY <1>3, <1>8 DEF BeginRestore, Intents, Restores
<1>9. CASE BeginRemove(s)
  BY <1>3, <1>9 DEF BeginRemove, Intents
<1>10. CASE BeginImport(s)
  <2> DEFINE c == [NoCommand EXCEPT !.phase = "read", !.kind = "IMPORT",
                                    !.prior = Stored, !.next = package.version,
                                    !.view = package.view,
                                    !.target = package.active,
                                    !.files = package.files]
  <2>1. c.phase = "read" /\ c.kind = "IMPORT" /\ cmd' = [cmd EXCEPT ![s] = c]
    BY <1>10 DEF BeginImport, NoCommand
  <2> HIDE DEF c
  <2>2. PlanNumbered(c) /\ ReadAsHeld(tab'[s], c)
    BY <2>1 DEF PlanNumbered, ReadAsHeld, Intents
  <2> QED
    BY <1>10, <2>1, <2>2, QuietRevisions DEF BeginImport
<1> QED
  BY <1>4, <1>5, <1>6, <1>7, <1>8, <1>9, <1>10 DEF Begin

\* An operation that ends leaves its tab what it held, the stored project or
\* nothing.
LEMMA ConcludeRevisions ==
    ASSUME IInv, RInv, NEW s \in Tabs, Conclude(s) PROVE RInv'
<1> USE DEF store
<1>1. ASSUME NEW c, cmd' = [cmd EXCEPT ![s] = c], c.phase \notin {"read", "ready"},
             UNCHANGED <<row, journal, hist>>,
             NEW v \in {tab[s], Stored, None}, tab' = [tab EXCEPT ![s] = v]
      PROVE  RInv'
  <2>1. tab'[s] = v /\ \A t \in Tabs \ {s} : tab'[t] = tab[t]
    BY <1>1 DEF IInv, TypeOK
  <2>2. PlanNumbered(c) /\ ReadAsHeld(tab'[s], c)
    BY <1>1 DEF PlanNumbered, ReadAsHeld
  <2> QED
    BY <1>1, <2>1, <2>2, QuietRevisions
<1>2. tab = [tab EXCEPT ![s] = tab[s]] /\ NoCommand.phase = "idle"
  BY DEF IInv, TypeOK, NoCommand
<1>3. ASSUME Fails(s), UNCHANGED <<row, journal, hist>>,
             NEW v \in {tab[s], Stored, None}, tab' = [tab EXCEPT ![s] = v]
      PROVE  RInv'
  <2> DEFINE c == [NoCommand EXCEPT !.phase = "cleanup", !.file = cmd[s].file]
  <2>1. c.phase = "cleanup"
    BY DEF NoCommand
  <2>2. \/ cmd' = [cmd EXCEPT ![s] = NoCommand]
        \/ cmd' = [cmd EXCEPT ![s] = c]
    BY <1>3 DEF Fails
  <2> HIDE DEF c
  <2> QED
    BY <1>1, <1>2, <1>3, <2>1, <2>2
<1>4. CASE AcknowledgeRemoval(s)
  BY <1>1, <1>2, <1>4 DEF AcknowledgeRemoval, Leaves
<1>5. CASE CommitStale(s)
  <2> DEFINE c == [NoCommand EXCEPT !.phase = "conflict", !.file = cmd[s].file]
  <2>1. c.phase = "conflict" /\ cmd' = [cmd EXCEPT ![s] = c]
    BY <1>5 DEF CommitStale, NoCommand
  <2> HIDE DEF c
  <2> QED
    BY <1>1, <1>2, <1>5, <2>1 DEF CommitStale
<1>6. CASE Resync(s)
  <2>1. tab' = [tab EXCEPT ![s] = tab[s]] \/ tab' = [tab EXCEPT ![s] = Stored]
    BY <1>6 DEF Resync
  <2> QED
    BY <1>3, <1>6, <2>1 DEF Resync
<1>7. CASE Abandon(s) \/ FailBoundary(s)
  BY <1>2, <1>3, <1>7 DEF Abandon, FailBoundary
<1>8. CASE DeleteFile(s) \/ Refresh(s)
  BY <1>1, <1>2, <1>8 DEF DeleteFile, Refresh
<1>9. CASE Reload(s)
  BY <1>1, <1>2, <1>9 DEF Reload
<1>10. CASE Export(s)
  <2>1. UNCHANGED <<row, journal, hist, tab, cmd>> /\ Stored' = Stored
    BY <1>10 DEF Export, Stored
  <2> QED
    BY <2>1 DEF RInv, PlanNumbered, NotAhead, ReadAsHeld
<1> QED
  BY <1>4, <1>5, <1>6, <1>7, <1>8, <1>9, <1>10 DEF Conclude

\* The revision a prepared History records.
LEMMA PreparedRevision ==
    ASSUME NEW h \in History, NEW next \in Version,
           NEW prior \in Version \cup {None},
           NEW view \in Views \cup {None}, NEW fs \in SUBSET Nat
    PROVE  PrepareHistory(h, next, prior, view, fs).activeRev = next.rev
<1> DEFINE h1 == WithPrevious(h, prior, view, fs)
           h2 == WithNext(h1, next, prior, view, fs)
<1>1. h1 \in History
  BY AppendEntryType DEF WithPrevious
<1>2. h2 \in History
  <2>1. h2 = AppendEntry(h1, next, view, fs) \/ h2 = h1
    BY DEF WithNext
  <2> HIDE DEF h1, h2
  <2> QED
    BY <1>1, <2>1, AppendEntryType
<1>3. PrepareHistory(h, next, prior, view, fs) =
          [h2 EXCEPT !.redo = IF next = prior THEN h.redo ELSE @,
                     !.activeRev = next.rev, !.removed = FALSE, !.gen = h.gen + 1]
  BY DEF PrepareHistory
<1> HIDE DEF h1, h2
<1> QED
  BY <1>2, <1>3 DEF History

\* A prepared operation, ready to commit.
LEMMA ReadyRevisions ==
    ASSUME IInv, RInv, NEW s \in Tabs, cmd[s].phase = "read",
           NEW next, NEW fs, NEW plan, Readies(s, next, fs, plan),
           UNCHANGED <<row, journal, hist, tab>>,
           Stored = cmd[s].prior =>
               plan.activeRev = KeptVersion(cmd[s].kind, cmd[s].prior, next).rev,
           cmd[s].kind \in Restores /\ cmd[s].prior # None /\ tab[s] # None =>
               tab[s].rev = cmd[s].prior.rev
    PROVE  RInv'
<1> DEFINE c == [cmd[s] EXCEPT !.phase = "ready", !.next = next,
                               !.files = fs, !.gen = hist.gen, !.plan = plan]
<1>1. cmd[s] \in Command
  BY DEF IInv, TypeOK
<1>2. /\ c.phase = "ready" /\ c.kind = cmd[s].kind /\ c.prior = cmd[s].prior
      /\ c.next = next /\ c.plan = plan
  BY <1>1 DEF Command
<1>3. cmd' = [cmd EXCEPT ![s] = c]
  BY DEF Readies
<1> HIDE DEF c
<1>4. PlanNumbered(c) /\ ReadAsHeld(tab'[s], c)
  BY <1>2 DEF PlanNumbered, ReadAsHeld, RInv
<1> QED
  BY <1>3, <1>4, QuietRevisions

\* A save, a view or a removal records the revision it leaves.
LEMMA PrepareSaveRevisions ==
    ASSUME IInv, RInv, NEW s \in Tabs,
           PrepareWrite(s) \/ PrepareView(s) \/ PrepareRemove(s)
    PROVE  RInv'
<1> USE DEF store
<1>1. /\ cmd[s] \in Command /\ cmd[s].prior \in Version \cup {None}
      /\ cmd[s].view \in Views \cup {None}
      /\ cmd[s].phase = "read" => Begun(cmd[s])
      /\ hist \in History /\ files \in SUBSET Nat
  BY DEF IInv, TypeOK, Command, OperationsBound
<1> DEFINE prior == cmd[s].prior
           view == cmd[s].view
<1>2. CASE PrepareWrite(s)
  <2> DEFINE next == cmd[s].next
             plan == PrepareHistory(hist, next, prior, view, files)
  <2>1. /\ cmd[s].phase = "read" /\ cmd[s].kind \in Intents
        /\ Readies(s, next, {}, plan)
        /\ UNCHANGED <<row, journal, hist, tab>>
    BY <1>2 DEF PrepareWrite, Prepares
  <2>2. next \in Version /\ cmd[s].kind \notin {"VIEW", "REMOVE"} \cup Restores
    BY <1>1, <2>1 DEF Begun, Saves, Intents, Restores
  <2> HIDE DEF next, prior, view
  <2>3. plan.activeRev = next.rev
    BY <1>1, <2>2, PreparedRevision DEF prior, view
  <2> HIDE DEF plan
  <2> QED
    BY <2>1, <2>2, <2>3, ReadyRevisions DEF KeptVersion
<1>3. CASE PrepareView(s)
  <2> DEFINE plan == PrepareHistory(hist, prior, prior, view, files)
  <2>1. /\ cmd[s].phase = "read" /\ cmd[s].kind = "VIEW"
        /\ Readies(s, cmd[s].next, {}, plan)
        /\ UNCHANGED <<row, journal, hist, tab>>
    BY <1>3 DEF PrepareView, Prepares
  <2>2. prior \in Version
    BY <1>1, <2>1 DEF Begun
  <2> HIDE DEF view
  <2>3. plan.activeRev = prior.rev
    BY <1>1, <2>2, PreparedRevision DEF view
  <2> HIDE DEF plan
  <2> QED
    BY <2>1, <2>2, <2>3, ReadyRevisions DEF KeptVersion, Restores
<1>4. CASE PrepareRemove(s)
  <2> DEFINE saved == PrepareHistory(hist, prior, prior, view, files)
             plan == [saved EXCEPT !.removed = TRUE]
  <2>1. /\ cmd[s].phase = "read" /\ cmd[s].kind = "REMOVE"
        /\ Readies(s, None, {}, plan)
        /\ UNCHANGED <<row, journal, hist, tab>>
    BY <1>4 DEF PrepareRemove, Prepares
  <2>2. prior \in Version
    BY <1>1, <2>1 DEF Begun
  <2> HIDE DEF view
  <2>3. saved \in History /\ saved.activeRev = prior.rev
    <3>1. saved.activeRev = prior.rev
      BY <1>1, <2>2, PreparedRevision DEF view
    <3>2. saved \in History
      BY <1>1, <2>2, PrepareHistoryType DEF view
    <3> QED
      BY <3>1, <3>2
  <2> HIDE DEF saved
  <2>4. plan.activeRev = prior.rev
    BY <2>3 DEF History
  <2> HIDE DEF plan
  <2> QED
    BY <2>1, <2>4, ReadyRevisions DEF KeptVersion, Restores
<1> QED
  BY <1>2, <1>3, <1>4

\* The view of a stale tab leaves the revision as it is.
LEMMA PrepareStaleRevisions ==
    ASSUME IInv, RInv, NEW s \in Tabs, PrepareStaleView(s) PROVE RInv'
<1> USE DEF store
<1>1. PICK i \in DOMAIN hist.entries :
          LET source == [hist EXCEPT !.active = i, !.head = cmd[s].next,
                                     !.override = None]
              saved == PrepareHistory(source, cmd[s].next, cmd[s].next,
                                      cmd[s].view, hist.entries[i].files)
          IN  Readies(s, cmd[s].next, {}, [hist EXCEPT !.entries = saved.entries,
                                                       !.gen = saved.gen])
  BY DEF PrepareStaleView
<1>2. PICK entries, gen :
          Readies(s, cmd[s].next, {}, [hist EXCEPT !.entries = entries, !.gen = gen])
  BY <1>1
<1>3. /\ cmd[s].phase = "read" /\ cmd[s].kind = "VIEW" /\ Begun(cmd[s])
      /\ UNCHANGED <<row, journal, hist, tab>>
      /\ cmd[s].prior \in Version
  BY DEF PrepareStaleView, Prepares, IInv, OperationsBound, Begun
<1> DEFINE plan == [hist EXCEPT !.entries = entries, !.gen = gen]
<1>4. plan.activeRev = hist.activeRev
  BY DEF IInv, TypeOK, History
<1>5. Stored = cmd[s].prior => hist.activeRev = cmd[s].prior.rev
  BY <1>3, StoredType, NoneIsDistinct DEF RInv, IInv, TypeOK
<1> HIDE DEF plan
<1> QED
  BY <1>2, <1>3, <1>4, <1>5, ReadyRevisions DEF KeptVersion, Restores, plan

\* A restoration goes ahead only from the revision its tab holds.
LEMMA PrepareRestoreRevisions ==
    ASSUME IInv, RInv, NEW s \in Tabs, PrepareRestore(s) PROVE RInv'
<1> USE DEF store
<1> DEFINE id == cmd[s].target
           entry == hist.entries[id]
           next == [entry.version EXCEPT
                       !.rev = Larger(KnownRevision(s), entry.version.rev) + 1,
                       !.act = activations + 1]
           redo == RestoredRedo(cmd[s].kind, id)
           plan == [Activated(hist, id, next, entry.view, redo)
                        EXCEPT !.gen = hist.gen + 1]
<1>1. /\ cmd[s].phase = "read" /\ cmd[s].kind \in Restores
      /\ Readies(s, next, entry.files, plan) /\ RevisionExpected(s)
      /\ UNCHANGED <<row, journal, hist, tab>>
  BY DEF PrepareRestore, Prepares
<1> HIDE DEF next, redo
<1>2. plan.activeRev = next.rev
  BY DEF IInv, TypeOK, History, Activated
<1>3. cmd[s].kind \notin {"VIEW", "REMOVE"}
  BY <1>1 DEF Restores
<1>4. cmd[s].prior # None /\ tab[s] # None => tab[s].rev = cmd[s].prior.rev
  BY <1>1 DEF RevisionExpected, KnownRevision
<1> HIDE DEF plan, entry
<1> QED
  BY <1>1, <1>2, <1>3, <1>4, ReadyRevisions DEF KeptVersion

\* So does an import, whose revision is its own.
LEMMA PrepareImportRevisions ==
    ASSUME IInv, RInv, NEW s \in Tabs, NEW kept \in SUBSET Nat,
           ImportOver(s, kept)
    PROVE  RInv'
<1> USE DEF store
<1>1. /\ cmd[s] \in Command /\ cmd[s].prior \in Version \cup {None}
      /\ cmd[s].files \in SUBSET Nat /\ cmd[s].target \in Nat
      /\ hist \in History /\ activations \in Nat
      /\ cmd[s].phase = "read" => Begun(cmd[s])
  BY DEF IInv, TypeOK, Command, OperationsBound
<1> DEFINE prior == cmd[s].prior
           backup == cmd[s].next
           view == cmd[s].view
           id == cmd[s].target
           fs == cmd[s].files
           local == ReplacedHistory(prior, kept)
           merged == [local EXCEPT !.active = id]
           entry == hist.entries[id]
           rev == ImportedRevision(prior, backup)
           act == activations + 1
           next == [backup EXCEPT !.rev = rev, !.act = act]
           activated == [Activated(merged, id, next, view, <<>>)
                             EXCEPT !.gen = local.gen + 1]
           appended == PrepareHistory(merged, next, None, view, fs)
           plan == IF SameWork(entry.version, backup) /\ entry.files = fs
                   THEN activated ELSE appended
<1>2. /\ cmd[s].phase = "read" /\ cmd[s].kind = "IMPORT"
      /\ Readies(s, next, fs, plan)
      /\ UNCHANGED <<row, journal, hist, tab>>
  BY DEF ImportOver, Prepares
<1>3. backup \in Version /\ view \in Views
  BY <1>1, <1>2 DEF Begun
<1>4. rev \in Nat /\ act \in Nat
  BY <1>1, <1>3 DEF ImportedRevision, Larger, Version
<1> HIDE DEF rev, act, backup
<1>5. next \in Version
  BY <1>3, <1>4 DEF Version
<1>6. local \in History
  <2>1. CASE prior = None
    BY <1>1, <2>1 DEF ReplacedHistory
  <2>2. CASE prior # None
    <3>1. prior \in Version /\ None \in Views \cup {None}
      BY <1>1, <2>2
    <3>2. local = PrepareHistory(hist, prior, prior, None, kept)
      BY <2>2 DEF ReplacedHistory
    <3> HIDE DEF local, prior
    <3> QED
      BY <1>1, <3>1, <3>2, SavedHistoryType
  <2> QED
    BY <2>1, <2>2
<1> HIDE DEF local, next
<1>7. merged \in History
  BY <1>1, <1>6 DEF History
<1> HIDE DEF merged
<1>8. activated.activeRev = next.rev
  BY <1>7 DEF Activated, History
<1>9. appended.activeRev = next.rev
  <2> DEFINE p == None
  <2>1. p \in Version \cup {None} /\ view \in Views \cup {None}
    BY <1>3
  <2>2. appended = PrepareHistory(merged, next, p, view, fs)
    OBVIOUS
  <2> HIDE DEF p, appended, view
  <2> QED
    BY <1>1, <1>5, <1>7, <2>1, <2>2, PreparedRevision
<1> HIDE DEF activated, appended
<1>10. plan.activeRev = next.rev
  BY <1>8, <1>9
<1> HIDE DEF plan, fs
<1> QED
  BY <1>2, <1>10, ReadyRevisions DEF KeptVersion, Restores

\* A commit gives the project a later revision than any tab holds, or leaves
\* the revision it has to the version every tab knows by it.
LEMMA CommitRevisions ==
    ASSUME NoReturnAfterRemoval, IInv, IInv', HInv, RInv, NEW s \in Tabs, Commit(s)
    PROVE  RInv'
<1> USE DEF store
<1>1. /\ hist' = cmd[s].plan /\ cmd[s].gen = hist.gen /\ Stored = cmd[s].prior
      /\ cmd[s].phase = "ready" /\ cmd[s].kind \in Commands
      /\ hist.gen < hist'.gen /\ hist.gen \in Nat /\ hist'.gen \in Nat
  <2>1. PICK kinds : Commits(s, kinds)
    BY CommittedVersion
  <2> QED
    BY <2>1, CommitFacts, PlanCommitted DEF HInv, PlansKept
<1>2. /\ \A t \in Tabs \ {s} : cmd'[t] = cmd[t]
      /\ cmd'[s].phase \notin {"read", "ready"}
      /\ row' # None => Stored' = KeptVersion(cmd[s].kind, Stored, cmd[s].next)
      /\ row' = None => Stored # None /\ row # None /\ cmd[s].kind = "REMOVE"
  BY CommittedVersion
<1>3. hist'.activeRev = KeptVersion(cmd[s].kind, Stored, cmd[s].next).rev
  BY <1>1 DEF RInv, PlanNumbered
<1>4. /\ row # None => Stored.rev = row.rev /\ Stored.act = row.act /\ row.rev \in Nat
      /\ row' # None => Stored'.rev = row'.rev /\ Stored'.act = row'.act /\ row'.rev \in Nat
      /\ Stored' = None <=> row' = None
      /\ hist.activeRev \in Nat
      /\ tab \in [Tabs -> Version \cup {None}]
      /\ \A t \in Tabs : tab[t] # None => tab[t].rev \in Nat
  <2>1. /\ row' # None => Stored'.rev = row'.rev /\ Stored'.act = row'.act /\ row'.rev \in Nat
        /\ Stored' = None <=> row' = None
    BY NoneIsDistinct DEF Stored, Version, Journal, IInv, TypeOK
  <2>2. \A t \in Tabs : tab[t] # None => tab[t].rev \in Nat
    BY DEF IInv, TypeOK, Version
  <2> QED
    BY <2>1, <2>2, StoredType DEF IInv, TypeOK, Version, History
<1>5. /\ row' # None => hist'.activeRev = row'.rev
      /\ row' = None => hist'.activeRev = row.rev
  BY <1>2, <1>3, <1>4 DEF KeptVersion
<1>6. row' # None /\ row' # row => row'.rev > hist.activeRev
  BY <1>4, RevisionStep DEF NoReturnAfterRemoval, RInv
<1>7. /\ \A t \in Tabs \ {s} : tab'[t] = tab[t]
      /\ tab'[s] \in {tab[s], Stored', None}
  <2>1. CASE CommitWrite(s) \/ CommitOperate(s)
    <3>1. tab' = [tab EXCEPT ![s] = cmd[s].next] /\ Stored' = cmd[s].next
      BY <2>1, SaveStores DEF CommitWrite, CommitOperate
    <3> QED
      BY <1>4, <3>1
  <2>2. CASE CommitView(s)
    BY <2>2 DEF CommitView
  <2>3. CASE CommitActivation(s)
    <3>1. /\ tab' = [tab EXCEPT ![s] = cmd[s].next]
          /\ row' = cmd[s].next /\ journal' = None
      BY <2>3 DEF CommitActivation
    <3>2. Stored' = cmd[s].next
      BY <3>1 DEF Stored
    <3> QED
      BY <1>4, <3>1, <3>2
  <2>4. CASE CommitRemove(s)
    BY <1>4, <2>4 DEF CommitRemove, Leaves
  <2> QED
    BY <2>1, <2>2, <2>3, <2>4 DEF Commit
<1>8. row' = None \/ row' = row \/ row'.rev > hist.activeRev
  BY <1>6
<1>9. ASSUME NEW t \in Tabs PROVE NotAhead(tab[t])'
  <2>1. tab'[t] \in {tab[t], Stored', None}
    BY <1>7
  <2>2. CASE tab'[t] = Stored'
    BY <1>4, <1>5, <2>2 DEF NotAhead
  <2>3. CASE tab'[t] = tab[t] /\ tab[t] # None
    <3>1. tab[t].rev <= hist.activeRev /\ tab[t].rev \in Nat
      BY <1>4, <2>3 DEF RInv, NotAhead
    <3>2. CASE row' = None \/ row' = row
      BY <1>2, <1>5, <2>3, <3>1, <3>2 DEF RInv, NotAhead
    <3>3. CASE row' # None /\ row' # row
      BY <1>4, <1>5, <1>6, <2>3, <3>1, <3>3 DEF NotAhead
    <3> QED
      BY <3>2, <3>3
  <2> QED
    BY <2>1, <2>2, <2>3 DEF NotAhead
<1>10. "REMOVE" \notin Commands => row' # None
  BY <1>1, <1>2
<1>11. ASSUME NEW t \in Tabs PROVE PlanNumbered(cmd[t])'
  <2>1. CASE t = s
    BY <1>2, <2>1 DEF PlanNumbered
  <2>2. CASE t # s
    <3>1. cmd'[t] = cmd[t] /\ cmd[t].gen \in Nat
      BY <1>2, <2>2 DEF IInv, TypeOK, Command
    <3>2. cmd[t].phase = "ready" => cmd[t].gen <= hist.gen
      BY DEF IInv, OperationsBound, Prepared
    <3> QED
      BY <1>1, <3>1, <3>2 DEF PlanNumbered
  <2> QED
    BY <2>1, <2>2
<1>12. ASSUME NEW t \in Tabs PROVE ReadAsHeld(tab[t], cmd[t])'
  BY <1>2, <1>7 DEF RInv, ReadAsHeld
<1> QED
  BY <1>5, <1>9, <1>10, <1>11, <1>12 DEF RInv

\* Every step keeps RInv, and so it holds in every state.
LEMMA RevisionsInvariance ==
    ASSUME NoReturnAfterRemoval PROVE Spec => []RInv
<1>1. Init => RInv
  BY InitRevisions
<1>2. ASSUME IInv, IInv', HInv, RInv, [Next]_vars PROVE RInv'
  <2>1. CASE UNCHANGED vars
    <3>1. UNCHANGED <<row, journal, hist, tab, cmd>> /\ Stored' = Stored
      BY <2>1 DEF vars, store, Stored
    <3> QED
      BY <1>2, <3>1 DEF RInv, PlanNumbered, NotAhead, ReadAsHeld
  <2>2. ASSUME NEW s \in Tabs, Begin(s) \/ Prepare(s) \/ Commit(s) \/ Conclude(s)
        PROVE  RInv'
    BY <1>2, <2>2, BeginRevisions, PrepareSaveRevisions, PrepareStaleRevisions,
       PrepareRestoreRevisions, PrepareImportRevisions, ImportsOver,
       CommitRevisions, ConcludeRevisions DEF Prepare
  <2> QED
    BY <1>2, <2>1, <2>2 DEF Next
<1>3. IInv /\ IInv' /\ HInv /\ RInv /\ [Next]_vars => RInv'
  BY <1>2
<1> QED
  BY <1>1, <1>3, HistoryInvariance, PTL DEF Spec

\* As long as backups are not brought back after a removal a revision is never
\* used again: tabs and deletion receipts can identify a project state by it.
THEOREM RevisionsAdvance ==
    ASSUME NoReturnAfterRemoval PROVE Spec => RevisionAdvances
<1> DEFINE Advances == row' # None /\ row' # row =>
                           row'.rev > IF row = None THEN hist.activeRev ELSE row.rev
<1>1. ASSUME IInv, HInv, RInv, [Next]_vars PROVE [Advances]_vars
  <2>1. row # None \/ "IMPORT" \notin Commands
    BY <1>1 DEF NoReturnAfterRemoval, RInv
  <2>2. ASSUME NEW s \in Tabs, Commit(s) PROVE Advances
    BY <1>1, <2>1, <2>2, RevisionStep
  <2> QED
    BY <1>1, <2>2, OnlyCommitsChange
<1> QED
  BY <1>1, HistoryInvariance, RevisionsInvariance, PTL DEF Spec, RevisionAdvances

\* A tab replaces only the project it holds, although a restoration compares
\* no more than revisions: as long as backups are not brought back after a
\* removal, no tab takes a version another tab has stored since for its own.
THEOREM OnlyHeldReplaced ==
    ASSUME NoReturnAfterRemoval PROVE Spec => OnlyHeldProjectReplaced
<1> DEFINE Held ==
        \A s \in Tabs :
            /\ cmd[s].phase = "ready" /\ cmd'[s].phase = "refresh"
            /\ cmd[s].kind # "IMPORT"
            /\ row # None /\ row' # row
            /\ tab[s] # None
            => tab[s].rev = row.rev /\ tab[s].act = row.act
<1>1. ASSUME IInv, HInv, RInv, [Next]_vars PROVE [Held]_vars
  <2> SUFFICES ASSUME NEW s \in Tabs,
                      cmd[s].phase = "ready", cmd'[s].phase = "refresh",
                      cmd[s].kind # "IMPORT", row # None, row' # row, tab[s] # None
               PROVE  tab[s].rev = row.rev /\ tab[s].act = row.act
    OBVIOUS
  <2>1. PICK t \in Tabs : Commit(t)
    BY <1>1, OnlyCommitsChange
  <2>2. t = s
    BY <1>1, <2>1, CommittedVersion
  <2>3. PICK kinds : Commits(s, kinds)
    BY <1>1, <2>1, <2>2, CommittedVersion
  <2>4. /\ Stored = cmd[s].prior /\ Stored # None
        /\ Stored.rev = row.rev /\ Stored.act = row.act
    BY <1>1, <2>3, CommitFacts, StoredType DEF IInv, TypeOK
  <2>5. cmd[s].kind \in Intents \cup Restores
    <3>1. CASE CommitWrite(s) \/ CommitActivation(s)
      BY <3>1 DEF CommitWrite, CommitActivation, Commits, Intents
    <3>2. ~CommitOperate(s) /\ ~CommitView(s)
      BY DEF CommitOperate, CommitView
    <3>3. ~CommitRemove(s)
      BY <1>1 DEF CommitRemove, Leaves, NoCommand, IInv, TypeOK
    <3> QED
      BY <2>1, <2>2, <3>1, <3>2, <3>3 DEF Commit
  <2>6. /\ cmd[s].kind \in Intents => tab[s] = Stored
        /\ cmd[s].kind \in Restores => tab[s].rev = Stored.rev
    BY <1>1, <2>4 DEF RInv, ReadAsHeld
  <2> QED
    BY <1>1, <2>4, <2>5, <2>6 DEF RInv, NotAhead
<1> QED
  BY <1>1, HistoryInvariance, RevisionsInvariance, PTL
     DEF Spec, OnlyHeldProjectReplaced
=============================================================================
