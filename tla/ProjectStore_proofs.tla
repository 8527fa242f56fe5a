------------------------ MODULE ProjectStore_proofs ------------------------
(***************************************************************************)
(* What ProjectStore guarantees for every number of tabs, edits, views and *)
(* operations, and for all its bounds: its type invariant, the binding of  *)
(* the recovery state and of the journal to the stored row, and that no    *)
(* save is lost.                                                           *)
(***************************************************************************)
EXTENDS ProjectStore, WellFoundedInduction, TLAPS

-----------------------------------------------------------------------------
(* Without(seq, id) keeps the type of a sequence.  Its recursive function    *)
(* is well defined by induction on its domain, which is stated with sets.    *)

Less == {ss \in Nat \X Nat : ss[1] < ss[2]}

\* The order of the natural numbers is well founded.
LEMMA LessWellFounded == IsWellFoundedOn(Less, Nat)
BY NatLessThanWellFounded, Zenon DEF OpToRel, Less

\* Induction over the natural numbers, stated with a set.
LEMMA InductionOnSets ==
    ASSUME NEW S, 0 \in S, \A n \in Nat : n \in S => n + 1 \in S
    PROVE  Nat \subseteq S
<1> DEFINE T == Nat \ S
<1> SUFFICES ASSUME T # {} PROVE FALSE
  OBVIOUS
<1>1. PICK x \in T : \A y \in T : ~ (<<y, x>> \in Less)
  <2>1. T \subseteq Nat
    OBVIOUS
  <2> HIDE DEF T
  <2> QED
    BY <2>1, LessWellFounded, WFMin
<1>2. x - 1 \in Nat /\ <<x - 1, x>> \in Less
  BY DEF Less
<1>3. x - 1 \in S
  BY <1>1, <1>2
<1> QED
  BY <1>2, <1>3

Keeps(seq, id, g, n) ==
    IF n = 0 THEN <<>>
    ELSE IF seq[n] = id THEN g[n - 1]
    ELSE Append(g[n - 1], seq[n])

KeepsUpTo(seq, id, g, m) == g = [n \in 0..m |-> Keeps(seq, id, g, n)]

Kept(seq, id, m) == \E g : g \in [0..m -> Seq(Nat)] /\ KeepsUpTo(seq, id, g, m)

\* A filter of a prefix extends to the next element.
LEMMA KeptExtends ==
    ASSUME NEW seq \in Seq(Nat), NEW id, NEW m \in Nat, m + 1 <= Len(seq),
           Kept(seq, id, m)
    PROVE  Kept(seq, id, m + 1)
<1>1. PICK g : g \in [0..m -> Seq(Nat)] /\ KeepsUpTo(seq, id, g, m)
  BY DEF Kept
<1> DEFINE last == Keeps(seq, id, g, m + 1)
           h == [n \in 0..(m + 1) |-> IF n = m + 1 THEN last ELSE g[n]]
<1>2. last \in Seq(Nat)
  <2>1. seq[m + 1] \in Nat /\ g[m] \in Seq(Nat)
    BY <1>1
  <2> QED
    BY <2>1 DEF Keeps
<1>3. h \in [0..(m + 1) -> Seq(Nat)]
  <2> HIDE DEF last
  <2> QED
    BY <1>1, <1>2
<1>4. ASSUME NEW n \in 0..(m + 1) PROVE h[n] = Keeps(seq, id, h, n)
  <2>1. CASE n = m + 1
    <3>1. h[n - 1] = g[n - 1]
      BY <2>1
    <3> QED
      BY <2>1, <3>1 DEF Keeps
  <2>2. CASE n # m + 1
    <3>1. n \in 0..m /\ h[n] = g[n]
      BY <2>2
    <3>2. g[n] = Keeps(seq, id, g, n)
      BY <1>1, <3>1 DEF KeepsUpTo
    <3>3. n # 0 => h[n - 1] = g[n - 1]
      BY <3>1
    <3> QED
      BY <3>1, <3>2, <3>3 DEF Keeps
  <2> QED
    BY <2>1, <2>2
<1>5. KeepsUpTo(seq, id, h, m + 1)
  <2>1. h = [n \in 0..(m + 1) |-> h[n]]
    OBVIOUS
  <2> HIDE DEF h
  <2> QED
    BY <1>4, <2>1 DEF KeepsUpTo
<1> QED
  <2> HIDE DEF h
  <2> QED
    BY <1>3, <1>5 DEF Kept

\* Every sequence has its filter.
LEMMA KeptExists ==
    ASSUME NEW seq \in Seq(Nat), NEW id PROVE Kept(seq, id, Len(seq))
<1> DEFINE S == {m \in Nat : m <= Len(seq) => Kept(seq, id, m)}
<1>1. 0 \in S
  <2> DEFINE g == [n \in 0..0 |-> <<>>]
  <2>1. g \in [0..0 -> Seq(Nat)]
    OBVIOUS
  <2>2. KeepsUpTo(seq, id, g, 0)
    BY DEF KeepsUpTo, Keeps
  <2>3. Kept(seq, id, 0)
    <3> HIDE DEF g
    <3> QED BY <2>1, <2>2 DEF Kept
  <2> QED
    BY <2>3
<1>2. \A m \in Nat : m \in S => m + 1 \in S
  BY KeptExtends
<1>3. Nat \subseteq S
  <2> HIDE DEF S
  <2> QED
    BY <1>1, <1>2, InductionOnSets
<1> QED
  BY <1>3

\* Filtering a sequence of entries leaves one.
LEMMA WithoutType ==
    ASSUME NEW seq \in Seq(Nat), NEW id PROVE Without(seq, id) \in Seq(Nat)
<1> DEFINE kept == CHOOSE g : KeepsUpTo(seq, id, g, Len(seq))
           S == {m \in Nat : m <= Len(seq) => kept[m] \in Seq(Nat)}
<1>1. KeepsUpTo(seq, id, kept, Len(seq))
  BY KeptExists DEF Kept
<1>2. ASSUME NEW n \in 0..Len(seq) PROVE kept[n] = Keeps(seq, id, kept, n)
  <2> HIDE DEF kept
  <2> QED
    BY <1>1 DEF KeepsUpTo
<1>3. 0 \in S
  <2>1. kept[0] = <<>>
    <3> HIDE DEF kept
    <3> QED
      BY <1>2 DEF Keeps
  <2>2. <<>> \in Seq(Nat)
    OBVIOUS
  <2> HIDE DEF kept
  <2> QED
    BY <2>1, <2>2
<1>4. ASSUME NEW m \in Nat, m \in S PROVE m + 1 \in S
  <2> HIDE DEF kept
  <2> SUFFICES ASSUME m + 1 <= Len(seq) PROVE kept[m + 1] \in Seq(Nat)
    OBVIOUS
  <2>1. kept[m] \in Seq(Nat) /\ seq[m + 1] \in Nat
    BY <1>4
  <2>2. kept[m + 1] = Keeps(seq, id, kept, m + 1)
    BY <1>2
  <2> QED
    BY <2>1, <2>2 DEF Keeps
<1>5. Nat \subseteq S
  <2>1. \A m \in Nat : m \in S => m + 1 \in S
    BY <1>4
  <2> HIDE DEF S
  <2> QED
    BY <1>3, <2>1, InductionOnSets
<1>6. kept[Len(seq)] \in Seq(Nat)
  BY <1>5
<1>7. Without(seq, id) = kept[Len(seq)]
  BY DEF Without, KeepsUpTo, Keeps
<1> QED
  BY <1>6, <1>7
-----------------------------------------------------------------------------
(* The inductive invariant.                                                *)

Activations == Restores \cup {"IMPORT"}

\* An activation identity is drawn before it is used.
ActivationsDrawn ==
    /\ row # None => row.act <= activations
    /\ \A s \in Tabs : cmd[s].prior # None => cmd[s].prior.act <= activations

\* What an operation has read and what it is about to commit.
Saves(c) ==
    /\ c.prior \in Version
    /\ c.next \in Version
    /\ c.next.act = c.prior.act
    /\ c.prior.work \subseteq c.next.work
    /\ c.prior.atts \subseteq c.next.atts
    /\ c.prior.ops \subseteq c.next.ops
    /\ IF c.kind = "OPERATE" THEN c.next = [c.prior EXCEPT !.ops = c.next.ops]
       ELSE c.next = c.prior \/ c.next.rev = c.prior.rev + 1

Begun(c) ==
    /\ c.kind \in Kinds
    /\ c.kind \in Intents => Saves(c)
    /\ c.kind = "VIEW" => c.prior \in Version /\ c.next \in Version
    /\ c.kind = "REMOVE" => c.prior \in Version
    /\ c.phase = "read" /\ c.kind = "IMPORT" =>
           c.next \in Version /\ c.view \in Views

\* A History that follows another retains all of its entries, where they were,
\* and its active entry is one of its own.
Extends(h, k) ==
    /\ Len(h.entries) <= Len(k.entries)
    /\ \A i \in DOMAIN h.entries : k.entries[i] = h.entries[i]
ActiveRetained(h) == h.active \in DOMAIN h.entries
Follows(h, k) == Extends(h, k) /\ ActiveRetained(k)

Prepared(c) ==
    /\ c.plan \in History
    /\ c.gen = hist.gen => Follows(hist, c.plan)
    /\ c.gen <= hist.gen
    /\ c.gen < c.plan.gen
    /\ c.kind \in Intents \cup Activations =>
           c.next \in Version /\ c.plan.head = c.next
    /\ c.kind \in Activations =>
           /\ c.next.act <= activations
           /\ c.prior # None => c.prior.act < c.next.act
    /\ c.kind = "VIEW" /\ c.gen = hist.gen => c.plan.head \in {c.prior, hist.head}

OperationsBound ==
    \A s \in Tabs :
        /\ cmd[s].phase \in {"read", "ready"} => Begun(cmd[s])
        /\ cmd[s].phase = "ready" => Prepared(cmd[s])

\* Every entry that the project, a backup or an import names is retained.
EntriesRetained ==
    /\ ActiveRetained(hist)
    /\ package # None => package.active \in DOMAIN hist.entries
    /\ \A s \in Tabs : cmd[s].phase = "read" /\ cmd[s].kind = "IMPORT" =>
                           cmd[s].target \in DOMAIN hist.entries

IInv ==
    /\ TypeOK
    /\ EntriesRetained
    /\ JournalBound
    /\ HistoryBindsHead
    /\ ActivationsDrawn
    /\ OperationsBound
-----------------------------------------------------------------------------
(* Lemmas about the operators of the module.                               *)

\* The stored project is the canonical row up to its events.
LEMMA StoredType ==
    ASSUME row \in Version \cup {None}, journal \in Journal \cup {None}
    PROVE  /\ Stored \in Version \cup {None}
           /\ Stored = None <=> row = None
           /\ row # None => /\ Stored.rev = row.rev
                            /\ Stored.act = row.act
                            /\ Stored.work = row.work
                            /\ Stored.atts = row.atts
BY NoneIsDistinct DEF Stored, Version, Journal

\* The target of Undo is an entry or none.
LEMMA UndoIdType == ASSUME NEW h \in History PROVE UndoId(h) \in Nat
BY DEF UndoId, History

\* What a tab offers are entries or none.
LEMMA OfferedType ==
    ASSUME NEW h \in History PROVE Offered(h) \in [undo : Nat, redo : Nat]
<1>1. h.redo \in Seq(Nat)
  BY DEF History
<1>2. Len(h.redo) > 0 => h.redo[1] \in Nat
  BY <1>1
<1> QED
  BY <1>2, UndoIdType DEF Offered

\* An appended entry makes a History with its version as head.
LEMMA AppendEntryType ==
    ASSUME NEW h \in History, NEW v \in Version,
           NEW view \in Views \cup {None}, NEW fs \in SUBSET Nat
    PROVE  LET k == AppendEntry(h, v, view, fs) IN
           k \in History /\ k.head = v /\ k.gen = h.gen
<1> DEFINE entry == [parent |-> h.active, version |-> v,
                     view |-> IF view = None THEN DefaultView ELSE view,
                     files |-> fs]
           es == Append(h.entries, entry)
           n == Len(h.entries) + 1
           none == <<>>
<1>1. entry \in Entry
  BY ConstantsOK DEF Entry, History
<1>2. es \in Seq(Entry) /\ n \in Nat
  <2>1. h.entries \in Seq(Entry)
    BY DEF History
  <2> HIDE DEF entry
  <2> QED
    BY <1>1, <2>1
<1>3. none \in Seq(Nat)
  OBVIOUS
<1>4. AppendEntry(h, v, view, fs) =
          [h EXCEPT !.entries = es, !.active = n, !.head = v,
                    !.override = None, !.redo = none]
  BY DEF AppendEntry, History
<1> HIDE DEF es, n, none
<1> QED
  BY <1>2, <1>3, <1>4 DEF History

\* A prepared History names the version it was prepared for.
LEMMA PrepareHistoryType ==
    ASSUME NEW h \in History, NEW next \in Version,
           NEW prior \in Version \cup {None},
           NEW view \in Views \cup {None}, NEW fs \in SUBSET Nat
    PROVE  LET k == PrepareHistory(h, next, prior, view, fs) IN
           k \in History /\ k.head = next /\ k.gen = h.gen + 1
<1> DEFINE h1 == WithPrevious(h, prior, view, fs)
           h2 == WithNext(h1, next, prior, view, fs)
           redo == IF next = prior THEN h.redo ELSE h2.redo
<1>1. h1 \in History /\ h1.gen = h.gen /\ (prior # None => h1.head = prior)
  BY AppendEntryType DEF WithPrevious
<1>2. h2 \in History /\ h2.gen = h.gen /\ h2.head = next
  <2>1. \/ h2 = AppendEntry(h1, next, view, fs)
        \/ h2 = h1 /\ prior # None /\ next = prior
    BY DEF WithNext
  <2> HIDE DEF h1, h2
  <2> QED
    BY <1>1, <2>1, AppendEntryType
<1>3. PrepareHistory(h, next, prior, view, fs) =
          [h2 EXCEPT !.redo = redo, !.activeRev = next.rev,
                     !.removed = FALSE, !.gen = h.gen + 1]
  BY DEF PrepareHistory
<1> HIDE DEF h2
<1>4. redo \in Seq(Nat) /\ next.rev \in Nat /\ h.gen + 1 \in Nat
  BY <1>2 DEF History, Version
<1> HIDE DEF redo
<1> QED
  BY <1>2, <1>3, <1>4 DEF History

\* The same where the version does not change.
LEMMA SavedHistoryType ==
    ASSUME NEW h \in History, NEW v \in Version,
           NEW view \in Views \cup {None}, NEW fs \in SUBSET Nat
    PROVE  LET k == PrepareHistory(h, v, v, view, fs) IN
           k \in History /\ k.head = v /\ k.gen = h.gen + 1
<1>1. PICK prior \in Version \cup {None} : prior = v
  OBVIOUS
<1>2. LET k == PrepareHistory(h, v, prior, view, fs) IN
      k \in History /\ k.head = v /\ k.gen = h.gen + 1
  BY <1>1, PrepareHistoryType
<1> QED
  BY <1>1, <1>2

\* An activation changes the revision and the activation only.
LEMMA ActivatedVersionType ==
    ASSUME NEW v \in Version, NEW rev \in Nat, NEW act \in Nat
    PROVE  LET next == [v EXCEPT !.rev = rev, !.act = act] IN
           next \in Version /\ next.act = act
BY DEF Version

\* An activated History names the version it activates.
LEMMA ActivatedType ==
    ASSUME NEW h \in History, NEW id \in Nat, NEW next \in Version,
           NEW view \in Views, NEW redo \in Seq(Nat)
    PROVE  LET k == Activated(h, id, next, view, redo) IN
           k \in History /\ k.head = next /\ k.gen = h.gen
BY DEF Activated, History, Version

\* What can be redone after a restoration are entries.
LEMMA RestoredRedoType ==
    ASSUME hist \in History, NEW mode, NEW id \in Nat
    PROVE  RestoredRedo(mode, id) \in Seq(Nat)
<1>1. hist.redo \in Seq(Nat) /\ hist.active \in Nat
  BY DEF History
<1>2. /\ Without(hist.redo, hist.active) \in Seq(Nat)
      /\ Without(hist.redo, id) \in Seq(Nat)
  BY <1>1, WithoutType
<1>3. /\ <<hist.active>> \o Without(hist.redo, hist.active) \in Seq(Nat)
      /\ <<>> \in Seq(Nat)
  BY <1>1, <1>2
<1> QED
  BY <1>2, <1>3 DEF RestoredRedo

\* The same with the generation a restoration gives it.
LEMMA RestoredHistoryType ==
    ASSUME NEW h \in History, NEW id \in Nat, NEW next \in Version,
           NEW view \in Views, NEW redo \in Seq(Nat), NEW gen \in Nat
    PROVE  LET k == [Activated(h, id, next, view, redo) EXCEPT !.gen = gen] IN
           k \in History /\ k.head = next /\ k.gen = gen
<1>1. ASSUME NEW k \in History
      PROVE  LET k2 == [k EXCEPT !.gen = gen] IN
             k2 \in History /\ k2.head = k.head /\ k2.gen = gen
  BY DEF History
<1> QED
  BY <1>1, ActivatedType

\* The shape of one entry.
LEMMA EntryType ==
    ASSUME hist \in History, NEW i \in DOMAIN hist.entries
    PROVE  /\ i \in Nat
           /\ hist.entries[i].version \in Version
           /\ hist.entries[i].view \in Views
           /\ hist.entries[i].files \in SUBSET Nat
<1>1. hist.entries \in Seq(Entry)
  BY DEF History
<1>2. i \in Nat /\ hist.entries[i] \in Entry
  BY <1>1
<1> QED
  BY <1>2 DEF Entry

\* What extends an extension extends the History.
LEMMA ExtendsTransitive ==
    ASSUME NEW h \in History, NEW k \in History, NEW l \in History,
           Extends(h, k), Extends(k, l)
    PROVE  Extends(h, l)
<1>1. h.entries \in Seq(Entry) /\ k.entries \in Seq(Entry) /\ l.entries \in Seq(Entry)
  BY DEF History
<1> QED
  BY <1>1 DEF Extends

\* An appended entry follows those that were there.
LEMMA AppendEntryFollows ==
    ASSUME NEW h \in History, NEW v \in Version,
           NEW view \in Views \cup {None}, NEW fs \in SUBSET Nat
    PROVE  Follows(h, AppendEntry(h, v, view, fs))
<1> DEFINE k == AppendEntry(h, v, view, fs)
<1>1. PICK entry : k.entries = Append(h.entries, entry)
  BY DEF AppendEntry, History
<1>2. k.active = Len(h.entries) + 1
  BY DEF AppendEntry, History
<1> HIDE DEF k
<1>3. h.entries \in Seq(Entry)
  BY DEF History
<1>4. /\ Len(k.entries) = Len(h.entries) + 1 /\ Len(h.entries) \in Nat
      /\ DOMAIN k.entries = 1..(Len(h.entries) + 1)
      /\ DOMAIN h.entries = 1..Len(h.entries)
      /\ \A i \in 1..Len(h.entries) : k.entries[i] = h.entries[i]
  BY <1>1, <1>3
<1> QED
  BY <1>2, <1>4 DEF Follows, Extends, ActiveRetained, k

\* A prepared History follows the one it was prepared from.
LEMMA PrepareHistoryFollows ==
    ASSUME NEW h \in History, ActiveRetained(h), NEW next \in Version,
           NEW prior \in Version \cup {None},
           NEW view \in Views \cup {None}, NEW fs \in SUBSET Nat
    PROVE  Follows(h, PrepareHistory(h, next, prior, view, fs))
<1> DEFINE h1 == WithPrevious(h, prior, view, fs)
           h2 == WithNext(h1, next, prior, view, fs)
           k == PrepareHistory(h, next, prior, view, fs)
<1>1. ASSUME NEW g \in History PROVE Extends(g, g)
  BY DEF Extends, History
<1>2. h1 \in History /\ Follows(h, h1)
  BY <1>1, AppendEntryType, AppendEntryFollows DEF WithPrevious, Follows
<1>3. h2 \in History /\ Follows(h1, h2)
  <2>1. h2 = h1 \/ h2 = AppendEntry(h1, next, view, fs)
    BY DEF WithNext
  <2> HIDE DEF h1, h2
  <2> QED
    BY <1>1, <1>2, <2>1, AppendEntryType, AppendEntryFollows DEF Follows
<1>4. k.entries = h2.entries /\ k.active = h2.active
  <2>1. k = [h2 EXCEPT !.redo = IF next = prior THEN h.redo ELSE h2.redo,
                       !.activeRev = next.rev, !.removed = FALSE,
                       !.gen = h.gen + 1]
    BY DEF PrepareHistory
  <2> HIDE DEF h2, k
  <2> QED
    BY <1>3, <2>1 DEF History
<1>5. Follows(h, h2)
  <2> HIDE DEF h1, h2
  <2> QED
    BY <1>2, <1>3, ExtendsTransitive DEF Follows
<1> HIDE DEF h1, h2, k
<1>6. Follows(h, k)
  BY <1>4, <1>5 DEF Follows, Extends, ActiveRetained
<1> QED
  BY <1>6 DEF k

\* The same where the version does not change.
LEMMA SavedHistoryFollows ==
    ASSUME NEW h \in History, ActiveRetained(h), NEW v \in Version,
           NEW view \in Views \cup {None}, NEW fs \in SUBSET Nat
    PROVE  Follows(h, PrepareHistory(h, v, v, view, fs))
<1>1. PICK prior \in Version \cup {None} : prior = v
  OBVIOUS
<1>2. Follows(h, PrepareHistory(h, v, prior, view, fs))
  BY <1>1, PrepareHistoryFollows
<1> QED
  BY <1>1, <1>2

\* An activation retains every entry.
LEMMA ActivatedFollows ==
    ASSUME NEW h \in History, NEW id \in DOMAIN h.entries, NEW next, NEW view,
           NEW redo, NEW gen
    PROVE  Follows(h, [Activated(h, id, next, view, redo) EXCEPT !.gen = gen])
BY DEF Activated, History, Follows, Extends, ActiveRetained
-----------------------------------------------------------------------------
(* Two shapes of step: one that leaves the project and its History alone,    *)
(* and one that commits a prepared History.                                  *)

\* The shape of one operation and of the project it may read.
LEMMA CommandType ==
    ASSUME NEW s \in Tabs, IInv
    PROVE  /\ cmd[s] \in Command
           /\ NoCommand \in Command
           /\ Stored \in Version \cup {None}
           /\ Stored = None <=> row = None
           /\ Stored # None => Stored.act <= activations
<1>1. cmd[s] \in Command /\ Stored \in Version \cup {None}
  BY StoredType DEF IInv, TypeOK
<1>2. NoCommand \in Command
  BY DEF NoCommand, Command, Phases
<1>3. /\ Stored = None <=> row = None
      /\ Stored # None => Stored.act <= activations
  BY StoredType DEF IInv, TypeOK, ActivationsDrawn
<1> QED
  BY <1>1, <1>2, <1>3

\* The variables that only have a type to keep.
OtherTypes ==
    /\ files \subseteq Nat
    /\ receipts \subseteq Nat
    /\ package \in Package \cup {None}
    /\ tab \in [Tabs -> Version \cup {None}]
    /\ shown \in [Tabs -> [undo : Nat, redo : Nat]]
    /\ activations \in Nat
    /\ intakes \in Nat

\* A step of one tab that leaves the project and its History alone keeps IInv.
LEMMA QuietStep ==
    ASSUME IInv, NEW s \in Tabs, NEW c \in Command,
           cmd' = [cmd EXCEPT ![s] = c],
           UNCHANGED <<row, journal, hist>>,
           OtherTypes', activations <= activations',
           package' = package \/ package'.active \in DOMAIN hist.entries,
           c.phase = "read" /\ c.kind = "IMPORT" =>
               c.target \in DOMAIN hist.entries,
           c.prior # None => c.prior.act <= activations',
           c.phase \in {"read", "ready"} => Begun(c),
           c.phase = "ready" => Prepared(c)'
    PROVE  IInv'
<1>1. TypeOK'
  BY DEF IInv, TypeOK, OtherTypes
<1>2. JournalBound' /\ HistoryBindsHead'
  BY DEF IInv, JournalBound, HistoryBindsHead, Stored
<1>3. cmd'[s] = c /\ \A t \in Tabs \ {s} : cmd'[t] = cmd[t]
  BY DEF IInv, TypeOK
<1>4. ActivationsDrawn'
  <2>1. row' # None => row'.act <= activations'
    BY DEF IInv, TypeOK, ActivationsDrawn, OtherTypes, Version
  <2>2. ASSUME NEW t \in Tabs, cmd'[t].prior # None
        PROVE  cmd'[t].prior.act <= activations'
    <3>1. CASE t = s
      BY <1>3, <2>2, <3>1
    <3>2. CASE t # s
      <4>1. cmd[t].prior \in Version /\ cmd[t].prior.act <= activations
        BY <1>3, <2>2, <3>2 DEF IInv, TypeOK, ActivationsDrawn, Command
      <4> QED
        BY <1>3, <3>2, <4>1 DEF IInv, TypeOK, OtherTypes, Version
    <3> QED
      BY <3>1, <3>2
  <2> QED
    BY <2>1, <2>2 DEF ActivationsDrawn
<1>5. OperationsBound'
  <2> SUFFICES ASSUME NEW t \in Tabs
               PROVE  /\ cmd'[t].phase \in {"read", "ready"} => Begun(cmd'[t])
                      /\ cmd'[t].phase = "ready" => Prepared(cmd[t])'
    BY DEF OperationsBound, Begun, Saves
  <2>1. CASE t = s
    BY <1>3, <2>1 DEF Prepared
  <2>2. CASE t # s
    <3>1. cmd'[t] = cmd[t]
      BY <1>3, <2>2
    <3>2. /\ cmd[t].phase \in {"read", "ready"} => Begun(cmd[t])
          /\ cmd[t].phase = "ready" => Prepared(cmd[t])
      BY DEF IInv, OperationsBound
    <3>3. ASSUME Prepared(cmd[t]) PROVE Prepared(cmd[t])'
      <4>1. cmd[t].kind \in Activations => cmd[t].next.act <= activations'
        BY <3>3 DEF Prepared, IInv, TypeOK, OtherTypes, Version
      <4> QED
        BY <3>1, <3>3, <4>1 DEF Prepared
    <3> QED
      BY <3>1, <3>2, <3>3
  <2> QED
    BY <2>1, <2>2
<1>6. EntriesRetained'
  BY <1>3 DEF IInv, EntriesRetained, ActiveRetained
<1> QED
  BY <1>1, <1>2, <1>4, <1>5, <1>6 DEF IInv

\* A commit keeps IInv when its row and journal fit its plan.
LEMMA CommitStep ==
    ASSUME IInv, NEW s \in Tabs, NEW c \in Command,
           cmd[s].phase = "ready", HistoryUnchanged(s), hist' = cmd[s].plan,
           cmd' = [cmd EXCEPT ![s] = c],
           c.prior = None, c.phase \notin {"read", "ready"},
           row' \in Version \cup {None}, journal' \in Journal \cup {None},
           row' # None => row'.act <= activations, UNCHANGED activations,
           JournalBound', HistoryBindsHead', OtherTypes', UNCHANGED package
    PROVE  IInv'
<1>1. Prepared(cmd[s])
  BY DEF IInv, OperationsBound
<1>2. hist' \in History /\ hist.gen < hist'.gen
  BY <1>1 DEF Prepared, HistoryUnchanged
<1>3. TypeOK'
  BY <1>2 DEF IInv, TypeOK, OtherTypes
<1>4. cmd'[s] = c /\ \A t \in Tabs \ {s} : cmd'[t] = cmd[t]
  BY DEF IInv, TypeOK
<1>5. ActivationsDrawn'
  BY <1>4 DEF IInv, ActivationsDrawn
<1>6. OperationsBound'
  <2> SUFFICES ASSUME NEW t \in Tabs
               PROVE  /\ cmd'[t].phase \in {"read", "ready"} => Begun(cmd'[t])
                      /\ cmd'[t].phase = "ready" => Prepared(cmd[t])'
    BY DEF OperationsBound, Begun, Saves
  <2>1. CASE t = s
    BY <1>4, <2>1
  <2>2. CASE t # s
    <3>1. cmd'[t] = cmd[t] /\ cmd[t] \in Command
      BY <1>4, <2>2 DEF IInv, TypeOK
    <3>2. /\ cmd[t].phase \in {"read", "ready"} => Begun(cmd[t])
          /\ cmd[t].phase = "ready" => Prepared(cmd[t])
      BY DEF IInv, OperationsBound
    <3>3. ASSUME Prepared(cmd[t]) PROVE Prepared(cmd[t])'
      <4>1. cmd[t].gen <= hist.gen /\ cmd[t].gen \in Nat
        BY <3>1, <3>3 DEF Prepared, Command
      <4>2. hist.gen \in Nat /\ hist'.gen \in Nat
        BY <1>2 DEF IInv, TypeOK, History
      <4>3. cmd[t].gen <= hist'.gen /\ cmd[t].gen # hist'.gen
        BY <1>2, <4>1, <4>2
      <4> QED
        BY <3>1, <3>3, <4>3 DEF Prepared
    <3> QED
      BY <3>1, <3>2, <3>3
  <2> QED
    BY <2>1, <2>2
<1>7. EntriesRetained'
  <2>1. Follows(hist, hist')
    BY <1>1 DEF Prepared, HistoryUnchanged
  <2>2. hist.entries \in Seq(Entry) /\ hist'.entries \in Seq(Entry)
    BY <1>2 DEF IInv, TypeOK, History
  <2>3. DOMAIN hist.entries \subseteq DOMAIN hist'.entries
    BY <2>1, <2>2 DEF Follows, Extends
  <2> QED
    BY <1>4, <2>1, <2>3 DEF IInv, EntriesRetained, Follows
<1> QED
  BY <1>3, <1>5, <1>6, <1>7 DEF IInv
-----------------------------------------------------------------------------
(* Every step preserves the invariant.                                      *)

\* The first checkpoint satisfies IInv.
LEMMA InitInvariant == Init => IInv
<1> SUFFICES ASSUME Init PROVE IInv
  OBVIOUS
<1>1. FirstVersion \in Version
  BY DEF FirstVersion, Version
<1>2. hist \in History
  <2> DEFINE entry == [parent |-> 0, version |-> FirstVersion,
                       view |-> DefaultView, files |-> {}]
             none == <<>>
  <2>1. entry \in Entry
    BY <1>1, ConstantsOK DEF Entry
  <2>2. <<entry>> \in Seq(Entry) /\ none \in Seq(Nat)
    BY <2>1
  <2>3. hist = [gen |-> 1, active |-> 1, head |-> FirstVersion,
                entries |-> <<entry>>, redo |-> none, override |-> None,
                removed |-> FALSE, activeRev |-> 0]
    BY DEF Init
  <2> HIDE DEF entry, none
  <2> DEFINE es == <<entry>>
  <2> HIDE DEF es
  <2>4. es \in Seq(Entry)
    BY <2>2 DEF es
  <2>5. hist = [gen |-> 1, active |-> 1, head |-> FirstVersion,
                entries |-> es, redo |-> none, override |-> None,
                removed |-> FALSE, activeRev |-> 0]
    BY <2>3 DEF es
  <2> QED
    BY <1>1, <2>2, <2>4, <2>5 DEF History
<1>3. NoCommand \in Command /\ NothingOffered \in [undo : Nat, redo : Nat]
  BY DEF NoCommand, Command, Phases, NothingOffered
<1>4. TypeOK
  BY <1>1, <1>2, <1>3 DEF Init, TypeOK
<1>5. Stored = FirstVersion /\ hist.head = FirstVersion
  BY DEF Init, Stored
<1>6. \A s \in Tabs : cmd[s] = NoCommand
  BY DEF Init
<1>7. ActivationsDrawn /\ OperationsBound
  BY <1>6 DEF Init, FirstVersion, NoCommand, ActivationsDrawn, OperationsBound
<1>8. EntriesRetained
  BY <1>6 DEF Init, NoCommand, EntriesRetained, ActiveRetained
<1> QED
  BY <1>4, <1>5, <1>7, <1>8 DEF Init, IInv, JournalBound, HistoryBindsHead

\* A read takes the stored project and what the operation is to make of it.
LEMMA ReadStep ==
    ASSUME IInv, NEW s \in Tabs, NEW kind \in Kinds,
           NEW next \in Version \cup {None}, NEW view \in Views \cup {None},
           NEW target \in Nat,
           Reads(s, kind, next, view, target),
           UNCHANGED <<store, package, tab, shown, activations, intakes>>,
           kind \in Intents => Saves([kind |-> kind, prior |-> Stored, next |-> next]),
           kind = "VIEW" => row # None /\ next # None,
           kind = "REMOVE" => row # None,
           kind # "IMPORT"
    PROVE  IInv'
<1> DEFINE c == [NoCommand EXCEPT !.phase = "read", !.kind = kind,
                                  !.prior = Stored, !.next = next,
                                  !.view = view, !.target = target,
                                  !.file = cmd[s].file]
<1>1. /\ cmd[s] \in Command
      /\ Stored \in Version \cup {None}
      /\ Stored = None <=> row = None
      /\ Stored # None => Stored.act <= activations
  BY CommandType
<1>2. /\ c.phase = "read" /\ c.kind = kind /\ c.prior = Stored
      /\ c.next = next /\ c.view = view
  BY DEF NoCommand
<1>3. c \in Command
  BY <1>1 DEF NoCommand, Command, Phases
<1>4. cmd' = [cmd EXCEPT ![s] = c]
  BY DEF Reads
<1> HIDE DEF c
<1>5. Begun(c)
  BY <1>1, <1>2 DEF Begun, Saves
<1>6. OtherTypes' /\ activations <= activations'
  BY DEF IInv, TypeOK, OtherTypes, store
<1> QED
  BY <1>1, <1>2, <1>3, <1>4, <1>5, <1>6, QuietStep DEF store

\* What a tab submits saves on top of the stored project.
LEMMA CandidateType ==
    ASSUME IInv, NEW s \in Tabs, NEW kind \in Intents, tab[s] # None,
           SubmitsCurrent(s), NEW candidate \in Candidates(s, kind)
    PROVE  LET next == Revised(kind, candidate) IN
           /\ next \in Version
           /\ Saves([kind |-> kind, prior |-> Stored, next |-> next])
<1>1. Stored \in Version /\ tab[s] = Stored /\ cmd[s].file \in Nat
  BY CommandType DEF IInv, TypeOK, SubmitsCurrent, Command
<1>2. ASSUME kind # "OPERATE", candidate \in Version,
             candidate.act = Stored.act, Stored.work \subseteq candidate.work,
             Stored.atts \subseteq candidate.atts, candidate.ops = Stored.ops
      PROVE  LET next == Revised(kind, candidate) IN
             /\ next \in Version
             /\ Saves([kind |-> kind, prior |-> Stored, next |-> next])
  <2>1. CASE candidate = Stored
    BY <1>1, <1>2, <2>1 DEF Revised, Saves
  <2>2. CASE candidate # Stored
    <3> DEFINE next == [candidate EXCEPT !.rev = Stored.rev + 1]
    <3>1. Revised(kind, candidate) = next
      BY <1>2, <2>2 DEF Revised
    <3>2. /\ next \in Version
          /\ next.rev = Stored.rev + 1 /\ next.act = candidate.act
          /\ next.work = candidate.work /\ next.atts = candidate.atts
          /\ next.ops = candidate.ops
      BY <1>1, <1>2 DEF Version
    <3> HIDE DEF next
    <3> QED
      BY <1>1, <1>2, <3>1, <3>2 DEF Saves
  <2> QED
    BY <2>1, <2>2
<1>3. CASE kind = "WRITE"
  <2>1. \/ candidate = Stored
        \/ \E e \in Edits : candidate = [Stored EXCEPT !.work = @ \cup {e}]
    BY <1>1, <1>3 DEF Candidates
  <2>2. /\ candidate \in Version
        /\ candidate.act = Stored.act /\ Stored.work \subseteq candidate.work
        /\ Stored.atts \subseteq candidate.atts /\ candidate.ops = Stored.ops
    BY <1>1, <2>1 DEF Version
  <2> QED
    BY <1>2, <1>3, <2>2
<1>4. CASE kind = "OPERATE"
  <2>1. PICK o \in Events : candidate = [Stored EXCEPT !.ops = @ \cup {o}]
    BY <1>1, <1>4 DEF Candidates
  <2> QED
    BY <1>1, <1>4, <2>1 DEF Revised, Saves, Version
<1>5. CASE kind = "ATTACH"
  <2>1. candidate = [Stored EXCEPT !.atts = @ \cup {cmd[s].file}]
    BY <1>1, <1>5 DEF Candidates
  <2>2. /\ candidate \in Version
        /\ candidate.act = Stored.act /\ Stored.work \subseteq candidate.work
        /\ Stored.atts \subseteq candidate.atts /\ candidate.ops = Stored.ops
    BY <1>1, <2>1 DEF Version
  <2> QED
    BY <1>2, <1>5, <2>2
<1> QED
  BY <1>3, <1>4, <1>5 DEF Intents

\* Beginning an operation keeps IInv.
LEMMA BeginInvariant ==
    ASSUME IInv, NEW s \in Tabs, Begin(s) PROVE IInv'
<1> USE DEF store
<1>0. /\ cmd[s] \in Command /\ NoCommand \in Command
      /\ Stored \in Version \cup {None}
      /\ Stored = None <=> row = None
      /\ Stored # None => Stored.act <= activations
      /\ tab[s] \in Version \cup {None}
      /\ OtherTypes
      /\ activations \in Nat /\ intakes \in Nat
  BY CommandType DEF IInv, TypeOK, OtherTypes
<1>1. CASE StoreFile(s)
  <2> DEFINE c == [NoCommand EXCEPT !.phase = "stored", !.file = intakes']
  <2>1. intakes' \in Nat
    BY <1>0, <1>1 DEF StoreFile
  <2>2. c \in Command /\ c.phase = "stored" /\ c.prior = None
    BY <2>1 DEF NoCommand, Command, Phases
  <2>4. cmd' = [cmd EXCEPT ![s] = c]
    BY <1>1 DEF StoreFile
  <2>3. OtherTypes' /\ activations <= activations'
    BY <1>0, <1>1 DEF StoreFile, OtherTypes
  <2> HIDE DEF c
  <2> QED
    BY <1>1, <2>2, <2>3, <2>4, QuietStep DEF StoreFile
<1>2. ASSUME NEW kind \in Intents, Submit(s, kind) PROVE IInv'
  <2>1. PICK candidate \in Candidates(s, kind), view \in Views :
            Reads(s, kind, Revised(kind, candidate), view, 0)
    BY <1>2 DEF Submit
  <2>2. /\ Revised(kind, candidate) \in Version
        /\ Saves([kind |-> kind, prior |-> Stored,
                  next |-> Revised(kind, candidate)])
    BY <1>2, CandidateType DEF Submit
  <2>3. kind \in Kinds /\ kind \notin {"VIEW", "REMOVE", "IMPORT"}
    BY DEF Intents, Kinds
  <2> QED
    BY <1>2, <2>1, <2>2, <2>3, ReadStep DEF Submit
<1>3. ASSUME NEW kind \in Intents, SubmitStale(s, kind) PROVE IInv'
  <2> DEFINE c == [cmd[s] EXCEPT !.phase = "conflict"]
  <2>1. /\ c \in Command /\ c.phase = "conflict" /\ c.prior = cmd[s].prior
    BY <1>0 DEF Command, Phases
  <2>2. cmd' = [cmd EXCEPT ![s] = c]
    BY <1>3 DEF SubmitStale
  <2>3. c.prior # None => c.prior.act <= activations
    BY <2>1 DEF IInv, ActivationsDrawn
  <2>4. OtherTypes' /\ activations <= activations'
    BY <1>0, <1>3 DEF SubmitStale, OtherTypes
  <2> HIDE DEF c
  <2> QED
    BY <1>0, <1>3, <2>1, <2>2, <2>3, <2>4, QuietStep DEF SubmitStale
<1>4. CASE BeginView(s)
  <2>1. PICK view \in Views : Reads(s, "VIEW", tab[s], view, 0)
    BY <1>4 DEF BeginView
  <2> QED
    BY <1>0, <1>4, <2>1, ReadStep DEF BeginView, Kinds, Intents
<1>5. ASSUME NEW mode \in Restores, BeginRestore(s, mode) PROVE IInv'
  <2>1. Targets(s, mode) \subseteq Nat
    BY EntryType DEF Targets, Restores, IInv, TypeOK
  <2>2. PICK id \in Nat : Reads(s, mode, None, None, id)
    BY <1>5, <2>1 DEF BeginRestore
  <2>3. mode \in Kinds /\ mode \notin Intents \cup {"VIEW", "REMOVE", "IMPORT"}
    BY DEF Restores, Kinds, Intents
  <2> QED
    BY <1>5, <2>2, <2>3, ReadStep DEF BeginRestore
<1>6. CASE BeginRemove(s)
  <2>1. PICK view \in Views : Reads(s, "REMOVE", None, view, 0)
    BY <1>6 DEF BeginRemove
  <2> QED
    BY <1>6, <2>1, ReadStep DEF BeginRemove, Kinds, Intents
<1>7. CASE BeginImport(s)
  <2> DEFINE c == [NoCommand EXCEPT !.phase = "read", !.kind = "IMPORT",
                                    !.prior = Stored, !.next = package.version,
                                    !.view = package.view,
                                    !.target = package.active,
                                    !.files = package.files]
  <2>1. package \in Package
    BY <1>0, <1>7 DEF BeginImport, OtherTypes
  <2>2. /\ package.version \in Version /\ package.view \in Views
        /\ package.active \in Nat /\ package.files \in SUBSET Nat
    BY <2>1 DEF Package
  <2>3. c \in Command
    BY <1>0, <2>2 DEF NoCommand, Command, Phases, Kinds
  <2>4. /\ c.phase = "read" /\ c.kind = "IMPORT" /\ c.prior = Stored
        /\ c.next = package.version /\ c.view = package.view
        /\ c.target \in DOMAIN hist.entries
    BY <1>7 DEF BeginImport, NoCommand, IInv, EntriesRetained
  <2>5. cmd' = [cmd EXCEPT ![s] = c]
    BY <1>7 DEF BeginImport
  <2> HIDE DEF c
  <2>6. Begun(c)
    BY <2>2, <2>4 DEF Begun, Kinds, Intents
  <2>7. OtherTypes' /\ activations <= activations'
    BY <1>0, <1>7 DEF BeginImport, OtherTypes
  <2> QED
    BY <1>0, <1>7, <2>3, <2>4, <2>5, <2>6, <2>7, QuietStep DEF BeginImport
<1> QED
  BY <1>1, <1>2, <1>3, <1>4, <1>5, <1>6, <1>7 DEF Begin

\* A prepared operation holds the History it will commit, later than the one
\* it was prepared from.
LEMMA ReadyStep ==
    ASSUME IInv, NEW s \in Tabs, cmd[s].phase = "read",
           NEW next \in Version \cup {None}, NEW fs \in SUBSET Nat,
           NEW plan \in History, hist.gen < plan.gen, Follows(hist, plan),
           Readies(s, next, fs, plan),
           UNCHANGED <<store, package, tab, shown, intakes>>,
           activations' \in Nat, activations <= activations',
           cmd[s].kind \in Intents \cup {"VIEW"} => next = cmd[s].next,
           cmd[s].kind \in Intents \cup Activations =>
               next \in Version /\ plan.head = next,
           cmd[s].kind \in Activations =>
               activations < activations' /\ next.act = activations',
           cmd[s].kind = "VIEW" => plan.head \in {cmd[s].prior, hist.head}
    PROVE  IInv'
<1> USE DEF store
<1>1. cmd[s] \in Command /\ hist \in History /\ hist.gen \in Nat
  BY DEF IInv, TypeOK, History
<1>2. PICK c : c = [cmd[s] EXCEPT !.phase = "ready", !.next = next,
                                  !.files = fs, !.gen = hist.gen, !.plan = plan]
  OBVIOUS
<1>3. /\ c.phase = "ready" /\ c.kind = cmd[s].kind /\ c.prior = cmd[s].prior
      /\ c.next = next /\ c.view = cmd[s].view
      /\ c.gen = hist.gen /\ c.plan = plan
      /\ c \in Command
  BY <1>1, <1>2 DEF Command, Phases
<1>4. cmd' = [cmd EXCEPT ![s] = c]
  BY <1>2 DEF Readies
<1>5. Begun(cmd[s])
  BY DEF IInv, OperationsBound
<1>6. Begun(c)
  BY <1>3, <1>5 DEF Begun, Saves
<1>7. /\ activations \in Nat
      /\ c.prior # None => c.prior.act <= activations /\ c.prior.act \in Nat
  BY <1>1, <1>3 DEF IInv, TypeOK, ActivationsDrawn, Command, Version
<1>8. Prepared(c)'
  <2>1. /\ c.plan \in History /\ c.gen <= hist'.gen /\ c.gen < c.plan.gen
        /\ c.gen = hist'.gen => Follows(hist', c.plan)
    BY <1>1, <1>3
  <2>2. c.kind \in Activations =>
            /\ c.next.act <= activations'
            /\ c.prior # None => c.prior.act < c.next.act
    BY <1>3, <1>7
  <2> QED
    BY <1>3, <2>1, <2>2 DEF Prepared
<1>9. OtherTypes'
  BY DEF IInv, TypeOK, OtherTypes
<1>10. c.prior # None => c.prior.act <= activations'
  BY <1>7
<1> QED
  BY <1>3, <1>4, <1>6, <1>8, <1>9, <1>10, QuietStep

\* An import retains what it replaces with stored files, all there are or those
\* of the active entry.
LEMMA ImportsOver ==
    ASSUME IInv, NEW s, PrepareImport(s) \/ PrepareImportOverDamage(s)
    PROVE  \E kept \in SUBSET Nat : ImportOver(s, kept)
<1>1. CASE PrepareImport(s)
  BY <1>1 DEF PrepareImport, IInv, TypeOK
<1>2. CASE PrepareImportOverDamage(s)
  <2> DEFINE kept == hist.entries[hist.active].files
  <2>1. kept \in SUBSET Nat
    BY EntryType DEF IInv, TypeOK, EntriesRetained, ActiveRetained
  <2>2. ImportOver(s, kept)
    BY <1>2 DEF PrepareImportOverDamage
  <2> QED
    BY <2>1, <2>2
<1> QED
  BY <1>1, <1>2

\* Preparing a checkpoint keeps IInv.
LEMMA PrepareInvariant ==
    ASSUME IInv, NEW s \in Tabs, Prepare(s) PROVE IInv'
<1>0. /\ cmd[s] \in Command
      /\ hist \in History /\ hist.gen \in Nat /\ hist.activeRev \in Nat
      /\ hist.head \in Version
      /\ files \in SUBSET Nat /\ activations \in Nat
      /\ ActiveRetained(hist)
  BY DEF IInv, TypeOK, EntriesRetained, History
<1>p. hist \in History /\ files \in SUBSET Nat
  BY <1>0
<1>c. /\ cmd[s].prior \in Version \cup {None}
      /\ cmd[s].next \in Version \cup {None}
      /\ cmd[s].view \in Views \cup {None}
      /\ cmd[s].target \in Nat /\ cmd[s].files \in SUBSET Nat
  BY <1>0 DEF Command
<1>b. cmd[s].phase = "read" => Begun(cmd[s])
  BY DEF IInv, OperationsBound
<1>k. Intents \cap {"VIEW", "REMOVE", "IMPORT", "UNDO", "REDO", "HISTORY"} = {}
  BY DEF Intents
<1>1. CASE PrepareWrite(s)
  <2> DEFINE plan == PrepareHistory(hist, cmd[s].next, cmd[s].prior,
                                    cmd[s].view, files)
  <2>1. cmd[s].kind \in Intents /\ cmd[s].phase = "read"
    BY <1>1 DEF PrepareWrite, Prepares
  <2>2. cmd[s].next \in Version
    BY <1>b, <2>1 DEF Begun, Saves
  <2>3. plan \in History /\ plan.head = cmd[s].next /\ plan.gen = hist.gen + 1
    <3>1. PICK next \in Version, prior \in Version \cup {None},
               view \in Views \cup {None} :
              next = cmd[s].next /\ prior = cmd[s].prior /\ view = cmd[s].view
      BY <1>c, <2>2
    <3>2. LET k == PrepareHistory(hist, next, prior, view, files) IN
          k \in History /\ k.head = next /\ k.gen = hist.gen + 1
      BY <1>p, PrepareHistoryType
    <3> QED
      BY <3>1, <3>2
  <2>4. Readies(s, cmd[s].next, {}, plan) /\ Follows(hist, plan)
    BY <1>0, <1>c, <1>1, <2>2, PrepareHistoryFollows DEF PrepareWrite
  <2> HIDE DEF plan
  <2>5. hist.gen < plan.gen /\ cmd[s].kind \notin Activations \cup {"VIEW"}
    BY <1>0, <1>k, <2>1, <2>3 DEF Activations, Restores
  <2> QED
    BY <1>0, <1>1, <2>1, <2>2, <2>3, <2>4, <2>5, ReadyStep DEF PrepareWrite
<1>2. CASE PrepareView(s)
  <2> DEFINE plan == PrepareHistory(hist, cmd[s].prior, cmd[s].prior,
                                    cmd[s].view, files)
  <2>1. cmd[s].kind = "VIEW" /\ cmd[s].phase = "read"
    BY <1>2 DEF PrepareView, Prepares
  <2>2. cmd[s].prior \in Version /\ cmd[s].next \in Version
    BY <1>b, <2>1 DEF Begun
  <2>3. plan \in History /\ plan.head = cmd[s].prior /\ plan.gen = hist.gen + 1
    BY <1>0, <1>c, <2>2, SavedHistoryType
  <2>4. Readies(s, cmd[s].next, {}, plan) /\ Follows(hist, plan)
    BY <1>0, <1>c, <1>2, <2>2, SavedHistoryFollows DEF PrepareView
  <2> HIDE DEF plan
  <2>5. hist.gen < plan.gen /\ cmd[s].kind \notin Activations \cup Intents
    BY <1>0, <2>1, <2>3 DEF Activations, Restores, Intents
  <2> QED
    BY <1>0, <1>2, <2>1, <2>2, <2>3, <2>4, <2>5, ReadyStep DEF PrepareView
<1>3. CASE PrepareStaleView(s)
  <2>1. cmd[s].kind = "VIEW" /\ cmd[s].phase = "read"
    BY <1>3 DEF PrepareStaleView, Prepares
  <2>2. cmd[s].next \in Version
    BY <1>b, <2>1 DEF Begun
  <2>3. PICK i \in DOMAIN hist.entries :
            LET source == [hist EXCEPT !.active = i, !.head = cmd[s].next,
                                       !.override = None]
                saved == PrepareHistory(source, cmd[s].next, cmd[s].next,
                                        cmd[s].view, hist.entries[i].files)
            IN  Readies(s, cmd[s].next, {}, [hist EXCEPT !.entries = saved.entries,
                                                         !.gen = saved.gen])
    BY <1>3 DEF PrepareStaleView
  <2> DEFINE source == [hist EXCEPT !.active = i, !.head = cmd[s].next,
                                    !.override = None]
             saved == PrepareHistory(source, cmd[s].next, cmd[s].next,
                                     cmd[s].view, hist.entries[i].files)
             plan == [hist EXCEPT !.entries = saved.entries, !.gen = saved.gen]
  <2>4. i \in Nat /\ hist.entries[i].files \in SUBSET Nat
    BY <1>0, EntryType
  <2>5. /\ source \in History /\ source.gen = hist.gen
        /\ source.entries = hist.entries /\ ActiveRetained(source)
    BY <1>0, <2>2, <2>4 DEF History, ActiveRetained
  <2>6. /\ saved \in History /\ saved.gen = hist.gen + 1
        /\ Extends(source, saved)
    <3> HIDE DEF source
    <3> QED
      BY <1>c, <2>2, <2>4, <2>5, SavedHistoryType, SavedHistoryFollows DEF Follows
  <2>7. Readies(s, cmd[s].next, {}, plan)
    BY <2>3
  <2>8. /\ plan \in History /\ plan.head = hist.head /\ plan.gen = hist.gen + 1
        /\ plan.entries = saved.entries /\ plan.active = hist.active
    <3> HIDE DEF saved
    <3> QED
      BY <1>0, <2>6 DEF History
  <2> HIDE DEF plan, saved, source
  <2>10. Follows(hist, plan)
    <3>1. Extends(hist, plan)
      BY <2>5, <2>6, <2>8 DEF Extends
    <3>2. hist.entries \in Seq(Entry) /\ plan.entries \in Seq(Entry)
      BY <1>0, <2>8 DEF History
    <3> QED
      BY <1>0, <2>8, <3>1, <3>2 DEF Follows, Extends, ActiveRetained
  <2>9. hist.gen < plan.gen /\ cmd[s].kind \notin Activations \cup Intents
    BY <1>0, <2>1, <2>8 DEF Activations, Restores, Intents
  <2> QED
    BY <1>0, <1>3, <2>1, <2>2, <2>7, <2>8, <2>9, <2>10, ReadyStep
       DEF PrepareStaleView
<1>4. CASE PrepareRestore(s)
  <2> DEFINE id == cmd[s].target
             entry == hist.entries[id]
             next == [entry.version EXCEPT
                         !.rev = Larger(KnownRevision(s), entry.version.rev) + 1,
                         !.act = activations + 1]
             redo == RestoredRedo(cmd[s].kind, id)
             gen == hist.gen + 1
             plan == [Activated(hist, id, next, entry.view, redo)
                          EXCEPT !.gen = gen]
  <2>1. cmd[s].kind \in Restores /\ cmd[s].phase = "read"
    BY <1>4 DEF PrepareRestore, Prepares
  <2>2. /\ id \in Nat /\ entry.version \in Version
        /\ entry.view \in Views /\ entry.files \in SUBSET Nat
    BY <1>0, <1>4, EntryType DEF PrepareRestore
  <2>3. KnownRevision(s) \in Nat
    BY <1>0, <1>c DEF KnownRevision, Version
  <2>4. next \in Version /\ next.act = activations + 1
    <3>1. Larger(KnownRevision(s), entry.version.rev) + 1 \in Nat
      BY <2>2, <2>3 DEF Larger, Version
    <3>2. activations + 1 \in Nat
      BY <1>0
    <3> QED
      BY <2>2, <3>1, <3>2, ActivatedVersionType, Zenon
  <2>5. redo \in Seq(Nat) /\ gen \in Nat
    BY <1>0, <1>c, RestoredRedoType
  <2>6. plan \in History /\ plan.head = next /\ plan.gen = gen
    <3> HIDE DEF next, redo, gen, entry
    <3> QED
      BY <1>0, <2>2, <2>4, <2>5, RestoredHistoryType
  <2>7. Readies(s, next, entry.files, plan) /\ Follows(hist, plan)
    BY <1>0, <1>4, ActivatedFollows DEF PrepareRestore
  <2>8. hist.gen < plan.gen
    BY <1>0, <2>6
  <2> HIDE DEF next, plan
  <2>9. cmd[s].kind \in Activations /\ cmd[s].kind \notin Intents \cup {"VIEW"}
    BY <2>1 DEF Activations, Restores, Intents
  <2>10. /\ activations' \in Nat /\ activations < activations'
         /\ next.act = activations'
    BY <1>0, <1>4, <2>4 DEF PrepareRestore
  <2> QED
    BY <1>0, <1>4, <2>1, <2>2, <2>4, <2>6, <2>7, <2>8, <2>9, <2>10, ReadyStep
       DEF PrepareRestore
<1>5. CASE PrepareRemove(s)
  <2> DEFINE saved == PrepareHistory(hist, cmd[s].prior, cmd[s].prior,
                                     cmd[s].view, files)
             plan == [saved EXCEPT !.removed = TRUE]
  <2>1. cmd[s].kind = "REMOVE" /\ cmd[s].phase = "read"
    BY <1>5 DEF PrepareRemove, Prepares
  <2>2. cmd[s].prior \in Version
    BY <1>b, <2>1 DEF Begun
  <2>3. saved \in History /\ saved.gen = hist.gen + 1
    BY <1>0, <1>c, <2>2, SavedHistoryType
  <2>7. Follows(hist, saved)
    BY <1>0, <1>c, <2>2, SavedHistoryFollows
  <2>4. plan \in History /\ plan.gen = hist.gen + 1 /\ Follows(hist, plan)
    <3> HIDE DEF saved
    <3> QED
      BY <2>3, <2>7 DEF History, Follows, Extends, ActiveRetained
  <2>5. Readies(s, None, {}, plan)
    BY <1>5 DEF PrepareRemove
  <2> HIDE DEF plan
  <2>6. /\ hist.gen < plan.gen
        /\ cmd[s].kind \notin Activations \cup Intents \cup {"VIEW"}
    BY <1>0, <2>1, <2>4 DEF Activations, Restores, Intents
  <2> QED
    BY <1>0, <1>5, <2>1, <2>4, <2>5, <2>6, ReadyStep DEF PrepareRemove
<1>6. CASE PrepareImport(s) \/ PrepareImportOverDamage(s)
  <2>0. PICK kept \in SUBSET Nat : ImportOver(s, kept)
    BY <1>6, ImportsOver
  <2> DEFINE c == cmd[s]
             local == ReplacedHistory(c.prior, kept)
             merged == [local EXCEPT !.active = c.target]
             entry == hist.entries[c.target]
             next == [c.next EXCEPT !.rev = ImportedRevision(c.prior, c.next),
                                    !.act = activations + 1]
             none == <<>>
             gen == local.gen + 1
             activated == [Activated(merged, c.target, next, c.view, none)
                               EXCEPT !.gen = gen]
             appended == PrepareHistory(merged, next, None, c.view, c.files)
             plan == IF SameWork(entry.version, c.next) /\ entry.files = c.files
                     THEN activated ELSE appended
  <2>1. cmd[s].kind = "IMPORT" /\ cmd[s].phase = "read"
    BY <2>0 DEF ImportOver, Prepares
  <2>2. c.next \in Version /\ c.view \in Views
    BY <1>b, <2>1 DEF Begun
  <2>3. /\ local \in History /\ local.gen \in Nat /\ hist.gen <= local.gen
        /\ Extends(hist, local)
    <3>1. CASE c.prior = None
      BY <1>0, <3>1 DEF Extends, ReplacedHistory
    <3>2. CASE c.prior # None
      <4> DEFINE saved == PrepareHistory(hist, c.prior, c.prior, None, kept)
      <4>1. local = saved /\ c.prior \in Version
        BY <1>c, <3>2 DEF ReplacedHistory
      <4>2. None \in Views \cup {None}
        OBVIOUS
      <4>3. /\ saved \in History /\ saved.gen = hist.gen + 1
            /\ Extends(hist, saved)
        BY <1>0, <4>1, <4>2, SavedHistoryType, SavedHistoryFollows DEF Follows
      <4> HIDE DEF saved, local
      <4> QED
        BY <1>0, <4>1, <4>3
    <3> HIDE DEF local
    <3> QED
      BY <3>1, <3>2
  <2>4. /\ merged \in History /\ merged.gen = local.gen
        /\ merged.entries = local.entries /\ ActiveRetained(merged)
        /\ c.target \in DOMAIN merged.entries /\ Extends(hist, merged)
    <3>1. c.target \in DOMAIN hist.entries
      BY <2>1 DEF IInv, EntriesRetained
    <3> HIDE DEF local
    <3>2. merged \in History /\ merged.gen = local.gen
          /\ merged.entries = local.entries /\ merged.active = c.target
      BY <1>c, <2>3 DEF History
    <3>3. hist.entries \in Seq(Entry) /\ local.entries \in Seq(Entry)
      BY <1>0, <2>3 DEF History
    <3>4. c.target \in DOMAIN local.entries
      BY <2>3, <3>1, <3>3 DEF Extends
    <3> HIDE DEF merged
    <3> QED
      BY <2>3, <3>2, <3>4 DEF Extends, ActiveRetained
  <2>5. next \in Version /\ next.act = activations + 1
    <3>1. ImportedRevision(c.prior, c.next) \in Nat
      BY <1>c, <2>2 DEF ImportedRevision, Larger, Version
    <3>2. activations + 1 \in Nat
      BY <1>0
    <3> QED
      BY <2>2, <3>1, <3>2, ActivatedVersionType, Zenon
  <2>6. none \in Seq(Nat) /\ gen \in Nat
    BY <2>3
  <2>7. /\ activated \in History /\ activated.head = next /\ activated.gen = gen
        /\ Follows(merged, activated)
    <3> HIDE DEF merged, next, none, gen
    <3>1. /\ activated \in History /\ activated.head = next
          /\ activated.gen = gen
      BY <1>c, <2>2, <2>4, <2>5, <2>6, RestoredHistoryType
    <3>2. Follows(merged, activated)
      BY <2>4, ActivatedFollows
    <3> QED
      BY <3>1, <3>2
  <2>8. /\ appended \in History /\ appended.head = next /\ appended.gen = gen
        /\ Follows(merged, appended)
    <3>1. /\ appended.gen = merged.gen + 1 /\ appended \in History
          /\ appended.head = next /\ Follows(merged, appended)
      <4> DEFINE m == merged
                 p == None
      <4>1. /\ m \in History /\ ActiveRetained(m)
            /\ p \in Version \cup {None} /\ c.view \in Views \cup {None}
            /\ c.files \in SUBSET Nat /\ m.gen = merged.gen
            /\ appended = PrepareHistory(m, next, p, c.view, c.files)
        BY <1>c, <2>2, <2>4
      <4> HIDE DEF m, p, merged, next, local, appended
      <4>2. /\ appended \in History /\ appended.head = next
            /\ appended.gen = m.gen + 1
        BY <2>5, <4>1, PrepareHistoryType
      <4>3. Follows(m, appended)
        BY <2>5, <4>1, PrepareHistoryFollows
      <4> QED
        BY <4>1, <4>2, <4>3 DEF m
    <3> HIDE DEF merged, appended
    <3> QED
      BY <2>4, <3>1
  <2>9. /\ plan \in History /\ plan.head = next /\ hist.gen < plan.gen
        /\ Follows(hist, plan)
    <3>1. /\ plan \in History /\ plan.head = next /\ plan.gen = gen
          /\ Follows(merged, plan)
      <4> HIDE DEF activated, appended
      <4> QED
        BY <2>7, <2>8
    <3> HIDE DEF plan, local, merged
    <3>2. hist.gen < plan.gen
      BY <1>0, <2>3, <3>1
    <3> QED
      BY <1>0, <2>4, <3>1, <3>2, ExtendsTransitive DEF Follows
  <2>10. Readies(s, next, c.files, plan)
    BY <2>0 DEF ImportOver
  <2>11. c.kind \in Activations /\ c.kind \notin Intents \cup {"VIEW"}
    BY <2>1 DEF Activations, Intents
  <2>12. /\ activations' \in Nat /\ activations < activations'
         /\ next.act = activations'
    BY <1>0, <2>0, <2>5 DEF ImportOver
  <2> HIDE DEF next, plan
  <2> QED
    BY <1>0, <1>c, <2>0, <2>1, <2>5, <2>9, <2>10, <2>11, <2>12, ReadyStep
       DEF ImportOver
<1> QED
  BY <1>1, <1>2, <1>3, <1>4, <1>5, <1>6 DEF Prepare

\* What a commit makes of the stored project.
Committing(s) ==
    \/ CommitWrite(s)
    \/ CommitOperate(s)
    \/ CommitView(s)
    \/ CommitActivation(s)

\* What holds when an operation commits.
LEMMA CommitFacts ==
    ASSUME IInv, NEW s \in Tabs, NEW kinds, Commits(s, kinds)
    PROVE  /\ cmd[s] \in Command /\ cmd[s].phase = "ready" /\ cmd[s].kind \in kinds
           /\ Begun(cmd[s]) /\ Prepared(cmd[s])
           /\ HistoryUnchanged(s) /\ hist' = cmd[s].plan
           /\ Stored = cmd[s].prior /\ cmd[s].gen = hist.gen
BY DEF IInv, TypeOK, OperationsBound, Commits, HeadUnchanged, HistoryUnchanged

\* A save makes the stored project what it submitted; its journal, if any, is
\* bound to the row it leaves.
LEMMA SaveStores ==
    ASSUME IInv, NEW s \in Tabs, CommitWrite(s) \/ CommitOperate(s)
    PROVE  /\ Saves(cmd[s])
           /\ row \in Version /\ row' \in Version
           /\ journal' \in Journal \cup {None}
           /\ Stored = cmd[s].prior /\ Stored' = cmd[s].next
           /\ row'.act = row.act
           /\ JournalBound' /\ HistoryBindsHead'
           /\ Stored' # Stored =>
                  Stored'.rev = IF row' = row THEN row.rev ELSE row.rev + 1
<1>1. Commits(s, {"WRITE", "ATTACH"}) \/ Commits(s, {"OPERATE"})
  BY DEF CommitWrite, CommitOperate
<1>2. /\ Saves(cmd[s]) /\ Stored = cmd[s].prior
      /\ cmd[s].prior \in Version /\ cmd[s].next \in Version
      /\ hist'.head = cmd[s].next
      /\ cmd[s].next.act = cmd[s].prior.act
  BY <1>1, CommitFacts DEF Begun, Saves, Prepared, Intents
<1>3. /\ row \in Version /\ Stored.rev = row.rev /\ Stored.act = row.act
      /\ journal \in Journal \cup {None}
  BY <1>2, StoredType, NoneIsDistinct DEF IInv, TypeOK
<1>4. CASE CommitWrite(s)
  <2>1. cmd[s].kind # "OPERATE"
    BY <1>4, CommitFacts DEF CommitWrite
  <2>2. CASE cmd[s].next = cmd[s].prior
    <3>1. UNCHANGED <<row, journal>>
      BY <1>4, <2>2 DEF CommitWrite
    <3>2. Stored' = Stored
      BY <3>1 DEF Stored
    <3> QED
      BY <1>2, <1>3, <2>2, <3>1, <3>2 DEF IInv, JournalBound, HistoryBindsHead
  <2>3. CASE cmd[s].next # cmd[s].prior
    <3>1. row' = cmd[s].next /\ journal' = None
      BY <1>4, <2>3 DEF CommitWrite
    <3>2. Stored' = cmd[s].next
      BY <3>1 DEF Stored
    <3>3. cmd[s].next.rev = cmd[s].prior.rev + 1
      BY <1>2, <2>1, <2>3 DEF Saves
    <3>4. cmd[s].next.rev # row.rev
      BY <1>2, <1>3, <3>3 DEF Version
    <3> QED
      BY <1>2, <1>3, <3>1, <3>2, <3>3, <3>4 DEF JournalBound, HistoryBindsHead
  <2> QED
    BY <2>2, <2>3
<1>5. CASE CommitOperate(s)
  <2>1. cmd[s].kind = "OPERATE"
    BY <1>5, CommitFacts DEF CommitOperate
  <2>2. row' = row /\ journal' = [base |-> row, ops |-> cmd[s].next.ops]
    BY <1>5 DEF CommitOperate
  <2>3. journal' \in Journal /\ journal'.base = row
        /\ journal'.ops = cmd[s].next.ops
    BY <1>2, <1>3, <2>2 DEF Journal, Version
  <2>4. Stored' = [row EXCEPT !.ops = cmd[s].next.ops]
    BY <1>3, <2>2, <2>3, NoneIsDistinct DEF Stored
  <2>5. cmd[s].next = [Stored EXCEPT !.ops = cmd[s].next.ops]
    BY <1>2, <2>1 DEF Saves
  <2>6. Stored' = cmd[s].next
    BY <1>3, <2>4, <2>5 DEF Stored, Version
  <2>7. Stored'.rev = row.rev
    BY <1>3, <2>4 DEF Version
  <2> QED
    BY <1>2, <1>3, <2>2, <2>3, <2>6, <2>7, NoneIsDistinct
       DEF JournalBound, HistoryBindsHead
<1> QED
  BY <1>4, <1>5

\* Every commit keeps IInv.
LEMMA CommitInvariant ==
    ASSUME IInv, NEW s \in Tabs, Commit(s) PROVE IInv'
<1>0. /\ cmd[s] \in Command /\ NoCommand \in Command
      /\ Stored = None <=> row = None
      /\ tab \in [Tabs -> Version \cup {None}]
      /\ OtherTypes
  BY CommandType DEF IInv, TypeOK, OtherTypes
<1> DEFINE c == [NoCommand EXCEPT !.phase = "refresh", !.file = cmd[s].file]
<1>1. c \in Command /\ c.phase = "refresh" /\ c.prior = None
  BY <1>0 DEF NoCommand, Command, Phases
<1>2. ASSUME Committed(s) PROVE cmd' = [cmd EXCEPT ![s] = c]
  BY <1>2 DEF Committed
<1> HIDE DEF c
<1>3. CASE CommitWrite(s) \/ CommitOperate(s)
  <2>1. PICK kinds : Commits(s, kinds) /\ Committed(s)
    BY <1>3 DEF CommitWrite, CommitOperate
  <2>2. /\ Saves(cmd[s]) /\ Stored = cmd[s].prior
        /\ row \in Version /\ row' \in Version /\ row'.act = row.act
        /\ journal' \in Journal \cup {None}
        /\ JournalBound' /\ HistoryBindsHead'
    BY <1>3, SaveStores
  <2>3. row'.act <= activations
    BY <2>2, NoneIsDistinct DEF IInv, ActivationsDrawn
  <2>4. OtherTypes' /\ UNCHANGED <<activations, package>>
    BY <1>0, <1>3, <2>2 DEF CommitWrite, CommitOperate, OtherTypes, Saves
  <2> QED
    BY <1>1, <1>2, <2>1, <2>2, <2>3, <2>4, CommitFacts, CommitStep
<1>4. CASE CommitView(s)
  <2>1. Commits(s, {"VIEW"}) /\ Committed(s) /\ UNCHANGED <<row, journal>>
    BY <1>4 DEF CommitView
  <2>2. hist'.head \in {Stored, hist.head} /\ Stored' = Stored
    BY <2>1, CommitFacts DEF Prepared, Stored
  <2>3. HistoryBindsHead' /\ JournalBound'
    BY <2>1, <2>2 DEF IInv, HistoryBindsHead, JournalBound
  <2>4. OtherTypes' /\ UNCHANGED <<activations, package>>
    BY <1>0, <1>4 DEF CommitView, OtherTypes
  <2>5. /\ row' \in Version \cup {None} /\ journal' \in Journal \cup {None}
        /\ row' # None => row'.act <= activations
    BY <2>1 DEF IInv, TypeOK, ActivationsDrawn
  <2> QED
    BY <1>1, <1>2, <2>1, <2>3, <2>4, <2>5, CommitFacts, CommitStep
<1>5. CASE CommitActivation(s)
  <2>1. /\ Commits(s, Restores \cup {"IMPORT"}) /\ Committed(s)
        /\ row' = cmd[s].next /\ journal' = None
    BY <1>5 DEF CommitActivation
  <2>2. /\ cmd[s].next \in Version /\ hist'.head = cmd[s].next
        /\ cmd[s].next.act <= activations
    BY <2>1, CommitFacts DEF Prepared, Activations
  <2>3. HistoryBindsHead' /\ JournalBound'
    BY <2>1, <2>2 DEF HistoryBindsHead, JournalBound, Stored
  <2>4. OtherTypes' /\ UNCHANGED <<activations, package>>
    BY <1>0, <1>5, <2>2 DEF CommitActivation, OtherTypes, Command
  <2> QED
    BY <1>1, <1>2, <2>1, <2>2, <2>3, <2>4, CommitFacts, CommitStep
<1>6. CASE CommitRemove(s)
  <2>1. /\ Commits(s, {"REMOVE"}) /\ Leaves(s)
        /\ row' = None /\ journal' = None
    BY <1>6 DEF CommitRemove
  <2>2. cmd[s].prior.rev \in Nat
    BY <2>1, CommitFacts DEF Begun, Version
  <2>3. HistoryBindsHead' /\ JournalBound'
    BY <2>1 DEF HistoryBindsHead, JournalBound
  <2>4. OtherTypes' /\ UNCHANGED <<activations, package>>
    <3>1. /\ files' = {} /\ receipts' = receipts \cup {cmd[s].prior.rev}
          /\ UNCHANGED <<package, activations, intakes>>
      BY <1>6 DEF CommitRemove
    <3>2. tab' \in [Tabs -> Version \cup {None}]
      BY <1>0, <2>1 DEF Leaves
    <3>3. shown' \in [Tabs -> [undo : Nat, redo : Nat]]
      BY <1>0, <2>1 DEF Leaves, NothingOffered, OtherTypes
    <3> QED
      BY <1>0, <2>2, <3>1, <3>2, <3>3 DEF OtherTypes
  <2>5. NoCommand.prior = None /\ NoCommand.phase = "idle"
    BY DEF NoCommand
  <2>6. cmd' = [cmd EXCEPT ![s] = NoCommand]
    BY <2>1 DEF Leaves
  <2> QED
    BY <1>0, <2>1, <2>3, <2>4, <2>5, <2>6, CommitFacts, CommitStep
<1> QED
  BY <1>3, <1>4, <1>5, <1>6 DEF Commit

\* Ending without a commit keeps IInv.
LEMMA ConcludeInvariant ==
    ASSUME IInv, NEW s \in Tabs, Conclude(s) PROVE IInv'
<1> USE DEF store
<1>0. /\ cmd[s] \in Command /\ NoCommand \in Command
      /\ Stored \in Version \cup {None}
      /\ hist \in History /\ Offered(hist) \in [undo : Nat, redo : Nat]
      /\ OtherTypes /\ activations \in Nat
      /\ NoCommand.prior = None /\ NoCommand.phase = "idle"
  BY CommandType, OfferedType DEF IInv, TypeOK, OtherTypes, NoCommand
<1>c. ASSUME NEW c \in Command, c.phase \notin {"read", "ready"}, c.prior = None,
             cmd' = [cmd EXCEPT ![s] = c],
             UNCHANGED <<row, journal, hist, package, activations>>, OtherTypes'
      PROVE  IInv'
  <2>1. activations <= activations'
    BY <1>0, <1>c
  <2> QED
    BY <1>c, <2>1, QuietStep
<1>n. ASSUME cmd' = [cmd EXCEPT ![s] = NoCommand],
             UNCHANGED <<row, journal, hist, package, activations>>, OtherTypes'
      PROVE  IInv'
  BY <1>0, <1>n, <1>c
<1>f. ASSUME Fails(s), UNCHANGED <<row, journal, hist, package, activations>>,
             OtherTypes'
      PROVE  IInv'
  <2> DEFINE c == [NoCommand EXCEPT !.phase = "cleanup", !.file = cmd[s].file]
  <2>1. c \in Command /\ c.phase = "cleanup" /\ c.prior = None
    BY <1>0 DEF NoCommand, Command, Phases
  <2>2. \/ cmd' = [cmd EXCEPT ![s] = NoCommand]
        \/ cmd' = [cmd EXCEPT ![s] = c]
    BY <1>f DEF Fails
  <2> HIDE DEF c
  <2> QED
    BY <1>n, <1>f, <1>c, <2>1, <2>2
<1>1. CASE AcknowledgeRemoval(s)
  <2>1. OtherTypes'
    BY <1>0, <1>1 DEF AcknowledgeRemoval, Leaves, OtherTypes, NothingOffered
  <2> QED
    BY <1>1, <1>n, <2>1 DEF AcknowledgeRemoval, Leaves
<1>2. CASE CommitStale(s)
  <2> DEFINE c == [NoCommand EXCEPT !.phase = "conflict", !.file = cmd[s].file]
  <2>1. c \in Command /\ c.phase = "conflict" /\ c.prior = None
    BY <1>0 DEF NoCommand, Command, Phases
  <2>2. cmd' = [cmd EXCEPT ![s] = c]
    BY <1>2 DEF CommitStale
  <2>3. OtherTypes'
    BY <1>0, <1>2 DEF CommitStale, OtherTypes
  <2> HIDE DEF c
  <2> QED
    BY <1>2, <1>c, <2>1, <2>2, <2>3 DEF CommitStale
<1>3. CASE Resync(s)
  <2>1. OtherTypes'
    BY <1>0, <1>3 DEF Resync, OtherTypes
  <2> QED
    BY <1>3, <1>f, <2>1 DEF Resync
<1>4. CASE Abandon(s) \/ FailBoundary(s)
  <2>1. OtherTypes'
    BY <1>0, <1>4 DEF Abandon, FailBoundary, OtherTypes
  <2> QED
    BY <1>4, <1>f, <2>1 DEF Abandon, FailBoundary
<1>5. CASE DeleteFile(s)
  <2>1. OtherTypes'
    BY <1>0, <1>5 DEF DeleteFile, OtherTypes
  <2> QED
    BY <1>5, <1>n, <2>1 DEF DeleteFile
<1>6. CASE Refresh(s)
  <2>1. OtherTypes'
    BY <1>0, <1>6 DEF Refresh, OtherTypes
  <2> QED
    BY <1>6, <1>n, <2>1 DEF Refresh
<1>7. CASE Reload(s)
  <2>1. OtherTypes'
    BY <1>0, <1>7 DEF Reload, OtherTypes, NothingOffered
  <2> QED
    BY <1>7, <1>n, <2>1 DEF Reload
<1>8. CASE Export(s)
  <2>1. row # None /\ Stored \in Version /\ hist.active \in Nat
    BY <1>0, <1>8, CommandType DEF Export, History
  <2>2. ActiveView(hist) \in Views
    BY <1>0, EntryType DEF ActiveView, History, IInv, EntriesRetained, ActiveRetained
  <2>3. OtherTypes'
    BY <1>0, <1>8, <2>1, <2>2 DEF Export, OtherTypes, Package
  <2>4. /\ UNCHANGED <<row, journal, hist, cmd, activations>>
        /\ package'.active = hist.active
    BY <1>8 DEF Export
  <2>5. TypeOK' /\ EntriesRetained'
    BY <2>3, <2>4 DEF IInv, TypeOK, OtherTypes, EntriesRetained, ActiveRetained
  <2>6. OperationsBound'
    BY <2>4 DEF IInv, OperationsBound, Prepared
  <2> QED
    BY <2>4, <2>5, <2>6
       DEF IInv, JournalBound, HistoryBindsHead, Stored, ActivationsDrawn
<1> QED
  BY <1>1, <1>2, <1>3, <1>4, <1>5, <1>6, <1>7, <1>8 DEF Conclude

\* Every step keeps IInv.
LEMMA StepInvariant == IInv /\ [Next]_vars => IInv'
<1> SUFFICES ASSUME IInv, [Next]_vars PROVE IInv'
  OBVIOUS
<1>1. CASE Next
  <2>1. PICK s \in Tabs : Begin(s) \/ Prepare(s) \/ Commit(s) \/ Conclude(s)
    BY <1>1 DEF Next
  <2> QED
    BY <2>1, BeginInvariant, PrepareInvariant, CommitInvariant, ConcludeInvariant
<1>2. CASE UNCHANGED vars
  <2>1. /\ UNCHANGED <<row, journal, hist, files, receipts, package, tab>>
        /\ UNCHANGED <<shown, cmd, activations, intakes>>
    BY <1>2 DEF vars, store
  <2>2. TypeOK' /\ EntriesRetained'
    BY <2>1 DEF IInv, TypeOK, EntriesRetained
  <2>3. OperationsBound'
    BY <2>1 DEF IInv, OperationsBound, Prepared
  <2> QED
    BY <2>1, <2>2, <2>3
       DEF IInv, JournalBound, HistoryBindsHead, Stored, ActivationsDrawn
<1> QED
  BY <1>1, <1>2

\* IInv holds in every state.
LEMMA Invariance == Spec => []IInv
BY InitInvariant, StepInvariant, PTL DEF Spec
-----------------------------------------------------------------------------
(* The theorems.                                                           *)

\* Every stored record and every tab's state keeps its shape: no operation of
\* project-store.js leaves a row, journal, recovery state or backup malformed.
THEOREM TypesKept == Spec => []TypeOK
<1>1. IInv => TypeOK
  BY DEF IInv
<1> QED
  BY <1>1, Invariance, PTL

\* Whenever a project is stored, the recovery state names exactly its digest,
\* so exportPackage finds them in agreement.
THEOREM HeadAlwaysBound == Spec => []HistoryBindsHead
<1>1. IInv => HistoryBindsHead
  BY DEF IInv
<1> QED
  BY <1>1, Invariance, PTL

\* A journal of operational events is always bound to the row that is stored,
\* so applyOperationalJournal opens the project.
THEOREM JournalAlwaysBound == Spec => []JournalBound
<1>1. IInv => JournalBound
  BY DEF IInv
<1> QED
  BY <1>1, Invariance, PTL

\* A committing transaction is one of the actions of Commit; the others leave
\* the row, the journal and the History as they were.
LEMMA OnlyCommitsChange ==
    ASSUME IInv, [Next]_vars
    PROVE  \/ UNCHANGED <<row, journal, hist>>
           \/ \E s \in Tabs : Commit(s)
<1>1. CASE UNCHANGED vars
  BY <1>1 DEF vars, store
<1>2. CASE Next
  <2>1. PICK s \in Tabs : Begin(s) \/ Prepare(s) \/ Commit(s) \/ Conclude(s)
    BY <1>2 DEF Next
  <2>2. CASE Begin(s)
    BY <2>2 DEF Begin, StoreFile, Submit, SubmitStale, BeginView, BeginRestore,
                BeginRemove, BeginImport, store
  <2>3. CASE Prepare(s)
    BY <2>3 DEF Prepare, PrepareWrite, PrepareView, PrepareStaleView,
                PrepareRestore, PrepareRemove, PrepareImport,
                PrepareImportOverDamage, ImportOver, store
  <2>4. CASE Conclude(s)
    BY <2>4 DEF Conclude, AcknowledgeRemoval, CommitStale, Resync, Abandon,
                DeleteFile, Refresh, FailBoundary, Reload, Export, store
  <2> QED
    BY <2>1, <2>2, <2>3, <2>4
<1> QED
  BY <1>1, <1>2

\* What an operator saved in one tab is never lost to a save in another,
\* however the reads, preparations and commits of any number of tabs interleave.
THEOREM NothingLost == Spec => NoLostUpdate
<1>1. ASSUME IInv, [Next]_vars PROVE [CarriesSaves]_vars
  <2>1. CASE UNCHANGED <<row, journal, hist>>
    BY <2>1 DEF CarriesSaves, Stored
  <2>2. ASSUME NEW s \in Tabs, Commit(s) PROVE CarriesSaves
    <3>1. CASE CommitWrite(s) \/ CommitOperate(s)
      BY <1>1, <3>1, SaveStores DEF CarriesSaves, Saves
    <3>2. CASE CommitView(s)
      BY <3>2 DEF CommitView, CarriesSaves, Stored
    <3>3. CASE CommitActivation(s)
      <4>1. /\ Commits(s, Restores \cup {"IMPORT"}) /\ row' = cmd[s].next
        BY <3>3 DEF CommitActivation
      <4>2. /\ Stored = cmd[s].prior /\ cmd[s].next \in Version
            /\ Stored # None => Stored.act < cmd[s].next.act
        BY <1>1, <4>1, CommitFacts DEF Prepared, Activations
      <4>3. /\ Stored = None <=> row = None
            /\ row # None => Stored.act = row.act /\ Stored \in Version
        BY <1>1, StoredType DEF IInv, TypeOK
      <4>4. row # None => row.act \in Nat /\ row'.act \in Nat /\ row.act < row'.act
        BY <4>1, <4>2, <4>3 DEF Version
      <4> QED
        BY <4>4 DEF CarriesSaves
    <3>4. CASE CommitRemove(s)
      BY <3>4 DEF CommitRemove, CarriesSaves
    <3> QED
      BY <2>2, <3>1, <3>2, <3>3, <3>4 DEF Commit
  <2> QED
    BY <1>1, <2>1, <2>2, OnlyCommitsChange
<1> QED
  BY <1>1, Invariance, PTL DEF Spec, NoLostUpdate

\* Nothing an operator does, in any tab, changes, reorders or drops what the
\* History retains.
THEOREM RetainedKept == Spec => RetainedVersionsImmutable
<1>1. ASSUME IInv, [Next]_vars PROVE [RetainsEntries]_hist
  <2>1. CASE UNCHANGED <<row, journal, hist>>
    BY <2>1
  <2>2. ASSUME NEW s \in Tabs, Commit(s) PROVE RetainsEntries
    <3>1. PICK kinds : Commits(s, kinds)
      BY <2>2 DEF Commit, CommitWrite, CommitOperate, CommitView,
                  CommitActivation, CommitRemove
    <3>2. Follows(hist, hist')
      BY <1>1, <3>1, CommitFacts DEF Prepared, HistoryUnchanged
    <3> QED
      BY <3>2 DEF Follows, Extends, RetainsEntries
  <2> QED
    BY <1>1, <2>1, <2>2, OnlyCommitsChange
<1> QED
  BY <1>1, Invariance, PTL DEF Spec, RetainedVersionsImmutable
=============================================================================
