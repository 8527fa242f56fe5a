----------------------- MODULE ProofEvaluation_proofs -----------------------
(***************************************************************************)
(* What the verdicts, the deferrals and the completed stages of            *)
(* ProofEvaluation mean, for any set of suites, stages and bounds.         *)
(*                                                                         *)
(* A suite may be circular, so that the values of its nodes need not       *)
(* exist; where Acyclic holds, every set of nodes of an expression has one *)
(* that depends on no other of the set (MinimalNode).  From this follow    *)
(* that the evaluation has a solution (Evaluates), and, by a node of least *)
(* depth that would be wrong, that three-valued evaluation agrees with     *)
(* two-valued logic on the leaves that are known and that are open         *)
(* (CurrentIsExact, StageIsHonest).                                        *)
(***************************************************************************)
EXTENDS ProofEvaluation, FiniteSetTheorems, TLAPS

(***************************************************************************)
(* Numbers and finite sets.                                                *)
(***************************************************************************)

(* The numbers below one another are well founded.                         *)
Below == {ss \in Nat \X Nat : ss[1] < ss[2]}

(* Which is what the library says of the order of the numbers.             *)
LEMMA BelowIsWellFounded == IsWellFoundedOn(Below, Nat)
<1>1. IsWellFoundedOn(OpToRel(<, Nat), Nat)
  BY NatLessThanWellFounded
<1>2. OpToRel(<, Nat) = Below
  BY DEF OpToRel, Below
<1> QED BY <1>1, <1>2

(* A nonempty set of numbers has a smallest one.                           *)
LEMMA SmallestOf ==
    ASSUME NEW S \in SUBSET Nat, S # {}
    PROVE  \E m \in S : \A y \in S : m <= y
<1>1. PICK x \in S : \A y \in S : ~ (<<y, x>> \in Below)
  BY BelowIsWellFounded, WFMin
<1>2. ASSUME NEW y \in S PROVE x <= y
  <2>1. <<y, x>> \in Nat \X Nat
    OBVIOUS
  <2>2. ~ (<<y, x>>[1] < <<y, x>>[2])
    BY <1>1, <2>1 DEF Below
  <2> QED BY <2>2
<1> QED BY <1>2

(* A nonempty set of numbers up to n has a largest one.                    *)
LEMMA LargestOf ==
    ASSUME NEW n \in Nat, NEW S \in SUBSET (0 .. n), S # {}
    PROVE  \E m \in S : \A y \in S : y <= m
<1> DEFINE R == {n - y : y \in S}
<1>1. R \in SUBSET Nat /\ R # {}
  <2>1. \A y \in S : n - y \in Nat
    OBVIOUS
  <2> QED BY <2>1
<1>2. PICK k \in R : \A j \in R : k <= j
  BY <1>1, SmallestOf
<1>3. PICK m \in S : k = n - m
  BY <1>2
<1>4. ASSUME NEW y \in S PROVE y <= m
  <2>1. n - y \in R
    OBVIOUS
  <2>2. k <= n - y
    BY <1>2, <2>1
  <2> QED BY <1>3, <2>2
<1> QED BY <1>4

(***************************************************************************)
(* What an expression needs.                                               *)
(***************************************************************************)

(* A set that leaves out no prerequisite.                                  *)
Closed(suite, visited) == \A v \in visited : Prerequisites(suite, v) \subseteq visited

(* Prerequisites are propositions.                                         *)
LEMMA PrerequisitesTyped ==
    ASSUME NEW suite, IsSuite(suite), NEW q
    PROVE  Prerequisites(suite, q) \subseteq Propositions
BY DEF Prerequisites, OwnNodes, IsPrerequisite, IsSuite

(* What a walk visits contains where it starts and leaves out no           *)
(* prerequisite.                                                           *)
LEMMA ClosureIsClosed ==
    ASSUME NEW suite, IsSuite(suite), NEW from \in SUBSET Propositions
    PROVE  /\ from \subseteq Closure(suite, from)
           /\ Closed(suite, Closure(suite, from))
<1>1. from \subseteq Closure(suite, from)
  BY DEF Closure
<1>2. ASSUME NEW r \in Closure(suite, from), NEW t \in Prerequisites(suite, r)
      PROVE  t \in Closure(suite, from)
  <2>1. t \in Propositions
    BY PrerequisitesTyped
  <2> QED BY <1>2, <2>1 DEF Closure
<1> QED BY <1>1, <1>2 DEF Closed

(* It is the least such set.                                               *)
LEMMA ClosureIsLeast ==
    ASSUME NEW suite, NEW from, NEW visited \in SUBSET Propositions,
           from \subseteq visited, Closed(suite, visited)
    PROVE  Closure(suite, from) \subseteq visited
BY DEF Closure, Closed

(* A proposition needs itself and what its prerequisites need.             *)
LEMMA NeedsOfPrerequisites ==
    ASSUME NEW suite, IsSuite(suite), NEW q \in Propositions
    PROVE  /\ q \in Needs(suite, q)
           /\ Needs(suite, q) \subseteq Propositions
           /\ Closed(suite, Needs(suite, q))
           /\ \A r \in Needs(suite, q) : Needs(suite, r) \subseteq Needs(suite, q)
           /\ \A t \in Prerequisites(suite, q) :
                 Needs(suite, t) \subseteq Closure(suite, Prerequisites(suite, q))
           /\ Closure(suite, Prerequisites(suite, q)) \subseteq Needs(suite, q)
<1>1. {q} \subseteq Closure(suite, {q}) /\ Closed(suite, Closure(suite, {q}))
  BY ClosureIsClosed
<1>2. \A from : Closure(suite, from) \subseteq Propositions
  BY DEF Closure
<1>3. ASSUME NEW r \in Needs(suite, q) PROVE Needs(suite, r) \subseteq Needs(suite, q)
  BY <1>1, <1>2, ClosureIsLeast DEF Needs
<1>4. Prerequisites(suite, q) \subseteq Propositions
  BY PrerequisitesTyped
<1>5. /\ Prerequisites(suite, q) \subseteq Closure(suite, Prerequisites(suite, q))
      /\ Closed(suite, Closure(suite, Prerequisites(suite, q)))
  BY <1>4, ClosureIsClosed
<1>6. ASSUME NEW t \in Prerequisites(suite, q)
      PROVE  Needs(suite, t) \subseteq Closure(suite, Prerequisites(suite, q))
  BY <1>2, <1>5, ClosureIsLeast DEF Needs
<1>7. Prerequisites(suite, q) \subseteq Closure(suite, {q})
  BY <1>1 DEF Closed
<1>8. Closure(suite, Prerequisites(suite, q)) \subseteq Needs(suite, q)
  BY <1>1, <1>2, <1>7, ClosureIsLeast DEF Needs
<1> QED BY <1>1, <1>2, <1>3, <1>6, <1>8 DEF Needs

(***************************************************************************)
(* The order of evaluation.                                                *)
(***************************************************************************)

(* The nodes whose values a node's value is computed from.                 *)
Deps(suite, n) ==
    IF suite.nodes[n].type \in Operators THEN suite.nodes[n].children
    ELSE IF IsPrerequisite(suite, n) THEN {suite.root[suite.nodes[n].target]}
    ELSE {}

(* They are nodes of the same expression or of a prerequisite's.           *)
LEMMA DepsOwned ==
    ASSUME NEW suite, IsSuite(suite), NEW n \in DOMAIN suite.nodes, NEW m \in Deps(suite, n)
    PROVE  /\ m \in DOMAIN suite.nodes
           /\ \/ suite.nodes[m].owner = suite.nodes[n].owner /\ m > n
              \/ suite.nodes[m].owner \in Prerequisites(suite, suite.nodes[n].owner)
<1>1. CASE suite.nodes[n].type \in Operators
  <2>1. m \in {c \in OwnNodes(suite, suite.nodes[n].owner) : c > n}
    BY <1>1 DEF Deps, IsSuite
  <2> QED BY <2>1 DEF OwnNodes
<1>2. CASE suite.nodes[n].type \notin Operators
  <2>1. IsPrerequisite(suite, n) /\ m = suite.root[suite.nodes[n].target]
    BY <1>2 DEF Deps
  <2>2. suite.nodes[n].target \in Propositions /\ m # 0
    BY <2>1 DEF IsPrerequisite, IsSuite
  <2>3. m \in OwnNodes(suite, suite.nodes[n].target)
    BY <2>1, <2>2 DEF IsSuite
  <2>4. suite.nodes[n].target \in Prerequisites(suite, suite.nodes[n].owner)
    BY <2>1 DEF Prerequisites, OwnNodes
  <2> QED BY <2>3, <2>4 DEF OwnNodes
<1> QED BY <1>1, <1>2

(* So they are among the nodes that evaluating a proposition meets.        *)
LEMMA DepsStay ==
    ASSUME NEW suite, IsSuite(suite), NEW q \in Propositions, NEW n \in NodesOf(suite, q)
    PROVE  Deps(suite, n) \subseteq NodesOf(suite, q)
<1> SUFFICES ASSUME NEW m \in Deps(suite, n) PROVE m \in NodesOf(suite, q)
  OBVIOUS
<1>1. n \in DOMAIN suite.nodes /\ suite.nodes[n].owner \in Needs(suite, q)
  BY DEF NodesOf
<1>2. Closed(suite, Needs(suite, q))
  BY NeedsOfPrerequisites
<1>3. m \in DOMAIN suite.nodes /\ suite.nodes[m].owner \in Needs(suite, q)
  BY <1>1, <1>2, DepsOwned DEF Closed
<1> QED BY <1>3 DEF NodesOf

(* Among nodes of an expression without a cycle one depends on no other:   *)
(* take an owner that needs least, and the last of its nodes.              *)
LEMMA MinimalNode ==
    ASSUME NEW suite, IsSuite(suite), NEW q \in Propositions, Acyclic(suite, q),
           NEW S \in SUBSET NodesOf(suite, q), S # {}
    PROVE  \E n \in S : Deps(suite, n) \cap S = {}
<1> DEFINE Owners == {suite.nodes[n].owner : n \in S}
           Reach == {Needs(suite, r) : r \in Owners}
<1>1. Owners \subseteq Needs(suite, q) /\ Owners # {}
  BY DEF NodesOf
<1>2. Needs(suite, q) \subseteq Propositions
  BY NeedsOfPrerequisites
<1>3. \A r \in Owners : Needs(suite, r) \subseteq Propositions /\ r \in Needs(suite, r)
  BY <1>1, <1>2, NeedsOfPrerequisites
<1>4. PICK r \in Owners : \A t \in Owners : Needs(suite, t) \subseteq Needs(suite, r) =>
                                            Needs(suite, t) = Needs(suite, r)
  <2>1. FiniteSubsetsOf(Propositions) = SUBSET Propositions
    BY SuitesAreExpressions, FS_FiniteSubsetsOfFinite
  <2>2. IsWellFoundedOn(StrictSubsetOrdering(Propositions), SUBSET Propositions)
    BY <2>1, FS_StrictSubsetOrderingWellFounded
  <2>3. Reach \subseteq SUBSET Propositions /\ Reach # {}
    BY <1>1, <1>3
  <2> HIDE DEF Reach
  <2>4. PICK X \in Reach : \A Y \in Reach : ~ (<<Y, X>> \in StrictSubsetOrdering(Propositions))
    BY <2>2, <2>3, WFMin
  <2>5. PICK r \in Owners : X = Needs(suite, r)
    BY <2>4 DEF Reach
  <2>6. ASSUME NEW t \in Owners, Needs(suite, t) \subseteq Needs(suite, r)
        PROVE  Needs(suite, t) = Needs(suite, r)
    <3>1. Needs(suite, t) \in Reach
      BY DEF Reach
    <3>2. <<Needs(suite, t), X>> \notin StrictSubsetOrdering(Propositions)
      BY <2>4, <3>1
    <3>3. <<Needs(suite, t), X>> \in (SUBSET Propositions) \X (SUBSET Propositions)
      BY <2>3, <2>4, <3>1
    <3> QED BY <2>5, <2>6, <3>2, <3>3 DEF StrictSubsetOrdering
  <2> QED BY <2>5, <2>6
<1>5. \A t \in Prerequisites(suite, r) : t \notin Owners
  <2> SUFFICES ASSUME NEW t \in Prerequisites(suite, r), t \in Owners PROVE FALSE
    OBVIOUS
  <2>1. r \in Propositions /\ t \in Propositions
    BY <1>1, <1>2
  <2>2. Needs(suite, t) \subseteq Closure(suite, Prerequisites(suite, r))
    BY <2>1, NeedsOfPrerequisites
  <2>3. Closure(suite, Prerequisites(suite, r)) \subseteq Needs(suite, r)
    BY <2>1, NeedsOfPrerequisites
  <2>4. Needs(suite, t) = Needs(suite, r)
    BY <1>4, <2>2, <2>3
  <2>5. r \in Closure(suite, Prerequisites(suite, r))
    BY <1>3, <2>2, <2>4
  <2> QED BY <1>1, <2>5 DEF Acyclic
<1> DEFINE Own == {n \in S : suite.nodes[n].owner = r}
<1>6. Own # {} /\ Own \subseteq 0 .. Len(suite.nodes) /\ Len(suite.nodes) \in Nat
  BY DEF NodesOf, IsSuite
<1>7. PICK n \in Own : \A m \in Own : m <= n
  BY <1>6, LargestOf
<1>8. ASSUME NEW m \in Deps(suite, n), m \in S PROVE FALSE
  <2>1. n \in DOMAIN suite.nodes /\ m \in Nat /\ n \in Nat
    BY <1>6, <1>8 DEF NodesOf, IsSuite
  <2>2. CASE suite.nodes[m].owner = r /\ m > n
    <3>1. m \in Own
      BY <1>8, <2>2
    <3> QED BY <1>7, <2>1, <2>2, <3>1
  <2>3. CASE suite.nodes[m].owner \in Prerequisites(suite, r)
    BY <1>5, <1>8, <2>3
  <2> QED BY <1>8, <2>1, <2>2, <2>3, DepsOwned
<1> QED BY <1>8

(***************************************************************************)
(* The evaluation of all nodes.                                            *)
(***************************************************************************)

(* Dep orders the nodes of D.                                              *)
WellOrdered(D, Dep) ==
    /\ \A n \in D : Dep[n] \subseteq D
    /\ \A S \in SUBSET D : S # {} => \E n \in S : Dep[n] \cap S = {}

(* Of the values of the other nodes F uses those of Dep only.              *)
Local(D, V, F, Dep) ==
    \A n \in D, g \in [D -> V] :
        /\ F[n][g] \in V
        /\ \A h \in [D -> V] : (\A m \in Dep[n] : g[m] = h[m]) => F[n][g] = F[n][h]

(* The values g of the nodes E, and of what they depend on, are right.     *)
Solves(D, F, Dep, E, g) ==
    /\ E \in SUBSET D
    /\ \A n \in E : Dep[n] \subseteq E /\ g[n] = F[n][g]

(* Two solutions agree where both are right.                               *)
LEMMA SolutionsAgree ==
    ASSUME NEW D, NEW V, NEW F, NEW Dep, WellOrdered(D, Dep), Local(D, V, F, Dep),
           NEW A, NEW g \in [D -> V], Solves(D, F, Dep, A, g),
           NEW B, NEW h \in [D -> V], Solves(D, F, Dep, B, h),
           NEW n \in A \cap B
    PROVE  g[n] = h[n]
<1> DEFINE Apart == {m \in A \cap B : g[m] # h[m]}
<1> SUFFICES ASSUME Apart # {} PROVE FALSE
  OBVIOUS
<1>1. Apart \in SUBSET D
  BY DEF Solves
<1>2. PICK m \in Apart : Dep[m] \cap Apart = {}
  BY <1>1 DEF WellOrdered
<1>3. m \in A /\ m \in B /\ m \in D /\ g[m] # h[m]
  BY <1>1, <1>2
<1>4. \A k \in Dep[m] : g[k] = h[k]
  BY <1>2, <1>3 DEF Solves
<1>5. F[m][g] = F[m][h]
  BY <1>3, <1>4 DEF Local
<1> QED BY <1>3, <1>5 DEF Solves

(* Some values are right for all nodes.                                    *)
LEMMA Evaluates ==
    ASSUME NEW D, NEW V, V # {}, NEW F, NEW Dep, WellOrdered(D, Dep), Local(D, V, F, Dep)
    PROVE  \E g \in [D -> V] : \A n \in D : g[n] = F[n][g]
<1> DEFINE Known == {n \in D : \E E \in SUBSET D, g \in [D -> V] : n \in E /\ Solves(D, F, Dep, E, g)}
           Right(n, v) == \E E \in SUBSET D, g \in [D -> V] :
                              n \in E /\ Solves(D, F, Dep, E, g) /\ v = g[n]
           h == [n \in D |-> IF n \in Known THEN CHOOSE v \in V : Right(n, v) ELSE CHOOSE v \in V : TRUE]
<1>1. ASSUME NEW n \in Known PROVE h[n] \in V /\ Right(n, h[n])
  <2>1. \E v \in V : Right(n, v)
    OBVIOUS
  <2>2. h[n] = CHOOSE v \in V : Right(n, v)
    OBVIOUS
  <2> HIDE DEF Right, h, Known
  <2> QED BY <2>1, <2>2
<1>2. h \in [D -> V]
  <2>1. (CHOOSE v \in V : TRUE) \in V
    OBVIOUS
  <2>2. ASSUME NEW n \in D PROVE h[n] \in V
    <3>1. CASE n \in Known
      BY <1>1, <3>1
    <3>2. CASE n \notin Known
      <4>1. h[n] = CHOOSE v \in V : TRUE
        BY <3>2
      <4> QED BY <2>1, <4>1
    <3> QED BY <3>1, <3>2
  <2>3. h = [n \in D |-> h[n]]
    OBVIOUS
  <2> HIDE DEF h
  <2> QED BY <2>2, <2>3
<1>3. ASSUME NEW E \in SUBSET D, NEW g \in [D -> V], Solves(D, F, Dep, E, g), NEW n \in E
      PROVE  n \in Known /\ h[n] = g[n]
  <2>1. n \in Known
    BY <1>3
  <2>2. PICK B \in SUBSET D, k \in [D -> V] : n \in B /\ Solves(D, F, Dep, B, k) /\ h[n] = k[n]
    BY <1>1, <2>1
  <2> HIDE DEF h, Known
  <2>3. k[n] = g[n]
    BY <1>3, <2>2, SolutionsAgree
  <2> QED BY <2>1, <2>2, <2>3
<1>4. Solves(D, F, Dep, Known, h)
  <2>1. Known \in SUBSET D
    OBVIOUS
  <2>2. ASSUME NEW n \in Known PROVE Dep[n] \subseteq Known /\ h[n] = F[n][h]
    <3>1. PICK E \in SUBSET D, g \in [D -> V] : n \in E /\ Solves(D, F, Dep, E, g)
      BY <2>2
    <3> HIDE DEF h, Known
    <3>2. Dep[n] \subseteq E /\ g[n] = F[n][g]
      BY <3>1 DEF Solves
    <3>3. \A m \in Dep[n] : m \in Known /\ h[m] = g[m]
      BY <1>3, <3>1, <3>2
    <3>4. F[n][g] = F[n][h]
      BY <1>2, <3>1, <3>3 DEF Local
    <3>5. h[n] = g[n]
      BY <1>3, <3>1
    <3> QED BY <3>2, <3>3, <3>4, <3>5
  <2> HIDE DEF h, Known
  <2> QED BY <2>1, <2>2 DEF Solves
<1>5. Known = D
  <2> SUFFICES ASSUME D \ Known # {} PROVE FALSE
    OBVIOUS
  <2>1. PICK n \in D \ Known : Dep[n] \cap (D \ Known) = {}
    <3>1. D \ Known \in SUBSET D
      OBVIOUS
    <3> HIDE DEF Known
    <3> QED BY <3>1 DEF WellOrdered
  <2> HIDE DEF h, Known
  <2>2. Dep[n] \subseteq Known /\ n \notin Known /\ n \in D
    BY <2>1 DEF WellOrdered
  <2> DEFINE k == [h EXCEPT ![n] = F[n][h]]
  <2>3. k \in [D -> V]
    <3>1. F[n][h] \in V
      BY <1>2, <2>2 DEF Local
    <3> QED BY <1>2, <2>2, <3>1
  <2>4. k[n] = F[n][h] /\ \A m \in Known : k[m] = h[m]
    BY <1>2, <1>4, <2>2 DEF Solves
  <2> HIDE DEF k
  <2>5. F[n][k] = F[n][h]
    BY <1>2, <2>2, <2>3, <2>4 DEF Local
  <2>6. ASSUME NEW m \in Known PROVE Dep[m] \subseteq Known /\ k[m] = F[m][k]
    <3>1. Dep[m] \subseteq Known /\ h[m] = F[m][h] /\ m \in D
      BY <1>4 DEF Solves
    <3>2. F[m][k] = F[m][h]
      BY <1>2, <2>3, <2>4, <3>1 DEF Local
    <3> QED BY <2>4, <3>1, <3>2
  <2>7. Solves(D, F, Dep, Known \cup {n}, k)
    BY <1>4, <2>2, <2>4, <2>5, <2>6 DEF Solves
  <2>8. n \in Known
    <3>1. Known \cup {n} \in SUBSET D
      BY <2>7 DEF Solves
    <3> QED BY <1>3, <2>3, <2>7, <3>1
  <2> QED BY <2>2, <2>8
<1> HIDE DEF h, Known
<1> QED BY <1>2, <1>4, <1>5 DEF Solves

(* What the value of each node of an expression is computed from.          *)
Dependence(suite, q) == [n \in NodesOf(suite, q) |-> Deps(suite, n)]

(* The nodes of an expression without a cycle are ordered by what their    *)
(* values are computed from.                                               *)
LEMMA ExpressionOrdered ==
    ASSUME NEW suite, IsSuite(suite), NEW q \in Propositions, Acyclic(suite, q)
    PROVE  WellOrdered(NodesOf(suite, q), Dependence(suite, q))
<1>1. \A n \in NodesOf(suite, q) : Deps(suite, n) \subseteq NodesOf(suite, q)
  BY DepsStay
<1>2. ASSUME NEW S \in SUBSET NodesOf(suite, q), S # {}
      PROVE  \E n \in S : Dependence(suite, q)[n] \cap S = {}
  <2>1. PICK n \in S : Deps(suite, n) \cap S = {}
    BY <1>2, MinimalNode
  <2> QED BY <2>1 DEF Dependence
<1> QED BY <1>1, <1>2 DEF WellOrdered, Dependence

(***************************************************************************)
(* Operators in three values and in two.                                   *)
(***************************************************************************)
Decided == {"TRUE", "FALSE", "UNKNOWN"}
Values == Decided \cup {"DEFERRED"}

(* What Settled and Postponed count.                                       *)
WithValue(X, values, v) == {c \in X : values[c] = v}
Occurs(X, values, v) == \E c \in X : values[c] = v
Counted(X, values, v) == Cardinality(WithValue(X, values, v))

(* Sets without a common member count together.                            *)
LEMMA DisjointCount ==
    ASSUME NEW A, NEW B, IsFiniteSet(A), IsFiniteSet(B), A \cap B = {}
    PROVE  /\ IsFiniteSet(A \cup B)
           /\ Cardinality(A \cup B) = Cardinality(A) + Cardinality(B)
           /\ Cardinality(A) \in Nat /\ Cardinality(B) \in Nat
<1>1. IsFiniteSet(A \cup B) /\ Cardinality(A \cup B) = Cardinality(A) + Cardinality(B) - Cardinality(A \cap B)
  BY FS_Union
<1>2. Cardinality(A) \in Nat /\ Cardinality(B) \in Nat 
  BY FS_CardinalityType
<1>3. Cardinality(A \cap B) = 0
  BY FS_EmptySet, Zenon
<1> QED BY <1>1, <1>2, <1>3

(* The children of a node count by their values, also what may still hold *)
(* and what holds or is put off.                                           *)
LEMMA ChildrenCounted ==
    ASSUME NEW X, IsFiniteSet(X), NEW values, \A c \in X : values[c] \in Values
    PROVE  /\ \A v \in Values :
                 /\ Counted(X, values, v) \in Nat
                 /\ Counted(X, values, v) # 0 <=> Occurs(X, values, v)
           /\ Cardinality({c \in X : values[c] # "FALSE"}) =
                 Counted(X, values, "TRUE") + (Counted(X, values, "UNKNOWN") + Counted(X, values, "DEFERRED"))
           /\ Cardinality({c \in X : values[c] \in {"TRUE", "DEFERRED"}}) =
                 Counted(X, values, "TRUE") + Counted(X, values, "DEFERRED")
<1>1. ASSUME NEW v \in Values
      PROVE  /\ IsFiniteSet(WithValue(X, values, v))
             /\ Counted(X, values, v) \in Nat
             /\ Counted(X, values, v) # 0 <=> Occurs(X, values, v)
  <2>1. WithValue(X, values, v) \in SUBSET X
    BY DEF WithValue
  <2>2. IsFiniteSet(WithValue(X, values, v))
    BY <2>1, FS_Subset
  <2>3. Counted(X, values, v) \in Nat
    BY <2>2, FS_CardinalityType DEF Counted
  <2>4. Counted(X, values, v) = 0 <=> WithValue(X, values, v) = {}
    BY <2>2, FS_EmptySet DEF Counted
  <2>5. WithValue(X, values, v) # {} <=> Occurs(X, values, v)
    BY DEF WithValue, Occurs
  <2> QED BY <2>2, <2>3, <2>4, <2>5
<1>2. PICK yes, no, unknown, late : /\ yes = WithValue(X, values, "TRUE")
                                    /\ no = WithValue(X, values, "FALSE")
                                    /\ unknown = WithValue(X, values, "UNKNOWN")
                                    /\ late = WithValue(X, values, "DEFERRED")
  OBVIOUS
<1>3. IsFiniteSet(yes) /\ IsFiniteSet(unknown) /\ IsFiniteSet(late)
  BY <1>1, <1>2 DEF Values, Decided
<1>4. /\ {c \in X : values[c] \in {"TRUE", "DEFERRED"}} = yes \cup late
      /\ {c \in X : values[c] # "FALSE"} = yes \cup (unknown \cup late)
      /\ yes \cap late = {} /\ unknown \cap late = {} /\ yes \cap (unknown \cup late) = {}
  BY <1>2 DEF WithValue, Values, Decided
<1>5. Cardinality(yes \cup late) = Cardinality(yes) + Cardinality(late)
  BY <1>3, <1>4, DisjointCount
<1>6. IsFiniteSet(unknown \cup late) /\ Cardinality(unknown \cup late) = Cardinality(unknown) + Cardinality(late)
  BY <1>3, <1>4, DisjointCount
<1>7. Cardinality(yes \cup (unknown \cup late)) = Cardinality(yes) + Cardinality(unknown \cup late)
  BY <1>3, <1>4, <1>6, DisjointCount
<1>8. /\ Cardinality({c \in X : values[c] # "FALSE"}) =
            Counted(X, values, "TRUE") + (Counted(X, values, "UNKNOWN") + Counted(X, values, "DEFERRED"))
      /\ Cardinality({c \in X : values[c] \in {"TRUE", "DEFERRED"}}) =
            Counted(X, values, "TRUE") + Counted(X, values, "DEFERRED")
  BY <1>2, <1>4, <1>5, <1>6, <1>7 DEF Counted
<1> QED BY <1>1, <1>8

(* What logic computes is true when the children known to be true make     *)
(* the operator hold, and false when those that may be true do not.        *)
LEMMA SettledMeans ==
    ASSUME NEW x, x.type \in Operators, x.k \in Nat, IsFiniteSet(x.children),
           NEW values, \A c \in x.children : values[c] \in Values
    PROVE  /\ Settled(x, values) \in Decided
           /\ Settled(x, values) = "TRUE" <=> Combines(x, {c \in x.children : values[c] = "TRUE"})
           /\ Settled(x, values) = "FALSE" <=> ~Combines(x, {c \in x.children : values[c] # "FALSE"})
<1> DEFINE Count(v) == Counted(x.children, values, v)
           t == Count("TRUE")
           f == Count("FALSE")
           u == Count("UNKNOWN") + Count("DEFERRED")
           open == {c \in x.children : values[c] # "FALSE"}
           yes == {c \in x.children : values[c] = "TRUE"}
<1>1. Settled(x, values) = Logic(x, t, f, u)
  BY DEF Settled, WithValue, Counted
<1>2. /\ t \in Nat /\ f \in Nat /\ u \in Nat
      /\ t > 0 <=> \E c \in x.children : values[c] = "TRUE"
      /\ f > 0 <=> \E c \in x.children : values[c] = "FALSE"
      /\ u > 0 <=> \E c \in x.children : values[c] \in {"UNKNOWN", "DEFERRED"}
      /\ Cardinality(open) = t + u
  <2>1. \A v \in Values : Count(v) \in Nat /\ (Count(v) # 0 <=> Occurs(x.children, values, v))
    BY ChildrenCounted
  <2>2. Cardinality(open) = Count("TRUE") + (Count("UNKNOWN") + Count("DEFERRED"))
    BY ChildrenCounted
  <2>3. {"TRUE", "FALSE", "UNKNOWN", "DEFERRED"} \subseteq Values
    BY DEF Values, Decided
  <2> HIDE DEF Count, open
  <2> QED BY <2>1, <2>2, <2>3 DEF Occurs
<1>3. Cardinality(yes) = t
  BY DEF WithValue, Counted
<1> HIDE DEF t, f, u, Count
<1>4. CASE x.type = "ALL_OF"
  <2>1. Logic(x, t, f, u) = IF f > 0 THEN "FALSE" ELSE IF u > 0 THEN "UNKNOWN" ELSE "TRUE"
    BY <1>4 DEF Logic
  <2>2. Combines(x, yes) <=> \A c \in x.children : c \in yes
    BY <1>4 DEF Combines
  <2>3. Combines(x, open) <=> \A c \in x.children : c \in open
    BY <1>4 DEF Combines
  <2> QED BY <1>1, <1>2, <2>1, <2>2, <2>3 DEF Values, Decided
<1>5. CASE x.type = "ANY_OF"
  <2>1. Logic(x, t, f, u) = IF t > 0 THEN "TRUE" ELSE IF u > 0 THEN "UNKNOWN" ELSE "FALSE"
    BY <1>5 DEF Logic
  <2>2. Combines(x, yes) <=> \E c \in x.children : c \in yes
    BY <1>5 DEF Combines
  <2>3. Combines(x, open) <=> \E c \in x.children : c \in open
    BY <1>5 DEF Combines
  <2> QED BY <1>1, <1>2, <2>1, <2>2, <2>3 DEF Values, Decided
<1>6. CASE x.type = "AT_LEAST_K"
  <2>1. Logic(x, t, f, u) = IF t >= x.k THEN "TRUE" ELSE IF t + u < x.k THEN "FALSE" ELSE "UNKNOWN"
    BY <1>6 DEF Logic
  <2>2. Combines(x, yes) <=> t >= x.k
    BY <1>3, <1>6 DEF Combines
  <2>3. Combines(x, open) <=> t + u >= x.k
    BY <1>2, <1>6 DEF Combines
  <2> HIDE DEF open, yes
  <2> QED BY <1>1, <1>2, <2>1, <2>2, <2>3 DEF Values, Decided, open, yes
<1> QED BY <1>4, <1>5, <1>6 DEF Operators

(* What counts as deferred, if it is not settled, holds with the children  *)
(* that are deferred.                                                      *)
LEMMA PostponedMeans ==
    ASSUME NEW x, x.type \in Operators, x.k \in Nat, IsFiniteSet(x.children),
           NEW values, \A c \in x.children : values[c] \in Values,
           Settled(x, values) = "UNKNOWN"
    PROVE  LET expected == {c \in x.children : values[c] \in {"TRUE", "DEFERRED"}}
               late == \E c \in x.children : values[c] = "DEFERRED"
           IN  /\ late => Postponed(x, values) \in {"UNKNOWN", "DEFERRED"}
               /\ Combines(x, expected) <=> late /\ Postponed(x, values) = "DEFERRED"
<1> DEFINE Count(v) == Counted(x.children, values, v)
           t == Count("TRUE")
           f == Count("FALSE")
           u == Count("UNKNOWN") + Count("DEFERRED")
           expected == {c \in x.children : values[c] \in {"TRUE", "DEFERRED"}}
           unknown == {c \in x.children : values[c] \in {"UNKNOWN"}}
           late == \E c \in x.children : values[c] = "DEFERRED"
<1>1. Logic(x, t, f, u) = "UNKNOWN"
  BY DEF Settled, WithValue, Counted
<1>2. /\ t \in Nat /\ f \in Nat /\ Count("UNKNOWN") \in Nat /\ Count("DEFERRED") \in Nat
      /\ t > 0 <=> \E c \in x.children : values[c] = "TRUE"
      /\ f > 0 <=> \E c \in x.children : values[c] = "FALSE"
      /\ Count("UNKNOWN") > 0 <=> \E c \in x.children : values[c] = "UNKNOWN"
      /\ Count("DEFERRED") > 0 <=> late
      /\ Cardinality(expected) = t + Count("DEFERRED")
  <2>1. \A v \in Values : Count(v) \in Nat /\ (Count(v) # 0 <=> Occurs(x.children, values, v))
    BY ChildrenCounted
  <2>2. Cardinality(expected) = Count("TRUE") + Count("DEFERRED")
    BY ChildrenCounted
  <2>3. {"TRUE", "FALSE", "UNKNOWN", "DEFERRED"} \subseteq Values
    BY DEF Values, Decided
  <2> HIDE DEF Count, expected
  <2> QED BY <2>1, <2>2, <2>3 DEF Occurs
<1>3. Cardinality(unknown) = Count("UNKNOWN")
  <2>1. unknown = WithValue(x.children, values, "UNKNOWN")
    BY DEF WithValue
  <2> QED BY <2>1 DEF Counted
<1> HIDE DEF t, f, Count
<1>4. CASE x.type = "ALL_OF"
  <2>1. ~ (f > 0) /\ u > 0
    BY <1>1, <1>2, <1>4 DEF Logic
  <2>2. Postponed(x, values) = IF Cardinality(unknown) > 0 THEN "UNKNOWN" ELSE "DEFERRED"
    BY <1>4 DEF Postponed
  <2>3. Combines(x, expected) <=> \A c \in x.children : c \in expected
    BY <1>4 DEF Combines
  <2> QED BY <1>2, <1>3, <2>1, <2>2, <2>3 DEF Values, Decided
<1>5. CASE x.type = "ANY_OF"
  <2>1. ~ (t > 0)
    BY <1>1, <1>2, <1>5 DEF Logic
  <2>2. Postponed(x, values) = "DEFERRED"
    BY <1>5 DEF Postponed
  <2>3. Combines(x, expected) <=> \E c \in x.children : c \in expected
    BY <1>5 DEF Combines
  <2> QED BY <1>2, <2>1, <2>2, <2>3 DEF Values, Decided
<1>6. CASE x.type = "AT_LEAST_K"
  <2>1. ~ (t >= x.k)
    BY <1>1, <1>2, <1>6 DEF Logic
  <2>2. Postponed(x, values) = IF Cardinality(expected) >= x.k THEN "DEFERRED" ELSE "UNKNOWN"
    BY <1>6 DEF Postponed
  <2>3. Combines(x, expected) <=> Cardinality(expected) >= x.k
    BY <1>6 DEF Combines
  <2> HIDE DEF expected, late
  <2> QED BY <1>2, <2>1, <2>2, <2>3 DEF expected, late
<1> QED BY <1>4, <1>5, <1>6 DEF Operators

(* More children that hold make no operator fail.                          *)
LEMMA CombinesGrows ==
    ASSUME NEW x, x.type \in Operators, x.k \in Nat, IsFiniteSet(x.children),
           NEW A \in SUBSET x.children, NEW B \in SUBSET x.children, A \subseteq B, Combines(x, A)
    PROVE  Combines(x, B)
<1>1. IsFiniteSet(A) /\ IsFiniteSet(B)
  BY FS_Subset
<1>2. Cardinality(A) \in Nat /\ Cardinality(B) \in Nat
  BY <1>1, FS_CardinalityType
<1>3. Cardinality(A) <= Cardinality(B)
  BY <1>1, FS_Subset
<1>4. CASE x.type = "ALL_OF"
  BY <1>4 DEF Combines
<1>5. CASE x.type = "ANY_OF"
  BY <1>5 DEF Combines
<1>6. CASE x.type = "AT_LEAST_K"
  BY <1>2, <1>3, <1>6 DEF Combines
<1> QED BY <1>4, <1>5, <1>6 DEF Operators

(***************************************************************************)
(* The values of the nodes of an expression exist.                         *)
(***************************************************************************)

(* A node is an operator, a prerequisite or a leaf, with finitely many     *)
(* children; what it depends on is its children or a root.                 *)
LEMMA NodeShape ==
    ASSUME NEW suite, IsSuite(suite), NEW q \in Propositions, NEW n \in NodesOf(suite, q)
    PROVE  LET x == suite.nodes[n]
           IN  /\ n \in DOMAIN suite.nodes
               /\ x.type \in Operators \cup {"test", "proposition", "obligation", "applicability"}
               /\ x.k \in Nat /\ IsFiniteSet(x.children)
               /\ x.type \in Operators => Deps(suite, n) = x.children
               /\ x.type \notin Operators /\ IsPrerequisite(suite, n) =>
                     Deps(suite, n) = {suite.root[x.target]}
               /\ TimingOf(suite, n).earliest \in Nat /\ TimingOf(suite, n).requiredBy \in Nat
<1>1. n \in DOMAIN suite.nodes
  BY DEF NodesOf
<1>2. suite.nodes[n].children \subseteq DOMAIN suite.nodes
  BY <1>1 DEF IsSuite, OwnNodes
<1>3. IsFiniteSet(DOMAIN suite.nodes)
  BY FS_Interval DEF IsSuite
<1>4. IsFiniteSet(suite.nodes[n].children)
  BY <1>2, <1>3, FS_Subset
<1>5. TimingOf(suite, n).earliest \in Nat /\ TimingOf(suite, n).requiredBy \in Nat
  BY <1>1 DEF TimingOf, IsSuite, IsTiming
<1>6. /\ suite.nodes[n].type \in Operators \cup {"test", "proposition", "obligation", "applicability"}
      /\ suite.nodes[n].k \in Nat
  BY <1>1 DEF IsSuite
<1> QED BY <1>1, <1>4, <1>5, <1>6 DEF Deps

(* A leaf is true, false or unknown.                                       *)
LEMMA LeafDecided ==
    ASSUME NEW p, NEW n, p.suite.nodes[n].type \in {"test", "proposition", "obligation", "applicability"}
    PROVE  LeafTruth(p, n) \in Decided
<1>1. \A findings : Unless(Found(findings), "UNKNOWN") \in Decided
  <2>1. \A findings : Found(findings) \in {"CONTRADICTED", "FALSE", "TRUE", "UNKNOWN"}
    BY DEF Found
  <2> QED BY <2>1 DEF Unless, Decided
<1>2. CASE p.suite.nodes[n].type = "test"
  <2> DEFINE findings == {e \in p.evidence : /\ e.proposition = p.suite.nodes[n].owner
                                             /\ e.test = p.suite.nodes[n].target}
  <2>1. LeafTruth(p, n) \in {Unless(Found(findings), "UNKNOWN"), "UNKNOWN"}
    BY <1>2, Zenon DEF LeafTruth
  <2> QED BY <1>1, <2>1 DEF Decided
<1>3. CASE p.suite.nodes[n].type = "proposition"
  BY <1>1, <1>3 DEF LeafTruth, ObservedTruth
<1>4. CASE p.suite.nodes[n].type = "obligation"
  BY <1>4 DEF LeafTruth, Decided
<1>5. CASE p.suite.nodes[n].type = "applicability"
  BY <1>5 DEF LeafTruth, Decided
<1> QED BY <1>2, <1>3, <1>4, <1>5

(* evaluateCurrentProof: a node's value is decided by its dependences.     *)
LEMMA CurrentLocal ==
    ASSUME NEW p, IsSuite(p.suite), NEW q \in Propositions, NEW n \in NodesOf(p.suite, q),
           NEW g, \A m \in Deps(p.suite, n) : g[m] \in Decided
    PROVE  /\ CurrentValue(p, g, n) \in Decided
           /\ \A h : (\A m \in Deps(p.suite, n) : g[m] = h[m]) => CurrentValue(p, g, n) = CurrentValue(p, h, n)
<1> DEFINE x == p.suite.nodes[n]
<1>1. CASE x.type \in Operators
  <2>1. \A h : CurrentValue(p, h, n) = Settled(x, [c \in x.children |-> h[c]])
    BY <1>1 DEF CurrentValue
  <2>2. Deps(p.suite, n) = x.children /\ x.k \in Nat /\ IsFiniteSet(x.children)
    BY <1>1, NodeShape
  <2>3. Settled(x, [c \in x.children |-> g[c]]) \in Decided
    <3>1. \A c \in x.children : [d \in x.children |-> g[d]][c] \in Values
      BY <2>2 DEF Values
    <3> HIDE DEF x
    <3> QED BY <1>1, <2>2, <3>1, SettledMeans
  <2>4. ASSUME NEW h, \A m \in Deps(p.suite, n) : g[m] = h[m]
        PROVE  [c \in x.children |-> g[c]] = [c \in x.children |-> h[c]]
    BY <2>2, <2>4
  <2> QED BY <2>1, <2>3, <2>4
<1>2. CASE x.type \notin Operators /\ IsPrerequisite(p.suite, n)
  <2>1. \A h : CurrentValue(p, h, n) = h[p.suite.root[x.target]]
    BY <1>2 DEF CurrentValue
  <2>2. Deps(p.suite, n) = {p.suite.root[x.target]}
    BY <1>2, NodeShape
  <2> QED BY <2>1, <2>2
<1>3. CASE x.type \notin Operators /\ ~IsPrerequisite(p.suite, n)
  <2>1. x.type \in {"test", "proposition", "obligation", "applicability"}
    BY <1>3, NodeShape
  <2>2. LeafTruth(p, n) \in Decided
    BY <2>1, LeafDecided
  <2>3. \A h : CurrentValue(p, h, n) =
                 IF ExecutableNow(p, TimingOf(p.suite, n), p.stage) THEN LeafTruth(p, n) ELSE "UNKNOWN"
    BY <1>3 DEF CurrentValue
  <2> QED BY <2>2, <2>3 DEF Decided
<1> QED BY <1>1, <1>2, <1>3

(* So without a cycle there are values for all nodes.                      *)
LEMMA CurrentSolved ==
    ASSUME NEW p, IsSuite(p.suite), NEW q \in Propositions, Acyclic(p.suite, q)
    PROVE  /\ CurrentValues(p, q) \in [NodesOf(p.suite, q) -> Decided]
           /\ \A n \in NodesOf(p.suite, q) :
                 CurrentValues(p, q)[n] = CurrentValue(p, CurrentValues(p, q), n)
<1> DEFINE D == NodesOf(p.suite, q)
           Dep == Dependence(p.suite, q)
           F == [n \in D |-> [g \in [D -> Decided] |-> CurrentValue(p, g, n)]]
           v == CurrentValues(p, q)
<1>1. WellOrdered(D, Dep) /\ \A n \in D : Dep[n] = Deps(p.suite, n) /\ Deps(p.suite, n) \subseteq D
  BY ExpressionOrdered, DepsStay DEF Dependence
<1>2. Local(D, Decided, F, Dep)
  <2> SUFFICES ASSUME NEW n \in D, NEW g \in [D -> Decided]
               PROVE  /\ F[n][g] \in Decided
                      /\ \A h \in [D -> Decided] : (\A m \in Dep[n] : g[m] = h[m]) => F[n][g] = F[n][h]
    BY DEF Local
  <2>1. \A h \in [D -> Decided] : F[n][h] = CurrentValue(p, h, n)
    OBVIOUS
  <2>2. \A m \in Deps(p.suite, n) : g[m] \in Decided
    BY <1>1
  <2> HIDE DEF F, Dep
  <2> QED BY <1>1, <2>1, <2>2, CurrentLocal
<1>3. Decided # {}
  BY DEF Decided
<1>4. \E g : g = [n \in D |-> CurrentValue(p, g, n)]
  <2>1. PICK g \in [D -> Decided] : \A n \in D : g[n] = F[n][g]
    <3> HIDE DEF D, Dep, F
    <3> QED BY <1>1, <1>2, <1>3, Evaluates
  <2>2. \A n \in D : g[n] = CurrentValue(p, g, n)
    BY <2>1
  <2>3. g = [n \in D |-> g[n]]
    OBVIOUS
  <2>4. g = [n \in D |-> CurrentValue(p, g, n)]
    <3> HIDE DEF D
    <3> QED BY <2>2, <2>3
  <2> QED BY <2>4
<1>5. v = [n \in D |-> CurrentValue(p, v, n)]
  BY <1>4 DEF CurrentValues
<1> HIDE DEF v
<1> DEFINE Odd == {n \in D : v[n] \notin Decided}
<1>6. Odd = {}
  <2> SUFFICES ASSUME Odd # {} PROVE FALSE
    OBVIOUS
  <2>1. PICK n \in Odd : Deps(p.suite, n) \cap Odd = {}
    BY MinimalNode
  <2>2. \A m \in Deps(p.suite, n) : v[m] \in Decided
    BY <1>1, <2>1
  <2>3. CurrentValue(p, v, n) \in Decided
    BY <2>2, CurrentLocal
  <2> QED BY <1>5, <2>3
<1>7. v \in [D -> Decided]
  <2>1. \A n \in D : CurrentValue(p, v, n) \in Decided
    BY <1>5, <1>6
  <2> HIDE DEF D
  <2> QED BY <1>5, <2>1
<1>8. \A n \in D : v[n] = CurrentValue(p, v, n)
  BY <1>5
<1> QED BY <1>7, <1>8 DEF v

(* stageProofTruth: the same at a stage.                                   *)
LEMMA StageLocal ==
    ASSUME NEW p, NEW s \in Int, IsSuite(p.suite), NEW q \in Propositions, NEW n \in NodesOf(p.suite, q),
           NEW g, \A m \in Deps(p.suite, n) : g[m] \in Values
    PROVE  /\ StageValue(p, s, g, n) \in Values
           /\ \A h : (\A m \in Deps(p.suite, n) : g[m] = h[m]) => StageValue(p, s, g, n) = StageValue(p, s, h, n)
<1> DEFINE x == p.suite.nodes[n]
           Whole(values) ==
               IF /\ Settled(x, values) \notin {"TRUE", "FALSE"}
                  /\ \E c \in x.children : values[c] = "DEFERRED"
                 THEN Postponed(x, values) ELSE Settled(x, values)
<1>1. CASE x.type \in Operators
  <2>1. \A h : StageValue(p, s, h, n) = Whole([c \in x.children |-> h[c]])
    BY <1>1 DEF StageValue
  <2>2. Deps(p.suite, n) = x.children /\ x.k \in Nat /\ IsFiniteSet(x.children)
    BY <1>1, NodeShape
  <2>3. Whole([c \in x.children |-> g[c]]) \in Values
    <3> DEFINE values == [c \in x.children |-> g[c]]
    <3> SUFFICES Whole(values) \in Values
      OBVIOUS
    <3>1. \A c \in x.children : values[c] \in Values
      BY <2>2
    <3> HIDE DEF x, values
    <3>2. Settled(x, values) \in Decided
      BY <1>1, <2>2, <3>1, SettledMeans
    <3>3. CASE Settled(x, values) = "UNKNOWN" /\ \E c \in x.children : values[c] = "DEFERRED"
      <4>1. Postponed(x, values) \in {"UNKNOWN", "DEFERRED"}
        BY <1>1, <2>2, <3>1, <3>3, PostponedMeans
      <4> QED BY <3>2, <3>3, <4>1 DEF Values, Decided
    <3>4. CASE ~ (Settled(x, values) = "UNKNOWN" /\ \E c \in x.children : values[c] = "DEFERRED")
      BY <3>2, <3>4 DEF Values, Decided
    <3> QED BY <3>3, <3>4
  <2>4. ASSUME NEW h, \A m \in Deps(p.suite, n) : g[m] = h[m]
        PROVE  [c \in x.children |-> g[c]] = [c \in x.children |-> h[c]]
    BY <2>2, <2>4
  <2> HIDE DEF Whole
  <2> QED BY <2>1, <2>3, <2>4
<1>2. CASE x.type \notin Operators /\ IsPrerequisite(p.suite, n)
  <2>1. \A h : StageValue(p, s, h, n) = h[p.suite.root[x.target]]
    BY <1>2 DEF StageValue
  <2>2. Deps(p.suite, n) = {p.suite.root[x.target]}
    BY <1>2, NodeShape
  <2> QED BY <2>1, <2>2
<1>3. CASE x.type \notin Operators /\ ~IsPrerequisite(p.suite, n)
  <2>1. x.type \in {"test", "proposition", "obligation", "applicability"}
    BY <1>3, NodeShape
  <2>2. LeafTruth(p, n) \in Decided
    BY <2>1, LeafDecided
  <2>3. \A h : StageValue(p, s, h, n) =
                 IF s < TimingOf(p.suite, n).requiredBy THEN "DEFERRED"
                 ELSE IF DueNow(p, TimingOf(p.suite, n), s) THEN LeafTruth(p, n) ELSE "UNKNOWN"
    BY <1>3 DEF StageValue
  <2> QED BY <2>2, <2>3 DEF Decided, Values
<1> QED BY <1>1, <1>2, <1>3

(* There are values for all nodes at a stage, too.                         *)
LEMMA StageSolved ==
    ASSUME NEW p, NEW s \in Int, IsSuite(p.suite), NEW q \in Propositions, Acyclic(p.suite, q)
    PROVE  /\ StageValues(p, q, s) \in [NodesOf(p.suite, q) -> Values]
           /\ \A n \in NodesOf(p.suite, q) :
                 StageValues(p, q, s)[n] = StageValue(p, s, StageValues(p, q, s), n)
<1> DEFINE D == NodesOf(p.suite, q)
           Dep == Dependence(p.suite, q)
           F == [n \in D |-> [g \in [D -> Values] |-> StageValue(p, s, g, n)]]
           v == StageValues(p, q, s)
<1>1. WellOrdered(D, Dep) /\ \A n \in D : Dep[n] = Deps(p.suite, n) /\ Deps(p.suite, n) \subseteq D
  BY ExpressionOrdered, DepsStay DEF Dependence
<1>2. Local(D, Values, F, Dep)
  <2> SUFFICES ASSUME NEW n \in D, NEW g \in [D -> Values]
               PROVE  /\ F[n][g] \in Values
                      /\ \A h \in [D -> Values] : (\A m \in Dep[n] : g[m] = h[m]) => F[n][g] = F[n][h]
    BY DEF Local
  <2>1. \A h \in [D -> Values] : F[n][h] = StageValue(p, s, h, n)
    OBVIOUS
  <2>2. \A m \in Deps(p.suite, n) : g[m] \in Values
    BY <1>1
  <2> HIDE DEF F, Dep
  <2> QED BY <1>1, <2>1, <2>2, StageLocal
<1>3. Values # {}
  BY DEF Values, Decided
<1>4. \E g : g = [n \in D |-> StageValue(p, s, g, n)]
  <2>1. PICK g \in [D -> Values] : \A n \in D : g[n] = F[n][g]
    <3> HIDE DEF D, Dep, F
    <3> QED BY <1>1, <1>2, <1>3, Evaluates
  <2>2. \A n \in D : g[n] = StageValue(p, s, g, n)
    BY <2>1
  <2>3. g = [n \in D |-> g[n]]
    OBVIOUS
  <2>4. g = [n \in D |-> StageValue(p, s, g, n)]
    <3> HIDE DEF D
    <3> QED BY <2>2, <2>3
  <2> QED BY <2>4
<1>5. v = [n \in D |-> StageValue(p, s, v, n)]
  BY <1>4 DEF StageValues
<1> HIDE DEF v
<1> DEFINE Odd == {n \in D : v[n] \notin Values}
<1>6. Odd = {}
  <2> SUFFICES ASSUME Odd # {} PROVE FALSE
    OBVIOUS
  <2>1. PICK n \in Odd : Deps(p.suite, n) \cap Odd = {}
    BY MinimalNode
  <2>2. \A m \in Deps(p.suite, n) : v[m] \in Values
    BY <1>1, <2>1
  <2>3. StageValue(p, s, v, n) \in Values
    BY <2>2, StageLocal
  <2> QED BY <1>5, <2>3
<1>7. v \in [D -> Values]
  <2>1. \A n \in D : StageValue(p, s, v, n) \in Values
    BY <1>5, <1>6
  <2> HIDE DEF D
  <2> QED BY <1>5, <2>1
<1>8. \A n \in D : v[n] = StageValue(p, s, v, n)
  BY <1>5
<1> QED BY <1>7, <1>8 DEF v

(* Two-valued logic: whether a node holds depends on its dependences.      *)
LEMMA HeldLocal ==
    ASSUME NEW suite, NEW leaves, IsSuite(suite), NEW q \in Propositions, NEW n \in NodesOf(suite, q),
           NEW g, \A m \in Deps(suite, n) : g[m] \in BOOLEAN
    PROVE  /\ HoldsAt(suite, leaves, g, n) \in BOOLEAN
           /\ \A h : (\A m \in Deps(suite, n) : g[m] = h[m]) =>
                        HoldsAt(suite, leaves, g, n) = HoldsAt(suite, leaves, h, n)
<1> DEFINE x == suite.nodes[n]
<1>1. CASE x.type \in Operators
  <2>1. \A h : HoldsAt(suite, leaves, h, n) = Combines(x, {c \in x.children : h[c]})
    BY <1>1 DEF HoldsAt
  <2>2. Deps(suite, n) = x.children
    BY <1>1, NodeShape
  <2>3. \A holding : Combines(x, holding) \in BOOLEAN
    <3>1. CASE x.type = "ALL_OF"
      BY <3>1 DEF Combines
    <3>2. CASE x.type = "ANY_OF"
      BY <3>2 DEF Combines
    <3>3. CASE x.type = "AT_LEAST_K"
      BY <3>3 DEF Combines
    <3> QED BY <1>1, <3>1, <3>2, <3>3 DEF Operators
  <2>4. ASSUME NEW h, \A m \in Deps(suite, n) : g[m] = h[m]
        PROVE  {c \in x.children : g[c]} = {c \in x.children : h[c]}
    BY <2>2, <2>4
  <2> QED BY <2>1, <2>3, <2>4
<1>2. CASE x.type \notin Operators /\ IsPrerequisite(suite, n)
  <2>1. \A h : HoldsAt(suite, leaves, h, n) = h[suite.root[x.target]]
    BY <1>2 DEF HoldsAt
  <2>2. Deps(suite, n) = {suite.root[x.target]}
    BY <1>2, NodeShape
  <2> QED BY <2>1, <2>2
<1>3. CASE x.type \notin Operators /\ ~IsPrerequisite(suite, n)
  <2>1. \A h : HoldsAt(suite, leaves, h, n) = (n \in leaves)
    BY <1>3 DEF HoldsAt
  <2>2. (n \in leaves) \in BOOLEAN
    OBVIOUS
  <2> QED BY <2>1, <2>2, Zenon
<1> QED BY <1>1, <1>2, <1>3

(* And what holds is determined.                                           *)
LEMMA HeldSolved ==
    ASSUME NEW suite, NEW leaves, IsSuite(suite), NEW q \in Propositions, Acyclic(suite, q)
    PROVE  /\ Held(suite, q, leaves) \in [NodesOf(suite, q) -> BOOLEAN]
           /\ \A n \in NodesOf(suite, q) :
                 Held(suite, q, leaves)[n] = HoldsAt(suite, leaves, Held(suite, q, leaves), n)
<1> DEFINE D == NodesOf(suite, q)
           Dep == Dependence(suite, q)
           F == [n \in D |-> [g \in [D -> BOOLEAN] |-> HoldsAt(suite, leaves, g, n)]]
           v == Held(suite, q, leaves)
<1>1. WellOrdered(D, Dep) /\ \A n \in D : Dep[n] = Deps(suite, n) /\ Deps(suite, n) \subseteq D
  BY ExpressionOrdered, DepsStay DEF Dependence
<1>2. Local(D, BOOLEAN, F, Dep)
  <2> SUFFICES ASSUME NEW n \in D, NEW g \in [D -> BOOLEAN]
               PROVE  /\ F[n][g] \in BOOLEAN
                      /\ \A h \in [D -> BOOLEAN] : (\A m \in Dep[n] : g[m] = h[m]) => F[n][g] = F[n][h]
    BY DEF Local
  <2>1. \A h \in [D -> BOOLEAN] : F[n][h] = HoldsAt(suite, leaves, h, n)
    OBVIOUS
  <2>2. \A m \in Deps(suite, n) : g[m] \in BOOLEAN
    BY <1>1
  <2> HIDE DEF F, Dep
  <2> QED BY <1>1, <2>1, <2>2, HeldLocal
<1>3. BOOLEAN # {}
  OBVIOUS
<1>4. \E g : g = [n \in D |-> HoldsAt(suite, leaves, g, n)]
  <2>1. PICK g \in [D -> BOOLEAN] : \A n \in D : g[n] = F[n][g]
    <3> HIDE DEF D, Dep, F
    <3> QED BY <1>1, <1>2, <1>3, Evaluates
  <2>2. \A n \in D : g[n] = HoldsAt(suite, leaves, g, n)
    BY <2>1
  <2>3. g = [n \in D |-> g[n]]
    OBVIOUS
  <2>4. g = [n \in D |-> HoldsAt(suite, leaves, g, n)]
    <3> HIDE DEF D
    <3> QED BY <2>2, <2>3
  <2> QED BY <2>4
<1>5. v = [n \in D |-> HoldsAt(suite, leaves, v, n)]
  BY <1>4 DEF Held
<1> HIDE DEF v
<1> DEFINE Odd == {n \in D : v[n] \notin BOOLEAN}
<1>6. Odd = {}
  <2> SUFFICES ASSUME Odd # {} PROVE FALSE
    OBVIOUS
  <2>1. PICK n \in Odd : Deps(suite, n) \cap Odd = {}
    BY MinimalNode
  <2>2. \A m \in Deps(suite, n) : v[m] \in BOOLEAN
    BY <1>1, <2>1
  <2>3. HoldsAt(suite, leaves, v, n) \in BOOLEAN
    BY <2>2, HeldLocal
  <2> QED BY <1>5, <2>3
<1>7. v \in [D -> BOOLEAN]
  <2>1. \A n \in D : HoldsAt(suite, leaves, v, n) \in BOOLEAN
    BY <1>5, <1>6
  <2> HIDE DEF D
  <2> QED BY <1>5, <2>1
<1>8. \A n \in D : v[n] = HoldsAt(suite, leaves, v, n)
  BY <1>5
<1> QED BY <1>7, <1>8 DEF v

(***************************************************************************)
(* Three-valued evaluation against two-valued logic.                       *)
(***************************************************************************)

(* What Held says of an operator and of a leaf.                            *)
LEMMA HeldAt ==
    ASSUME NEW suite, NEW leaves, IsSuite(suite), NEW q \in Propositions, Acyclic(suite, q),
           NEW n \in NodesOf(suite, q)
    PROVE  LET x == suite.nodes[n]
           IN  /\ x.type \in Operators =>
                     (Held(suite, q, leaves)[n] <=> Combines(x, {c \in x.children : Held(suite, q, leaves)[c]}))
               /\ x.type \notin Operators /\ IsPrerequisite(suite, n) =>
                     Held(suite, q, leaves)[n] = Held(suite, q, leaves)[suite.root[x.target]]
               /\ x.type \notin Operators /\ ~IsPrerequisite(suite, n) =>
                     (Held(suite, q, leaves)[n] <=> n \in leaves)
<1> DEFINE held == Held(suite, q, leaves)
           x == suite.nodes[n]
<1>1. held[n] = HoldsAt(suite, leaves, held, n)
  BY HeldSolved
<1> HIDE DEF held
<1>2. ASSUME x.type \in Operators PROVE held[n] <=> Combines(x, {c \in x.children : held[c]})
  BY <1>1, <1>2 DEF HoldsAt
<1>3. ASSUME x.type \notin Operators, IsPrerequisite(suite, n)
      PROVE  held[n] = held[suite.root[x.target]]
  BY <1>1, <1>3 DEF HoldsAt
<1>4. ASSUME x.type \notin Operators, ~IsPrerequisite(suite, n) PROVE held[n] <=> n \in leaves
  BY <1>1, <1>4 DEF HoldsAt
<1> QED BY <1>2, <1>3, <1>4 DEF held

(* More leaves prove no less.                                              *)
LEMMA HeldGrows ==
    ASSUME NEW suite, IsSuite(suite), NEW q \in Propositions, Acyclic(suite, q),
           NEW few, NEW more, few \subseteq more, NEW n \in NodesOf(suite, q), Held(suite, q, few)[n]
    PROVE  Held(suite, q, more)[n]
<1> DEFINE D == NodesOf(suite, q)
           g == Held(suite, q, few)
           h == Held(suite, q, more)
           Odd == {m \in D : g[m] /\ ~h[m]}
<1> SUFFICES ASSUME Odd # {} PROVE FALSE
  OBVIOUS
<1>1. PICK m \in Odd : Deps(suite, m) \cap Odd = {}
  BY MinimalNode
<1> DEFINE x == suite.nodes[m]
<1>2. \A k \in Deps(suite, m) : g[k] => h[k]
  <2>1. Deps(suite, m) \subseteq D
    BY DepsStay
  <2> QED BY <1>1, <2>1
<1>3. CASE x.type \in Operators
  <2>1. Deps(suite, m) = x.children /\ x.k \in Nat /\ IsFiniteSet(x.children)
    BY <1>3, NodeShape
  <2>2. /\ g[m] <=> Combines(x, {c \in x.children : g[c]})
        /\ h[m] <=> Combines(x, {c \in x.children : h[c]})
    BY <1>3, HeldAt
  <2>3. {c \in x.children : g[c]} \subseteq {c \in x.children : h[c]}
    BY <1>2, <2>1
  <2>4. Combines(x, {c \in x.children : g[c]})
    BY <1>1, <2>2
  <2> DEFINE A == {c \in x.children : g[c]}
             B == {c \in x.children : h[c]}
  <2>5. A \in SUBSET x.children /\ B \in SUBSET x.children
    OBVIOUS
  <2>6. Combines(x, B)
    <3>1. A \subseteq B /\ Combines(x, A)
      BY <2>3, <2>4
    <3> HIDE DEF A, B, x
    <3> QED BY <1>3, <2>1, <2>5, <3>1, CombinesGrows
  <2> QED BY <1>1, <2>2, <2>6
<1>4. CASE x.type \notin Operators /\ IsPrerequisite(suite, m)
  <2>1. Deps(suite, m) = {suite.root[x.target]}
    BY <1>4, NodeShape
  <2>2. g[m] = g[suite.root[x.target]] /\ h[m] = h[suite.root[x.target]]
    BY <1>4, HeldAt
  <2> QED BY <1>1, <1>2, <2>1, <2>2
<1>5. CASE x.type \notin Operators /\ ~IsPrerequisite(suite, m)
  <2>1. (g[m] <=> m \in few) /\ (h[m] <=> m \in more)
    BY <1>5, HeldAt
  <2> QED BY <1>1, <2>1
<1> QED BY <1>3, <1>4, <1>5

(* The leaves established and those still open, for the current verdict.   *)
ProvenNow(p, q) == LeavesAt(p, q, p.stage) \cap LeavesThat(p, q, "TRUE")
OpenNow(p, q) == LeafNodes(p.suite, q) \ (LeavesAt(p, q, p.stage) \cap LeavesThat(p, q, "FALSE"))

(* evaluateCurrentProof calls a node true when the leaves established      *)
(* prove it, and false when those still open could not.                    *)
LEMMA CurrentIsExact ==
    ASSUME NEW p, IsSuite(p.suite), NEW q \in Propositions, Acyclic(p.suite, q),
           NEW n \in NodesOf(p.suite, q)
    PROVE  /\ CurrentValues(p, q)[n] = "TRUE" <=> Held(p.suite, q, ProvenNow(p, q))[n]
           /\ CurrentValues(p, q)[n] = "FALSE" <=> ~Held(p.suite, q, OpenNow(p, q))[n]
<1> DEFINE D == NodesOf(p.suite, q)
           v == CurrentValues(p, q)
           yes == Held(p.suite, q, ProvenNow(p, q))
           may == Held(p.suite, q, OpenNow(p, q))
           Exact(m) == (v[m] = "TRUE" <=> yes[m]) /\ (v[m] = "FALSE" <=> ~may[m])
           Odd == {m \in D : ~Exact(m)}
<1> SUFFICES ASSUME ~Exact(n) PROVE FALSE
  OBVIOUS
<1>0. Odd # {} /\ Odd \in SUBSET NodesOf(p.suite, q)
  <2>1. n \in Odd
    BY Zenon
  <2>2. Odd \subseteq NodesOf(p.suite, q)
    OBVIOUS
  <2> HIDE DEF Odd
  <2> QED BY <2>1, <2>2
<1>1. PICK m \in Odd : Deps(p.suite, m) \cap Odd = {}
  <2> HIDE DEF Odd
  <2> QED BY <1>0, MinimalNode
<1>2. \A k \in Deps(p.suite, m) : Exact(k) /\ k \in D
  <2>1. Deps(p.suite, m) \subseteq D
    BY DepsStay
  <2> QED BY <1>1, <2>1
<1>3. v[m] = CurrentValue(p, v, m) /\ \A k \in D : v[k] \in Decided
  BY CurrentSolved
<1> SUFFICES Exact(m)
  BY <1>1
<1> DEFINE x == p.suite.nodes[m]
<1>4. CASE x.type \in Operators
  <2> DEFINE values == [c \in x.children |-> v[c]]
  <2>1. Deps(p.suite, m) = x.children /\ x.k \in Nat /\ IsFiniteSet(x.children)
    BY <1>4, NodeShape
  <2>2. v[m] = Settled(x, values)
    BY <1>3, <1>4 DEF CurrentValue
  <2>3. /\ yes[m] <=> Combines(x, {c \in x.children : yes[c]})
        /\ may[m] <=> Combines(x, {c \in x.children : may[c]})
    BY <1>4, HeldAt
  <2>4. \A c \in x.children : values[c] \in Values
    BY <1>2, <1>3, <2>1 DEF Values
  <2>5. /\ {c \in x.children : yes[c]} = {c \in x.children : values[c] = "TRUE"}
        /\ {c \in x.children : may[c]} = {c \in x.children : values[c] # "FALSE"}
    BY <1>2, <2>1
  <2>6. /\ Settled(x, values) = "TRUE" <=> Combines(x, {c \in x.children : values[c] = "TRUE"})
        /\ Settled(x, values) = "FALSE" <=> ~Combines(x, {c \in x.children : values[c] # "FALSE"})
    <3> HIDE DEF x, values
    <3> QED BY <1>4, <2>1, <2>4, SettledMeans
  <2> HIDE DEF v, yes, may, x, values
  <2> QED BY <2>2, <2>3, <2>5, <2>6
<1>5. CASE x.type \notin Operators /\ IsPrerequisite(p.suite, m)
  <2>1. Deps(p.suite, m) = {p.suite.root[x.target]}
    BY <1>5, NodeShape
  <2>2. /\ yes[m] = yes[p.suite.root[x.target]]
        /\ may[m] = may[p.suite.root[x.target]]
    BY <1>5, HeldAt
  <2>3. v[m] = v[p.suite.root[x.target]]
    BY <1>3, <1>5 DEF CurrentValue
  <2> QED BY <1>2, <2>1, <2>2, <2>3
<1>6. CASE x.type \notin Operators /\ ~IsPrerequisite(p.suite, m)
  <2>1. (yes[m] <=> m \in ProvenNow(p, q)) /\ (may[m] <=> m \in OpenNow(p, q))
    BY <1>6, HeldAt
  <2>2. v[m] = IF ExecutableNow(p, TimingOf(p.suite, m), p.stage) THEN LeafTruth(p, m) ELSE "UNKNOWN"
    BY <1>3, <1>6 DEF CurrentValue
  <2>3. m \in LeafNodes(p.suite, q)
    BY <1>6 DEF LeafNodes
  <2> HIDE DEF v, yes, may
  <2> QED BY <2>1, <2>2, <2>3 DEF ProvenNow, OpenNow, LeavesAt, LeavesThat
<1> QED BY <1>4, <1>5, <1>6

(* The leaves established, and those that may wait, for the gate of s.     *)
Established(p, q, s) == LeavesDue(p, q, s) \cap LeavesThat(p, q, "TRUE")

(* An operator at a stage: true by the children that are true, and true or *)
(* deferred by those that are either.                                      *)
LEMMA OperatorAtStage ==
    ASSUME NEW x, x.type \in Operators, x.k \in Nat, IsFiniteSet(x.children),
           NEW values, \A c \in x.children : values[c] \in Values,
           NEW value, value = IF /\ Settled(x, values) \notin {"TRUE", "FALSE"}
                                 /\ \E c \in x.children : values[c] = "DEFERRED"
                                THEN Postponed(x, values) ELSE Settled(x, values)
    PROVE  /\ value = "TRUE" <=> Combines(x, {c \in x.children : values[c] = "TRUE"})
           /\ value \in {"TRUE", "DEFERRED"} <=>
                 Combines(x, {c \in x.children : values[c] \in {"TRUE", "DEFERRED"}})
<1> DEFINE yes == {c \in x.children : values[c] = "TRUE"}
           expected == {c \in x.children : values[c] \in {"TRUE", "DEFERRED"}}
           open == {c \in x.children : values[c] # "FALSE"}
           late == \E c \in x.children : values[c] = "DEFERRED"
<1>1. /\ yes \in SUBSET x.children /\ expected \in SUBSET x.children /\ open \in SUBSET x.children
      /\ yes \subseteq expected /\ expected \subseteq open
  OBVIOUS
<1>2. /\ Settled(x, values) \in Decided
      /\ Settled(x, values) = "TRUE" <=> Combines(x, yes)
      /\ Settled(x, values) = "FALSE" <=> ~Combines(x, open)
  BY SettledMeans
<1>3. ASSUME Settled(x, values) = "UNKNOWN"
      PROVE  /\ late => Postponed(x, values) \in {"UNKNOWN", "DEFERRED"}
             /\ Combines(x, expected) <=> late /\ Postponed(x, values) = "DEFERRED"
  BY <1>3, PostponedMeans
<1>4. value = IF Settled(x, values) \notin {"TRUE", "FALSE"} /\ late
                THEN Postponed(x, values) ELSE Settled(x, values)
  OBVIOUS
<1> SUFFICES /\ value = "TRUE" <=> Combines(x, yes)
             /\ value \in {"TRUE", "DEFERRED"} <=> Combines(x, expected)
  OBVIOUS
<1> HIDE DEF yes, expected, open, late
<1>5. Combines(x, yes) => Combines(x, expected)
  BY <1>1, CombinesGrows
<1>6. Combines(x, expected) => Combines(x, open)
  BY <1>1, CombinesGrows
<1>7. CASE Settled(x, values) = "TRUE"
  BY <1>2, <1>4, <1>5, <1>7
<1>8. CASE Settled(x, values) = "FALSE"
  BY <1>2, <1>4, <1>5, <1>6, <1>8
<1>9. CASE Settled(x, values) = "UNKNOWN"
  BY <1>2, <1>3, <1>4, <1>5, <1>9
<1> QED BY <1>2, <1>7, <1>8, <1>9 DEF Decided

(* stageProofTruth calls a node true when the leaves established prove it, *)
(* and deferred when they only do with those that may wait.                *)
LEMMA StageIsHonest ==
    ASSUME NEW p, IsSuite(p.suite), NEW q \in Propositions, Acyclic(p.suite, q), NEW s \in Int,
           NEW n \in NodesOf(p.suite, q)
    PROVE  /\ StageValues(p, q, s)[n] \in Values
           /\ StageValues(p, q, s)[n] = "TRUE" <=> Held(p.suite, q, Established(p, q, s))[n]
           /\ StageValues(p, q, s)[n] \in {"TRUE", "DEFERRED"} <=>
                 Held(p.suite, q, Established(p, q, s) \cup LeavesAhead(p, q, s))[n]
<1> DEFINE D == NodesOf(p.suite, q)
           v == StageValues(p, q, s)
           yes == Held(p.suite, q, Established(p, q, s))
           may == Held(p.suite, q, Established(p, q, s) \cup LeavesAhead(p, q, s))
           Exact(m) == (v[m] = "TRUE" <=> yes[m]) /\ (v[m] \in {"TRUE", "DEFERRED"} <=> may[m])
           Odd == {m \in D : ~Exact(m)}
<1>1. \A k \in D : v[k] \in Values /\ v[k] = StageValue(p, s, v, k)
  BY StageSolved
<1> SUFFICES ASSUME ~Exact(n) PROVE FALSE
  BY <1>1
<1>2. Odd # {} /\ Odd \in SUBSET NodesOf(p.suite, q)
  <2>1. n \in Odd
    BY Zenon
  <2>2. Odd \subseteq NodesOf(p.suite, q)
    OBVIOUS
  <2> HIDE DEF Odd
  <2> QED BY <2>1, <2>2
<1>3. PICK m \in Odd : Deps(p.suite, m) \cap Odd = {}
  <2> HIDE DEF Odd
  <2> QED BY <1>2, MinimalNode
<1>4. \A k \in Deps(p.suite, m) : Exact(k) /\ k \in D
  <2>1. Deps(p.suite, m) \subseteq D
    BY DepsStay
  <2> QED BY <1>3, <2>1
<1>5. v[m] = StageValue(p, s, v, m)
  BY <1>1
<1> SUFFICES Exact(m)
  BY <1>3
<1> DEFINE x == p.suite.nodes[m]
<1>6. CASE x.type \in Operators
  <2> DEFINE values == [c \in x.children |-> v[c]]
  <2>1. Deps(p.suite, m) = x.children /\ x.k \in Nat /\ IsFiniteSet(x.children)
    BY <1>6, NodeShape
  <2>2. v[m] = IF /\ Settled(x, values) \notin {"TRUE", "FALSE"}
                  /\ \E c \in x.children : values[c] = "DEFERRED"
                 THEN Postponed(x, values) ELSE Settled(x, values)
    BY <1>5, <1>6 DEF StageValue
  <2>3. /\ yes[m] <=> Combines(x, {c \in x.children : yes[c]})
        /\ may[m] <=> Combines(x, {c \in x.children : may[c]})
    BY <1>6, HeldAt
  <2>4. \A c \in x.children : values[c] \in Values
    BY <1>1, <1>4, <2>1
  <2>5. /\ {c \in x.children : yes[c]} = {c \in x.children : values[c] = "TRUE"}
        /\ {c \in x.children : may[c]} = {c \in x.children : values[c] \in {"TRUE", "DEFERRED"}}
    BY <1>4, <2>1
  <2>6. /\ v[m] = "TRUE" <=> Combines(x, {c \in x.children : values[c] = "TRUE"})
        /\ v[m] \in {"TRUE", "DEFERRED"} <=>
              Combines(x, {c \in x.children : values[c] \in {"TRUE", "DEFERRED"}})
    <3> HIDE DEF x, values, v
    <3> QED BY <1>6, <2>1, <2>2, <2>4, OperatorAtStage
  <2> HIDE DEF v, yes, may, x, values
  <2> QED BY <2>3, <2>5, <2>6
<1>7. CASE x.type \notin Operators /\ IsPrerequisite(p.suite, m)
  <2>1. Deps(p.suite, m) = {p.suite.root[x.target]}
    BY <1>7, NodeShape
  <2>2. /\ yes[m] = yes[p.suite.root[x.target]]
        /\ may[m] = may[p.suite.root[x.target]]
    BY <1>7, HeldAt
  <2>3. v[m] = v[p.suite.root[x.target]]
    BY <1>5, <1>7 DEF StageValue
  <2> QED BY <1>4, <2>1, <2>2, <2>3
<1>8. CASE x.type \notin Operators /\ ~IsPrerequisite(p.suite, m)
  <2>1. /\ yes[m] <=> m \in Established(p, q, s)
        /\ may[m] <=> m \in Established(p, q, s) \cup LeavesAhead(p, q, s)
    BY <1>8, HeldAt
  <2> DEFINE timing == TimingOf(p.suite, m)
  <2>2. v[m] = IF s < timing.requiredBy THEN "DEFERRED"
               ELSE IF DueNow(p, timing, s) THEN LeafTruth(p, m) ELSE "UNKNOWN"
    BY <1>5, <1>8 DEF StageValue
  <2>3. m \in LeafNodes(p.suite, q) /\ timing.requiredBy \in Nat /\ LeafTruth(p, m) \in Decided
    BY <1>8, NodeShape, LeafDecided DEF LeafNodes
  <2>4. m \in LeavesAhead(p, q, s) <=> s < timing.requiredBy
    BY <2>3 DEF LeavesAhead
  <2>5. m \in Established(p, q, s) <=>
          /\ ExecutableNow(p, timing, s) /\ ~ (s < timing.requiredBy)
          /\ LeafTruth(p, m) = "TRUE"
    BY <2>3 DEF Established, LeavesDue, LeavesAt, LeavesAhead, LeavesThat
  <2>6. DueNow(p, timing, s) <=> ExecutableNow(p, timing, s) /\ ~ (s < timing.requiredBy)
    BY <2>3 DEF DueNow
  <2> HIDE DEF v, yes, may, timing
  <2> QED BY <2>1, <2>2, <2>3, <2>4, <2>5, <2>6 DEF Decided
<1> QED BY <1>6, <1>7, <1>8

(***************************************************************************)
(* Projects and their recalculation.                                       *)
(***************************************************************************)
Verdicts ==
    {[truth |-> "TRUE", status |-> "SATISFIED"], [truth |-> "FALSE", status |-> "VIOLATED"],
     [truth |-> "UNKNOWN", status |-> "UNDETERMINED"], [truth |-> "UNKNOWN", status |-> "CONTRADICTED"]}
ReviewRecords == [version : 1..MaxVersion, result : {"ACCEPTED", "DISAGREED"}]
EvidenceRecords ==
    [proposition : Propositions, test : Tests, relation : {"ESTABLISHES", "REFUTES"},
     stage : EvidenceStages \cup {NativeStage}]
Project ==
    [suite : Suites \cup {EmptySuite}, version : 0..MaxVersion, reviews : SUBSET ReviewRecords,
     evidence : SUBSET EvidenceRecords, ran : SUBSET Tests, done : SUBSET Stages,
     complete : SUBSET Stages, stage : Stages, verdict : [Propositions -> Verdicts]]

(* Every state of the program is the recalculation of some project.        *)
IInv == \E base \in Project : project = Recalculated(base)

(* Every suite a project may have is one of expressions.                   *)
LEMMA SuiteShape ==
    ASSUME NEW suite \in Suites \cup {EmptySuite}
    PROVE  IsSuite(suite)
<1>1. IsSuite(EmptySuite)
  BY DEF IsSuite, EmptySuite, IsTiming, NoTiming, OwnNodes
<1> QED BY <1>1, SuitesAreExpressions

(* A root is one of the nodes that evaluating its proposition meets.       *)
LEMMA RootMet ==
    ASSUME NEW suite, IsSuite(suite), NEW q \in Propositions, suite.root[q] # 0
    PROVE  suite.root[q] \in NodesOf(suite, q)
<1>1. suite.root[q] \in OwnNodes(suite, q)
  BY DEF IsSuite
<1>2. q \in Needs(suite, q)
  BY NeedsOfPrerequisites
<1> QED BY <1>1, <1>2 DEF OwnNodes, NodesOf

(* The verdict of a proposition.                                           *)
LEMMA VerdictIsExact ==
    ASSUME NEW p, IsSuite(p.suite), NEW q \in Propositions
    PROVE  /\ Verdict(p, q) \in Verdicts
           /\ Verdict(p, q).truth = "TRUE" <=>
                 /\ ObservedTruth(p, q) \notin {"FALSE", "CONTRADICTED"}
                 /\ Scheduled(p, q)
                 /\ Proves(p.suite, q, ProvenNow(p, q))
           /\ Verdict(p, q).truth = "FALSE" <=>
                 \/ ObservedTruth(p, q) = "FALSE"
                 \/ /\ ObservedTruth(p, q) # "CONTRADICTED"
                    /\ Scheduled(p, q)
                    /\ ~Proves(p.suite, q, OpenNow(p, q))
           /\ Verdict(p, q).status = "SATISFIED" => Verdict(p, q).truth = "TRUE"
           /\ Verdict(p, q).status = "UNDETERMINED" => ObservedTruth(p, q) \notin {"FALSE", "CONTRADICTED"}
<1> DEFINE observed == ObservedTruth(p, q)
           truth == IF observed = "FALSE" THEN "FALSE" ELSE ProofTruth(p, q)
<1>1. /\ ProofTruth(p, q) \in Decided
      /\ ProofTruth(p, q) = "TRUE" <=> Scheduled(p, q) /\ Proves(p.suite, q, ProvenNow(p, q))
      /\ ProofTruth(p, q) = "FALSE" <=> Scheduled(p, q) /\ ~Proves(p.suite, q, OpenNow(p, q))
  <2>1. CASE Scheduled(p, q)
    <3>1. p.suite.root[q] # 0 /\ Acyclic(p.suite, q)
      BY <2>1 DEF Scheduled
    <3>2. p.suite.root[q] \in NodesOf(p.suite, q)
      BY <3>1, RootMet
    <3>3. ProofTruth(p, q) = CurrentValues(p, q)[p.suite.root[q]]
      BY <2>1 DEF ProofTruth
    <3>4. ProofTruth(p, q) \in Decided
      BY <3>1, <3>2, <3>3, CurrentSolved
    <3>5. /\ ProofTruth(p, q) = "TRUE" <=> Proves(p.suite, q, ProvenNow(p, q))
          /\ ProofTruth(p, q) = "FALSE" <=> ~Proves(p.suite, q, OpenNow(p, q))
      BY <3>1, <3>2, <3>3, CurrentIsExact DEF Proves
    <3> QED BY <2>1, <3>4, <3>5
  <2>2. CASE ~Scheduled(p, q)
    BY <2>2 DEF ProofTruth, Decided
  <2> QED BY <2>1, <2>2
<1>2. observed \in {"CONTRADICTED", "FALSE", "TRUE", "UNKNOWN"}
  BY DEF ObservedTruth, Found
<1> DEFINE status == CASE truth = "TRUE" -> "SATISFIED" [] truth = "FALSE" -> "VIOLATED"
                       [] OTHER -> "UNDETERMINED"
<1>3. Verdict(p, q) = IF observed = "CONTRADICTED" THEN [truth |-> "UNKNOWN", status |-> "CONTRADICTED"]
                      ELSE [truth |-> truth, status |-> status]
  BY DEF Verdict
<1>4. truth \in Decided
  BY <1>1 DEF Decided
<1>5. /\ truth = "TRUE" => status = "SATISFIED"
      /\ truth = "FALSE" => status = "VIOLATED"
      /\ truth = "UNKNOWN" => status = "UNDETERMINED"
  OBVIOUS
<1>6. /\ truth = "TRUE" <=> observed # "FALSE" /\ ProofTruth(p, q) = "TRUE"
      /\ truth = "FALSE" <=> observed = "FALSE" \/ ProofTruth(p, q) = "FALSE"
  OBVIOUS
<1> HIDE DEF observed, truth, status
<1>7. CASE observed = "CONTRADICTED"
  BY <1>3, <1>7 DEF Verdicts, observed
<1>8. CASE observed # "CONTRADICTED"
  <2>1. Verdict(p, q).truth = truth /\ Verdict(p, q).status = status
    BY <1>3, <1>8
  <2>2. Verdict(p, q) \in Verdicts
    BY <1>3, <1>4, <1>5, <1>8 DEF Verdicts, Decided
  <2> QED BY <1>1, <1>2, <1>4, <1>5, <1>6, <1>8, <2>1, <2>2 DEF Decided, observed
<1> QED BY <1>7, <1>8

(* What a recalculation leaves alone.                                      *)
SameWork(p, r) ==
    /\ p.suite = r.suite /\ p.version = r.version /\ p.reviews = r.reviews
    /\ p.evidence = r.evidence /\ p.ran = r.ran /\ p.done = r.done

(* All that proofs read of a project, but for the current stage.           *)
LEMMA SameProofs ==
    ASSUME NEW p, NEW r, SameWork(p, r)
    PROVE  /\ Required(p) = Required(r)
           /\ \A q : /\ ObservedTruth(p, q) = ObservedTruth(r, q)
                     /\ Scheduled(p, q) <=> Scheduled(r, q)
                     /\ \A truth : LeavesThat(p, q, truth) = LeavesThat(r, q, truth)
                     /\ \A s : LeavesAt(p, q, s) = LeavesAt(r, q, s)
                     /\ \A s : LeavesAhead(p, q, s) = LeavesAhead(r, q, s)
<1>1. \A q : ObservedTruth(p, q) = ObservedTruth(r, q)
  BY DEF SameWork, ObservedTruth
<1>2. Reviewed(p) <=> Reviewed(r)
  BY DEF SameWork, Reviewed
<1>3. \A q : Scheduled(p, q) <=> Scheduled(r, q)
  BY <1>2 DEF SameWork, Scheduled
<1>4. \A n : LeafTruth(p, n) = LeafTruth(r, n)
  <2> SUFFICES ASSUME NEW n PROVE LeafTruth(p, n) = LeafTruth(r, n)
    OBVIOUS
  <2>1. ObservedTruth(p, p.suite.nodes[n].target) = ObservedTruth(r, r.suite.nodes[n].target)
    BY <1>1 DEF SameWork
  <2>2. p.suite = r.suite /\ p.evidence = r.evidence
    BY DEF SameWork
  <2> QED BY <1>2, <2>1, <2>2 DEF LeafTruth
<1>5. \A q, truth : LeavesThat(p, q, truth) = LeavesThat(r, q, truth)
  BY <1>4 DEF SameWork, LeavesThat
<1>6. \A timing, s : ExecutableNow(p, timing, s) <=> ExecutableNow(r, timing, s)
  BY DEF SameWork, ExecutableNow, TargetAvailable
<1>7. \A q, s : LeavesAt(p, q, s) = LeavesAt(r, q, s)
  BY <1>6 DEF SameWork, LeavesAt
<1>8. \A q, s : LeavesAhead(p, q, s) = LeavesAhead(r, q, s)
  BY DEF SameWork, LeavesAhead
<1>9. Required(p) = Required(r)
  BY DEF SameWork, Required
<1> QED BY <1>1, <1>3, <1>5, <1>7, <1>8, <1>9

(* What recalculate derives.                                               *)
Finished(p) ==
    LET passed == {s \in Stages : Gate(p, s)}
    IN  {s \in Stages : \A t \in Stages : t <= s => t \in passed}
Current(p) == IF Finished(p) = Stages THEN Max(Stages) ELSE Min(Stages \ Finished(p))
Staged(p) == [p EXCEPT !.complete = Finished(p), !.stage = Current(p)]

(* A completed stage passed its own gate.                                  *)
LEMMA FinishedPassed ==
    ASSUME NEW p, NEW s \in Finished(p)
    PROVE  s \in Int /\ Gate(p, s)
<1>1. s \in Stages
  BY DEF Finished
<1>2. s \in Int
  BY <1>1, StagesAreModelled
<1> QED BY <1>1, <1>2 DEF Finished

(* The current stage is one of the stages.                                 *)
LEMMA CurrentIsStage ==
    ASSUME NEW p
    PROVE  Current(p) \in Stages
<1>1. Stages \in SUBSET (0 .. 30) /\ Stages # {} /\ Finished(p) \subseteq Stages
  BY StagesAreModelled DEF Finished
<1>2. Max(Stages) \in Stages
  <2>1. \E m \in Stages : \A y \in Stages : y <= m
    BY <1>1, LargestOf
  <2>2. \E m \in Stages : \A y \in Stages : m >= y
    BY <1>1, <2>1
  <2> QED BY <2>2 DEF Max
<1>3. ASSUME Finished(p) # Stages PROVE Min(Stages \ Finished(p)) \in Stages
  <2>1. Stages \ Finished(p) # {}
    BY <1>1, <1>3
  <2>2. Stages \ Finished(p) \in SUBSET Nat
    <3>1. \A t \in Stages : t \in Nat
      BY <1>1
    <3> QED BY <3>1
  <2>3. \E m \in Stages \ Finished(p) : \A y \in Stages \ Finished(p) : m <= y
    BY <2>1, <2>2, SmallestOf
  <2> QED BY <2>3 DEF Min
<1> QED BY <1>2, <1>3 DEF Current

(* A recalculation derives the completed stages from the gates of the      *)
(* project it was given, and the verdicts from the project it returns.     *)
LEMMA RecalculatedShape ==
    ASSUME NEW p \in Project
    PROVE  /\ Staged(p) \in Project
           /\ Recalculated(p) \in Project
           /\ SameWork(Staged(p), p) /\ SameWork(Recalculated(p), p)
           /\ Recalculated(p).complete = Finished(p)
           /\ Recalculated(p).stage = Staged(p).stage
           /\ \A q \in Propositions : Recalculated(p).verdict[q] = Verdict(Staged(p), q)
<1> DEFINE verdicts == [q \in Propositions |-> Verdict(Staged(p), q)]
<1>1. Recalculated(p) = [Staged(p) EXCEPT !.verdict = verdicts]
  BY Zenon DEF Recalculated, Staged, Current, Finished
<1>2. Finished(p) \in SUBSET Stages /\ Current(p) \in Stages
  BY CurrentIsStage DEF Finished
<1>3. Staged(p) \in Project /\ SameWork(Staged(p), p) /\ Staged(p).complete = Finished(p)
  BY <1>2 DEF Staged, Project, SameWork
<1>4. verdicts \in [Propositions -> Verdicts]
  <2>1. IsSuite(Staged(p).suite)
    BY <1>3, SuiteShape DEF Project
  <2> QED BY <2>1, VerdictIsExact
<1> HIDE DEF verdicts
<1>5. /\ Recalculated(p) \in Project /\ SameWork(Recalculated(p), Staged(p))
      /\ Recalculated(p).verdict = verdicts
      /\ Recalculated(p).complete = Staged(p).complete
      /\ Recalculated(p).stage = Staged(p).stage
  BY <1>1, <1>3, <1>4 DEF Project, SameWork
<1>6. \A q \in Propositions : verdicts[q] = Verdict(Staged(p), q)
  BY DEF verdicts
<1> QED BY <1>3, <1>5, <1>6 DEF SameWork

(***************************************************************************)
(* Every state is the recalculation of a project.                          *)
(***************************************************************************)

(* What a command changes before the project is saved.                     *)
LEMMA AcceptedShape ==
    ASSUME NEW p \in Project, NEW s \in Stages
    PROVE  Accepted(p, s) \in Project
<1>1. /\ {t \in p.done : t < s} \cup {s} \in SUBSET Stages
      /\ {e \in p.evidence : e.stage <= s} \in SUBSET EvidenceRecords
      /\ (IF s < NativeStage THEN {} ELSE p.ran) \in SUBSET Tests
  BY DEF Project
<1> QED BY <1>1 DEF Accepted, Project

(* A save is a recalculation of a project.                                 *)
LEMMA SavedIsRecalculated ==
    ASSUME NEW p \in Project, project' = Saved(p)
    PROVE  IInv'
<1>1. Recalculated(p) \in Project
  BY RecalculatedShape
<1> QED BY <1>1 DEF Saved, IInv

(* The project without a suite.                                            *)
LEMMA InitiallyRecalculated == Init => IInv
<1> DEFINE p == [suite |-> EmptySuite, version |-> 0, reviews |-> {}, evidence |-> {}, ran |-> {},
                 done |-> {}, complete |-> {}, stage |-> AuthorStage,
                 verdict |-> [q \in Propositions |-> [truth |-> "UNKNOWN", status |-> "UNDETERMINED"]]]
<1>1. [q \in Propositions |-> [truth |-> "UNKNOWN", status |-> "UNDETERMINED"]] \in [Propositions -> Verdicts]
  BY DEF Verdicts
<1>2. 0 \in 0 .. MaxVersion /\ AuthorStage \in Stages
  BY StagesAreModelled
<1>3. p \in Project
  BY <1>1, <1>2 DEF Project
<1> HIDE DEF p
<1>4. Init => project = Recalculated(p)
  BY Zenon DEF Init, p
<1> QED BY <1>3, <1>4 DEF IInv

(* Each command saves a project.                                           *)
LEMMA StepRecalculates == IInv /\ [Next]_project => IInv'
<1> SUFFICES ASSUME IInv, [Next]_project PROVE IInv'
  OBVIOUS
<1>1. PICK base \in Project : project = Recalculated(base)
  BY DEF IInv
<1>2. project \in Project
  BY <1>1, RecalculatedShape
<1>3. /\ project.suite \in Suites \cup {EmptySuite} /\ project.version \in 0 .. MaxVersion
      /\ project.reviews \in SUBSET ReviewRecords /\ project.evidence \in SUBSET EvidenceRecords
      /\ project.ran \in SUBSET Tests
  BY <1>2 DEF Project
<1>4. AuthorStage \in Stages /\ NativeStage \in EvidenceStages \cup {NativeStage} /\ MaxVersion \in Nat
  BY StagesAreModelled
<1>5. CASE UNCHANGED project
  BY <1>1, <1>5 DEF IInv
<1>6. ASSUME NEW suite \in Suites, NEW reconciles \in BOOLEAN, Author(suite, reconciles) PROVE IInv'
  <2> DEFINE reviews == IF reconciles THEN {} ELSE project.reviews
             p == [Accepted(project, AuthorStage) EXCEPT !.suite = suite, !.version = project.version + 1,
                                                         !.reviews = reviews]
  <2>1. Accepted(project, AuthorStage) \in Project
    BY <1>2, <1>4, AcceptedShape
  <2>2. /\ Accepted(project, AuthorStage).version = project.version
        /\ Accepted(project, AuthorStage).reviews = project.reviews
    BY <1>2 DEF Accepted, Project
  <2>3. project' = Saved(p)
    BY <1>6, <2>2 DEF Author
  <2>4. project.version + 1 \in 0 .. MaxVersion /\ reviews \in SUBSET ReviewRecords
    BY <1>3, <1>4, <1>6 DEF Author
  <2> HIDE DEF reviews
  <2>5. p \in Project
    BY <2>1, <2>4 DEF Project
  <2> QED BY <2>3, <2>5, SavedIsRecalculated
<1>7. ASSUME NEW result \in {"ACCEPTED", "DISAGREED"}, Review(result) PROVE IInv'
  <2> DEFINE reviews == project.reviews \cup {[version |-> project.version, result |-> result]}
             p == [Accepted(project, AuthorStage) EXCEPT !.reviews = reviews]
  <2>1. Accepted(project, AuthorStage) \in Project
    BY <1>2, <1>4, AcceptedShape
  <2>2. Accepted(project, AuthorStage).reviews = project.reviews
    BY <1>2 DEF Accepted, Project
  <2>3. project' = Saved(p)
    BY <1>7, <2>2 DEF Review
  <2>4. reviews \in SUBSET ReviewRecords
    <3>1. project.version \in 1 .. MaxVersion
      BY <1>3, <1>4, <1>7 DEF Review
    <3> QED BY <1>3, <3>1 DEF ReviewRecords
  <2> HIDE DEF reviews
  <2>5. p \in Project
    BY <2>1, <2>4 DEF Project
  <2> QED BY <2>3, <2>5, SavedIsRecalculated
<1>8. ASSUME NEW s \in Stages \ {AuthorStage}, NEW found \in {{}} \cup {{e} : e \in Findings(s)},
             Work(s, found)
      PROVE  IInv'
  <2> DEFINE evidence == Accepted(project, s).evidence \cup found
             p == [Accepted(project, s) EXCEPT !.evidence = evidence]
  <2>1. Accepted(project, s) \in Project
    BY <1>2, AcceptedShape
  <2>2. project' = Saved(p)
    BY <1>8 DEF Work
  <2>3. evidence \in SUBSET EvidenceRecords
    <3>1. Findings(s) \subseteq EvidenceRecords
      BY DEF Findings, EvidenceRecords
    <3>2. Accepted(project, s).evidence \in SUBSET EvidenceRecords
      BY <2>1 DEF Project
    <3> QED BY <3>1, <3>2
  <2> HIDE DEF evidence
  <2>4. p \in Project
    BY <2>1, <2>3 DEF Project
  <2> QED BY <2>2, <2>4, SavedIsRecalculated
<1>9. ASSUME NEW t \in Tests, NEW relation \in {"ESTABLISHES", "REFUTES"}, RunNativeTest(t, relation)
      PROVE  IInv'
  <2> DEFINE found == {[proposition |-> q, test |-> t, relation |-> relation, stage |-> NativeStage] :
                         q \in {r \in project.suite.tests[t].targets : project.suite.root[r] # 0}}
             evidence == IF Reviewed(project) THEN project.evidence \cup found ELSE project.evidence
             p == [project EXCEPT !.ran = project.ran \cup {t}, !.evidence = evidence]
  <2>1. project' = Saved(p)
    BY <1>9 DEF RunNativeTest
  <2>2. found \in SUBSET EvidenceRecords
    <3>1. project.suite.tests[t].targets \subseteq Propositions
      BY <1>3, SuiteShape DEF IsSuite
    <3> QED BY <1>4, <3>1 DEF EvidenceRecords
  <2> HIDE DEF found
  <2>3. evidence \in SUBSET EvidenceRecords /\ project.ran \cup {t} \in SUBSET Tests
    BY <1>3, <2>2
  <2> HIDE DEF evidence
  <2>4. p \in Project
    BY <1>2, <2>3 DEF Project
  <2> QED BY <2>1, <2>4, SavedIsRecalculated
<1> QED BY <1>5, <1>6, <1>7, <1>8, <1>9 DEF Next

(* Every reachable project was recalculated: by the command and again by   *)
(* the save of its result, or when it was created.                         *)
THEOREM Invariance == Spec => []IInv
BY InitiallyRecalculated, StepRecalculates, PTL DEF Spec

(***************************************************************************)
(* The properties.                                                         *)
(***************************************************************************)

(* Every project keeps its shape, and a stage is complete only with        *)
(* accepted work of its own.                                               *)
THEOREM TypeCorrect == Spec => []TypeOK
<1>1. IInv => TypeOK
  <2> SUFFICES ASSUME NEW base \in Project, project = Recalculated(base) PROVE TypeOK
    BY DEF IInv
  <2>1. project \in Project /\ SameWork(project, base) /\ project.complete = Finished(base)
    BY RecalculatedShape
  <2>2. project.complete \subseteq project.done
    <3> SUFFICES ASSUME NEW s \in Finished(base) PROVE s \in base.done
      BY <2>1 DEF SameWork
    <3> QED BY FinishedPassed DEF Gate
  <2>3. \A q \in Propositions : project.verdict[q] \in Verdicts
    BY <2>1 DEF Project
  <2> QED BY <2>1, <2>2, <2>3 DEF TypeOK, Project, Verdicts, ReviewRecords, EvidenceRecords
<1> QED BY <1>1, Invariance, PTL

(* Whatever evidence comes and goes, and whatever suites are returned,     *)
(* disputed and replaced, the verdict that is shown is exactly what the    *)
(* evidence of the moment decides (pstate, evaluateCurrentProof).          *)
THEOREM VerdictsExact == Spec => []VerdictsAreExact
<1>1. IInv => VerdictsAreExact
  <2> SUFFICES ASSUME NEW base \in Project, project = Recalculated(base), NEW q \in Propositions
               PROVE  /\ project.verdict[q].truth = "TRUE" <=>
                            /\ ObservedTruth(project, q) \notin {"FALSE", "CONTRADICTED"}
                            /\ Scheduled(project, q)
                            /\ Proves(project.suite, q, ProvenNow(project, q))
                      /\ project.verdict[q].truth = "FALSE" <=>
                            \/ ObservedTruth(project, q) = "FALSE"
                            \/ /\ ObservedTruth(project, q) # "CONTRADICTED"
                               /\ Scheduled(project, q)
                               /\ ~Proves(project.suite, q, OpenNow(project, q))
    BY DEF IInv, VerdictsAreExact, ProvenNow, OpenNow
  <2> DEFINE next == Staged(base)
  <2>1. /\ next \in Project /\ project.verdict[q] = Verdict(next, q)
        /\ project.stage = next.stage /\ SameWork(next, project)
    BY RecalculatedShape DEF SameWork
  <2> HIDE DEF next
  <2>2. project.suite = next.suite /\ IsSuite(next.suite)
    BY <2>1, SuiteShape DEF SameWork, Project
  <2>3. /\ ObservedTruth(project, q) = ObservedTruth(next, q)
        /\ Scheduled(project, q) <=> Scheduled(next, q)
        /\ ProvenNow(project, q) = ProvenNow(next, q)
        /\ OpenNow(project, q) = OpenNow(next, q)
    BY <2>1, <2>2, SameProofs DEF ProvenNow, OpenNow
  <2> QED BY <2>1, <2>2, <2>3, VerdictIsExact
<1> QED BY <1>1, Invariance, PTL

(* No stage passes over a proof as deferred while a leaf that is due is    *)
(* missing in it, nor asks for one that may wait (stageProofTruth).        *)
THEOREM DeferralsHonest == Spec => []DeferralsAreHonest
<1>1. IInv => DeferralsAreHonest
  <2> SUFFICES ASSUME IInv, NEW q \in Propositions, NEW s \in Stages, Scheduled(project, q)
               PROVE  StageProofTruth(project, q, s) = "DEFERRED" <=>
                         /\ ~Proves(project.suite, q, Established(project, q, s))
                         /\ Proves(project.suite, q, Established(project, q, s) \cup LeavesAhead(project, q, s))
    BY DEF DeferralsAreHonest, Established
  <2>1. IsSuite(project.suite)
    BY RecalculatedShape, SuiteShape DEF IInv, Project
  <2>2. s \in Int
    BY StagesAreModelled
  <2>3. Acyclic(project.suite, q) /\ project.suite.root[q] # 0
    BY DEF Scheduled
  <2>4. project.suite.root[q] \in NodesOf(project.suite, q)
    BY <2>1, <2>3, RootMet
  <2>5. StageProofTruth(project, q, s) = StageValues(project, q, s)[project.suite.root[q]]
    BY DEF StageProofTruth
  <2> DEFINE value == StageValues(project, q, s)[project.suite.root[q]]
  <2>6. /\ value = "TRUE" <=> Proves(project.suite, q, Established(project, q, s))
        /\ value \in {"TRUE", "DEFERRED"} <=>
              Proves(project.suite, q, Established(project, q, s) \cup LeavesAhead(project, q, s))
    BY <2>1, <2>2, <2>3, <2>4, StageIsHonest DEF Proves
  <2> HIDE DEF value
  <2> QED BY <2>5, <2>6 DEF value
<1> QED BY <1>1, Invariance, PTL

(* No stage from 18 on is or stays complete unless every required          *)
(* proposition is proven but for leaves that may wait (gate, recalculate). *)
THEOREM CompletionProven == Spec => []CompletionIsProven
<1>1. IInv => CompletionIsProven
  <2> SUFFICES ASSUME NEW base \in Project, project = Recalculated(base),
                      NEW s \in project.complete, s >= ConvergenceStage, NEW q \in Required(project)
               PROVE  /\ ObservedTruth(project, q) \notin {"FALSE", "CONTRADICTED"}
                      /\ Scheduled(project, q)
                      /\ Proves(project.suite, q,
                                LeavesThat(project, q, "TRUE") \cup LeavesAhead(project, q, s))
    BY DEF IInv, CompletionIsProven
  <2>1. SameWork(base, project) /\ project.complete = Finished(base)
    BY RecalculatedShape DEF SameWork
  <2>2. project.suite = base.suite /\ IsSuite(base.suite)
    BY <2>1, SuiteShape DEF SameWork, Project
  <2>3. s \in Int /\ Gate(base, s)
    BY <2>1, FinishedPassed
  <2>4. /\ Required(base) = Required(project)
        /\ ObservedTruth(project, q) = ObservedTruth(base, q)
        /\ Scheduled(project, q) <=> Scheduled(base, q)
        /\ LeavesThat(project, q, "TRUE") = LeavesThat(base, q, "TRUE")
        /\ LeavesAhead(project, q, s) = LeavesAhead(base, q, s)
    BY <2>1, SameProofs
  <2>5. q \in Propositions
    BY <2>2, <2>4 DEF Required, IsSuite
  <2>6. Scheduled(base, q) /\ Concluded(base, q, s)
    BY <2>3, <2>4 DEF Gate, SuiteAccepted
  <2>7. base.suite.root[q] # 0 /\ Acyclic(base.suite, q)
    BY <2>6 DEF Scheduled
  <2>8. base.suite.root[q] \in NodesOf(base.suite, q)
    BY <2>2, <2>5, <2>7, RootMet
  <2> DEFINE enough == LeavesThat(base, q, "TRUE") \cup LeavesAhead(base, q, s)
  <2>9. ASSUME NEW leaves, leaves \subseteq enough, Proves(base.suite, q, leaves)
        PROVE  Proves(base.suite, q, enough)
    <3> HIDE DEF enough
    <3> QED BY <2>2, <2>5, <2>7, <2>8, <2>9, HeldGrows DEF Proves
  <2>10. /\ ProvenNow(base, q) \subseteq enough
         /\ Established(base, q, s) \cup LeavesAhead(base, q, s) \subseteq enough
    BY DEF ProvenNow, Established
  <2>11. CASE Verdict(base, q).status = "SATISFIED"
    <3>1. Verdict(base, q).truth = "TRUE"
      BY <2>2, <2>5, <2>11, VerdictIsExact
    <3>2. /\ ObservedTruth(base, q) \notin {"FALSE", "CONTRADICTED"}
          /\ Proves(base.suite, q, ProvenNow(base, q))
      BY <2>2, <2>5, <3>1, VerdictIsExact
    <3>3. Proves(base.suite, q, enough)
      BY <2>9, <2>10, <3>2
    <3> QED BY <2>2, <2>4, <2>6, <3>2, <3>3
  <2>12. CASE Verdict(base, q).status = "UNDETERMINED" /\ StageProofTruth(base, q, s) = "DEFERRED"
    <3>1. ObservedTruth(base, q) \notin {"FALSE", "CONTRADICTED"}
      BY <2>2, <2>5, <2>12, VerdictIsExact
    <3>2. StageValues(base, q, s)[base.suite.root[q]] = "DEFERRED"
      BY <2>6, <2>12 DEF StageProofTruth
    <3>3. Proves(base.suite, q, Established(base, q, s) \cup LeavesAhead(base, q, s))
      BY <2>2, <2>3, <2>5, <2>7, <2>8, <3>2, StageIsHonest DEF Proves
    <3>4. Proves(base.suite, q, enough)
      BY <2>9, <2>10, <3>3
    <3> QED BY <2>2, <2>4, <2>6, <3>1, <3>4
  <2> QED BY <2>6, <2>11, <2>12 DEF Concluded
<1> QED BY <1>1, Invariance, PTL
=============================================================================
