------------------------ MODULE FixedMemoryTreeProofs -------------------------
(***************************************************************************)
(* Proofs about FixedMemoryTree.  A tree is sound for a set L of entries   *)
(* when L has the root and the sub nodes of what it has, and entries of L  *)
(* are well-formed, told apart by name and creation id, and not free.  L   *)
(* is not what can be reached: a node that was cut and not freed may stay  *)
(* in it.  Each operation leaves a tree that is sound for some other set,  *)
(* and bumps whatever it changes a link under (Told).                      *)
(*                                                                         *)
(* Under and Walk are recursive functions: that they are what they say is  *)
(* an induction along their steps (AlongNumbers).                          *)
(*                                                                         *)
(* What is at a path: each operation is then described by what it makes of *)
(* the node at every path p, the one it works at and the others (the       *)
(* operators named ...Leaves).  A node is turned into another one, or a    *)
(* new way is grown; that nodes are filled (FilledInv), that published     *)
(* paths are leaves, that blocks have room and which values are seen each  *)
(* follow from a lemma on Turned and one on Grows.                         *)
(***************************************************************************)
EXTENDS FixedMemoryTree, FiniteSetTheorems, SequenceTheorems, WellFoundedInduction, TLAPS

\* A set of naturals has a least element.
LEMMA LeastExists ==
  ASSUME NEW S \in SUBSET Nat, S # {}
  PROVE  \E k \in S : \A j \in S : k <= j
<1> DEFINE R == {x \in Nat \X Nat : x[1] < x[2]}
<1>1. OpToRel(<, Nat) = R
  BY Zenon DEF OpToRel
<1>2. IsWellFoundedOn(R, Nat)
  BY <1>1, NatLessThanWellFounded, Zenon
<1>3. PICK k \in S : \A j \in S : <<j, k>> \notin R
  <2> HIDE DEF R
  <2> QED
    BY <1>2, WFMin
<1>4. \A j \in S : j \in Nat /\ k \in Nat /\ ~(j < k)
  BY <1>3
<1> QED
  BY <1>4

\* A set of numbers up to n that has 0 and with each the next has n: the least
\* that is missing would have one before it.
LEMMA AlongNumbers ==
  ASSUME NEW n \in Nat, NEW G, 0 \in G, \A i \in 1 .. n : i - 1 \in G => i \in G
  PROVE  \A i \in 0 .. n : i \in G
<1> DEFINE S == {i \in 0 .. n : i \notin G}
<1> SUFFICES ASSUME S # {} PROVE FALSE
  OBVIOUS
<1>1. PICK m \in S : \A j \in S : m <= j
  <2>1. S \in SUBSET Nat
    OBVIOUS
  <2> HIDE DEF S
  <2> QED
    BY <2>1, LeastExists
<1>2. m \in 1 .. n /\ m - 1 \in 0 .. n
  OBVIOUS
<1>3. m - 1 \notin S
  <2> HIDE DEF S
  <2> QED
    BY <1>1, <1>2
<1> QED
  BY <1>2, <1>3

\* f starts with b and goes on as F says.
Follows(f, n, b, F) == f = [i \in 0 .. n |-> IF i = 0 THEN b ELSE F[<<f[i - 1], i>>]]

\* There is such a function.
LEMMA StepByStep ==
  ASSUME NEW X, NEW n \in Nat, NEW b \in X, NEW F \in [X \X (1 .. n) -> X]
  PROVE  \E f \in [0 .. n -> X] : Follows(f, n, b, F)
<1> DEFINE h(f, i) == IF i = 0 THEN b ELSE F[<<f[i - 1], i>>]
           Is(f, m) == f \in [0 .. m -> X] /\ f = [i \in 0 .. m |-> h(f, i)]
           G == {m \in 0 .. n : \E f : Is(f, m)}
<1>1. 0 \in G
  <2> DEFINE f == [i \in 0 .. 0 |-> b]
  <2>1. Is(f, 0)
    OBVIOUS
  <2>2. 0 \in 0 .. n
    OBVIOUS
  <2> HIDE DEF f, Is
  <2> QED
    BY <2>1, <2>2
<1>2. ASSUME NEW m \in 1 .. n, m - 1 \in G  PROVE m \in G
  <2>1. PICK g : Is(g, m - 1)
    BY <1>2
  <2> DEFINE f == [i \in 0 .. m |-> h(g, i)]
  <2>2. ASSUME NEW i \in 0 .. m  PROVE h(g, i) \in X
    <3>1. CASE i # 0
      <4>1. i - 1 \in 0 .. m - 1 /\ i \in 1 .. n
        BY <3>1
      <4>2. g[i - 1] \in X
        BY <2>1, <4>1
      <4> QED
        BY <3>1, <4>1, <4>2
    <3> QED
      BY <3>1
  <2>3. \A i \in 0 .. m - 1 : f[i] = g[i]
    <3> HIDE DEF h
    <3>1. \A i \in 0 .. m - 1 : i \in 0 .. m
      OBVIOUS
    <3> QED
      BY <2>1, <3>1
  <2>4. ASSUME NEW i \in 0 .. m  PROVE h(g, i) = h(f, i)
    <3>1. CASE i # 0
      <4>1. i - 1 \in 0 .. m - 1
        BY <3>1
      <4>2. f[i - 1] = g[i - 1]
        BY <2>3, <4>1
      <4> HIDE DEF f
      <4> QED
        BY <3>1, <4>2
    <3> HIDE DEF f
    <3> QED
      BY <3>1
  <2>5. f \in [0 .. m -> X]
    <3> HIDE DEF h
    <3> QED
      BY <2>2
  <2>6. f = [i \in 0 .. m |-> h(f, i)]
    <3>1. [i \in 0 .. m |-> h(g, i)] = [i \in 0 .. m |-> h(f, i)]
      <4> HIDE DEF h, f
      <4> QED
        BY <2>4
    <3> QED
      BY <3>1
  <2> HIDE DEF f, h
  <2> QED
    BY <2>5, <2>6
<1>3. n \in G
  <2> HIDE DEF G
  <2>1. \A m \in 0 .. n : m \in G
    BY <1>1, <1>2, AlongNumbers
  <2> QED
    BY <2>1
<1>4. PICK f : Is(f, n)
  BY <1>3
<1> QED
  BY <1>4 DEF Follows

-----------------------------------------------------------------------------
(* The invariant.                                                          *)

IsNode(n) ==
  n = [name |-> n.name, parent |-> n.parent, creationId |-> n.creationId, sub |-> n.sub,
       watches |-> n.watches, data |-> n.data, room |-> n.room]

IsTree(t) ==
  /\ t = [node |-> t.node, version |-> t.version, free |-> t.free,
          nextCreationId |-> t.nextCreationId]
  /\ t.node = [e \in Entries |-> t.node[e]]
  /\ t.version \in [Entries -> Nat] /\ t.free \in Seq(Entries \ {Root})
  /\ t.nextCreationId \in Nat

\* L holds the root and with each entry its sub nodes, which name it.
Linked(t, L) ==
  /\ L \subseteq Entries /\ Root \in L
  /\ \A e \in L : IsNode(t.node[e]) /\ t.node[e].sub \subseteq L
  /\ \A e \in L : \A c \in t.node[e].sub : t.node[c].parent = e
  /\ t.node[Root].parent = Invalid

\* Nodes are told apart by name and creation id.
ToldApart(t, L) ==
  /\ \A e \in L : \A c, d \in t.node[e].sub : t.node[c].name = t.node[d].name => c = d
  /\ \A d, e \in L : t.node[d].creationId = t.node[e].creationId => d = e
  /\ \A e \in L : t.node[e].creationId \in Nat /\ t.node[e].creationId < t.nextCreationId

\* The free list has each of its entries once, and none of L.
FreeApart(t, L) == IsInjective(t.free) /\ ToSet(t.free) \cap L = {}

Sound(t, L) == IsTree(t) /\ Linked(t, L) /\ ToldApart(t, L) /\ FreeApart(t, L)

-----------------------------------------------------------------------------
(* What is under a node.                                                   *)

Below(t, S) == UNION {t.node[x].sub : x \in S}

\* r collects what is under e, one level after the other.
Levels(t, e, r) ==
  /\ r[0] = {e}
  /\ \A i \in 1 .. TableSize : r[i] = r[i - 1] \cup Below(t, r[i - 1])

\* Under is the last of such levels.
LEMMA UnderSteps ==
  ASSUME NEW t, NEW L, Linked(t, L), NEW e \in L
  PROVE  \E r \in [0 .. TableSize -> SUBSET L] :
           Under(t, e) = r[TableSize] /\ Levels(t, e, r)
<1> DEFINE n == TableSize
           F == [q \in (SUBSET L) \X (1 .. n) |-> q[1] \cup Below(t, q[1])]
           h(f, i) == IF i = 0 THEN {e}
                      ELSE f[i - 1] \cup Below(t, f[i - 1])
           k(f, i) == IF i = 0 THEN {e} ELSE F[<<f[i - 1], i>>]
           r == CHOOSE f : f = [i \in 0 .. n |-> h(f, i)]
<1>1. n \in Nat
  BY TableAssumption
<1>2. F \in [(SUBSET L) \X (1 .. n) -> SUBSET L]
  <2>1. \A q \in (SUBSET L) \X (1 .. n) : \A x \in q[1] : t.node[x].sub \subseteq L
    BY DEF Linked
  <2> QED
    BY <2>1 DEF Below
<1>3. PICK f \in [0 .. n -> SUBSET L] : f = [i \in 0 .. n |-> k(f, i)]
  <2>1. {e} \in SUBSET L
    OBVIOUS
  <2> HIDE DEF F, n
  <2>2. PICK f \in [0 .. n -> SUBSET L] : Follows(f, n, {e}, F)
    BY <1>1, <1>2, <2>1, StepByStep
  <2> QED
    BY <2>2 DEF Follows
<1>4. ASSUME NEW g \in [0 .. n -> SUBSET L], NEW i \in 0 .. n  PROVE k(g, i) = h(g, i)
  <2>1. CASE i # 0
    <3>1. i - 1 \in 0 .. n /\ i \in 1 .. n
      BY <1>1, <2>1
    <3>2. <<g[i - 1], i>> \in (SUBSET L) \X (1 .. n)
      BY <3>1
    <3> QED
      BY <2>1, <3>2
  <2> QED
    BY <2>1
<1>5. f = [i \in 0 .. n |-> h(f, i)]
  <2>1. [i \in 0 .. n |-> k(f, i)] = [i \in 0 .. n |-> h(f, i)]
    <3> HIDE DEF k, h, n
    <3> QED
      BY <1>4
  <2> HIDE DEF k, h, n
  <2> QED
    BY <1>3, <2>1
<1>6. r = [i \in 0 .. n |-> h(r, i)]
  <2> HIDE DEF h, n
  <2> QED
    BY <1>5
<1>7. Under(t, e) = r[n]
  BY DEF Under, Below
<1> HIDE DEF r, h, n
<1>8. r[0] = {e} /\ \A i \in 1 .. n : r[i] = r[i - 1] \cup Below(t, r[i - 1])
  <2>1. \A i \in 0 .. n : r[i] = h(r, i)
    BY <1>6
  <2>2. 0 \in 0 .. n /\ \A i \in 1 .. n : i \in 0 .. n /\ i # 0
    BY <1>1
  <2> QED
    BY <2>1, <2>2 DEF h
<1>9. \A i \in 0 .. n : i \in {j \in 0 .. n : r[j] \in SUBSET L}
  <2> DEFINE G == {j \in 0 .. n : r[j] \in SUBSET L}
  <2>1. 0 \in G
    BY <1>1, <1>8
  <2>2. ASSUME NEW i \in 1 .. n, i - 1 \in G  PROVE i \in G
    <3>1. \A x \in r[i - 1] : t.node[x].sub \subseteq L
      BY <2>2 DEF Linked
    <3> QED
      BY <1>1, <1>8, <2>2, <3>1 DEF Below
  <2> HIDE DEF G
  <2>3. \A i \in 0 .. n : i \in G
    BY <1>1, <2>1, <2>2, AlongNumbers
  <2> QED
    BY <2>3 DEF G
<1>10. r \in [0 .. n -> SUBSET L]
  <2>1. r = [i \in 0 .. n |-> r[i]]
    BY <1>6
  <2> QED
    BY <1>9, <2>1
<1> QED
  BY <1>7, <1>8, <1>10 DEF n, Levels

\* The least set with e and with each node its sub nodes: after as many steps as there
\* are entries there are no more to come.
LEMMA UnderIs ==
  ASSUME NEW t, NEW L, Linked(t, L), NEW e \in L
  PROVE  LET U == Under(t, e)
         IN  /\ U \subseteq L /\ e \in U
             /\ \A x \in U : t.node[x].sub \subseteq U
             /\ \A x \in U \ {e} : \E p \in U : x \in t.node[p].sub
             /\ \A C : e \in C /\ (\A x \in C \cap L : t.node[x].sub \subseteq C) => U \subseteq C
<1> DEFINE n == TableSize
<1>1. PICK r \in [0 .. n -> SUBSET L] :
        /\ Under(t, e) = r[n]
        /\ r[0] = {e}
        /\ \A i \in 1 .. n : r[i] = r[i - 1] \cup Below(t, r[i - 1])
  <2>1. PICK r \in [0 .. TableSize -> SUBSET L] :
          Under(t, e) = r[TableSize] /\ Levels(t, e, r)
    BY UnderSteps
  <2> QED
    BY <2>1 DEF Levels
<1>2. n \in Nat /\ n # 0 /\ Entries = 0 .. n - 1
  BY TableAssumption DEF Entries
<1> HIDE DEF n
<1>3. \A i \in 0 .. n : r[i] \subseteq L /\ IsFiniteSet(r[i]) /\ Cardinality(r[i]) <= n
  <2>1. IsFiniteSet(Entries) /\ Cardinality(Entries) = n
    <3>1. n - 1 \in Int /\ 0 <= n - 1 /\ n - 1 - 0 + 1 = n
      BY <1>2
    <3> QED
      BY <1>2, <3>1, FS_Interval
  <2>2. \A i \in 0 .. n : r[i] \subseteq Entries
    BY DEF Linked
  <2> QED
    BY <2>1, <2>2, FS_Subset
<1>4. \A i \in 0 .. n : e \in r[i] /\ \A x \in r[i] \ {e} : \E p \in r[i] : x \in t.node[p].sub
  <2> DEFINE P(i) == e \in r[i] /\ \A x \in r[i] \ {e} : \E p \in r[i] : x \in t.node[p].sub
             G == {i \in 0 .. n : P(i)}
  <2>1. 0 \in G
    BY <1>1, <1>2
  <2>2. ASSUME NEW i \in 1 .. n, i - 1 \in G  PROVE i \in G
    <3>1. P(i - 1) /\ r[i] = r[i - 1] \cup Below(t, r[i - 1])
      BY <1>1, <2>2
    <3> HIDE DEF P
    <3>2. ASSUME P(i - 1), r[i] = r[i - 1] \cup Below(t, r[i - 1])  PROVE P(i)
      BY <3>2 DEF P, Below
    <3> QED
      BY <3>1, <3>2
  <2> HIDE DEF G
  <2>3. \A i \in 0 .. n : i \in G
    BY <1>2, <2>1, <2>2, AlongNumbers
  <2> QED
    BY <2>3 DEF G
<1>5. Below(t, r[n]) \subseteq r[n]
  <2> DEFINE P(i) == Below(t, r[i]) \subseteq r[i] \/ Cardinality(r[i]) >= i + 1
             G == {i \in 0 .. n : P(i)}
  <2>1. 0 \in G
    <3>1. Cardinality(r[0]) = 1
      BY <1>1, FS_Singleton
    <3> QED
      BY <1>2, <3>1
  <2>2. ASSUME NEW i \in 1 .. n, i - 1 \in G  PROVE i \in G
    <3>0. i - 1 \in 0 .. n /\ i \in 0 .. n /\ i - 1 + 1 = i /\ i \in Nat
      BY <1>2
    <3>1. P(i - 1) /\ r[i] = r[i - 1] \cup Below(t, r[i - 1])
      BY <1>1, <2>2
    <3>2. CASE Below(t, r[i - 1]) \subseteq r[i - 1]
      <4>1. r[i] = r[i - 1]
        BY <3>1, <3>2
      <4> QED
        BY <3>0, <3>2, <4>1
    <3>3. CASE ~(Below(t, r[i - 1]) \subseteq r[i - 1])
      <4>1. Cardinality(r[i - 1]) >= i
        BY <3>0, <3>1, <3>3
      <4>2. r[i - 1] \subseteq r[i] /\ r[i - 1] # r[i]
        BY <3>1, <3>3
      <4>3. Cardinality(r[i - 1]) < Cardinality(r[i])
        <5>1. r[i - 1] \in SUBSET r[i] /\ IsFiniteSet(r[i])
          BY <1>3, <3>0, <4>2
        <5>2. /\ Cardinality(r[i - 1]) <= Cardinality(r[i])
              /\ Cardinality(r[i]) = Cardinality(r[i - 1]) => r[i] = r[i - 1]
          BY <5>1, FS_Subset
        <5>3. Cardinality(r[i]) \in Nat /\ Cardinality(r[i - 1]) \in Nat
          BY <1>3, <3>0, FS_CardinalityType
        <5> QED
          BY <4>2, <5>2, <5>3
      <4>4. Cardinality(r[i]) \in Nat /\ Cardinality(r[i - 1]) \in Nat
        BY <1>3, <3>0, FS_CardinalityType
      <4> QED
        BY <3>0, <4>1, <4>3, <4>4
    <3> QED
      BY <3>2, <3>3
  <2> HIDE DEF G
  <2>3. \A i \in 0 .. n : i \in G
    BY <1>2, <2>1, <2>2, AlongNumbers
  <2>4. n \in 0 .. n /\ n \in G
    BY <1>2, <2>3
  <2>5. P(n) /\ Cardinality(r[n]) <= n /\ Cardinality(r[n]) \in Nat
    BY <1>3, <2>4, FS_CardinalityType DEF G
  <2> QED
    BY <1>2, <2>5
<1>6. ASSUME NEW C, e \in C, \A x \in C \cap L : t.node[x].sub \subseteq C
      PROVE  r[n] \subseteq C
  <2> DEFINE G == {i \in 0 .. n : r[i] \subseteq C}
  <2>1. 0 \in G
    BY <1>1, <1>2, <1>6
  <2>2. ASSUME NEW i \in 1 .. n, i - 1 \in G  PROVE i \in G
    <3>1. r[i - 1] \subseteq C \cap L
      BY <2>2
    <3>2. Below(t, r[i - 1]) \subseteq C
      BY <1>6, <3>1 DEF Below
    <3> QED
      BY <1>1, <3>1, <3>2
  <2> HIDE DEF G
  <2>3. \A i \in 0 .. n : i \in G
    BY <1>2, <2>1, <2>2, AlongNumbers
  <2>4. n \in G
    BY <1>2, <2>3
  <2> QED
    BY <2>4 DEF G
<1>7. n \in 0 .. n
  BY <1>2
<1>8. \A x \in r[n] : t.node[x].sub \subseteq r[n]
  BY <1>5 DEF Below
<1>9. r[n] \subseteq L /\ e \in r[n] /\ \A x \in r[n] \ {e} : \E p \in r[n] : x \in t.node[p].sub
  BY <1>3, <1>4, <1>7
<1> QED
  BY <1>1, <1>6, <1>8, <1>9

-----------------------------------------------------------------------------
(* The way along a path.                                                   *)

\* A child of a name is a sub node of that name, or there is none.
LEMMA ChildIs ==
  ASSUME NEW t, NEW L, Linked(t, L), NEW e \in L, NEW name
  PROVE  LET x == Child(t, e, name)
         IN  \/ x = Invalid /\ \A c \in t.node[e].sub : t.node[c].name # name
             \/ /\ x # Invalid /\ x \in t.node[e].sub /\ x \in L \ {Root}
                /\ t.node[x].name = name /\ t.node[x].parent = e
<1> DEFINE C == {c \in t.node[e].sub : t.node[c].name = name}
<1>1. CASE C = {}
  BY <1>1 DEF Child
<1>2. CASE C # {}
  <2>1. Child(t, e, name) \in C
    BY <1>2 DEF Child
  <2>2. \A c \in t.node[e].sub : c \in L /\ t.node[c].parent = e
    BY DEF Linked
  <2>3. L \subseteq 0 .. TableSize - 1 /\ t.node[Root].parent = -1
    BY DEF Linked, Entries, Invalid
  <2>4. \A c \in L : c # -1
    BY <2>3, TableAssumption
  <2>5. e # -1
    BY <2>4
  <2>6. Root \notin t.node[e].sub
    BY <2>2, <2>3, <2>5
  <2> QED
    BY <2>1, <2>2, <2>4, <2>6 DEF Invalid
<1> QED
  BY <1>1, <1>2

\* Where a path has led to after each name.
Way(t, path, w) ==
  /\ w[0] = Root
  /\ \A i \in 1 .. Len(path) :
       w[i] = IF w[i - 1] = Invalid THEN Invalid ELSE Child(t, w[i - 1], path[i])

\* Walk is such a way.
LEMMA WalkSteps ==
  ASSUME NEW t, NEW L, Linked(t, L), NEW path \in Seq(STRING)
  PROVE  /\ Walk(t, path) \in [0 .. Len(path) -> L \cup {Invalid}]
         /\ Way(t, path, Walk(t, path))
<1> DEFINE n == Len(path)
           X == L \cup {Invalid}
           F == [q \in X \X (1 .. n) |->
                   IF q[1] = Invalid THEN Invalid ELSE Child(t, q[1], path[q[2]])]
           h(f, i) == IF i = 0 THEN Root
                      ELSE IF f[i - 1] = Invalid THEN Invalid ELSE Child(t, f[i - 1], path[i])
           k(f, i) == IF i = 0 THEN Root ELSE F[<<f[i - 1], i>>]
           r == CHOOSE f : f = [i \in 0 .. n |-> h(f, i)]
<1>1. n \in Nat /\ Root \in X
  BY LenProperties DEF Linked
<1>2. \A x \in L, i \in 1 .. n : Child(t, x, path[i]) \in X
  BY ChildIs
<1>3. F \in [X \X (1 .. n) -> X]
  BY <1>2
<1>4. PICK f \in [0 .. n -> X] : f = [i \in 0 .. n |-> k(f, i)]
  <2> HIDE DEF F, n, X
  <2>1. PICK f \in [0 .. n -> X] : Follows(f, n, Root, F)
    BY <1>1, <1>3, StepByStep
  <2> QED
    BY <2>1 DEF Follows
<1>5. ASSUME NEW g \in [0 .. n -> X], NEW i \in 0 .. n  PROVE k(g, i) = h(g, i)
  <2>1. CASE i # 0
    <3>1. i - 1 \in 0 .. n /\ i \in 1 .. n
      BY <1>1, <2>1
    <3>2. <<g[i - 1], i>> \in X \X (1 .. n)
      BY <3>1
    <3> HIDE DEF X, n
    <3> QED
      BY <2>1, <3>2
  <2> QED
    BY <2>1
<1>6. f = [i \in 0 .. n |-> h(f, i)]
  <2>1. [i \in 0 .. n |-> k(f, i)] = [i \in 0 .. n |-> h(f, i)]
    <3> HIDE DEF k, h, n, X
    <3> QED
      BY <1>5
  <2> HIDE DEF k, h, n, X
  <2> QED
    BY <1>4, <2>1
<1>7. r = [i \in 0 .. n |-> h(r, i)]
  <2> HIDE DEF h, n, X
  <2> QED
    BY <1>6
<1>8. Walk(t, path) = r
  BY DEF Walk
<1> HIDE DEF r, h, n, X
<1>9. r[0] = Root
      /\ \A i \in 1 .. n :
           r[i] = IF r[i - 1] = Invalid THEN Invalid ELSE Child(t, r[i - 1], path[i])
  <2>1. \A i \in 0 .. n : r[i] = h(r, i)
    BY <1>7
  <2>2. 0 \in 0 .. n /\ \A i \in 1 .. n : i \in 0 .. n /\ i # 0
    BY <1>1
  <2> QED
    BY <2>1, <2>2 DEF h
<1>10. \A i \in 0 .. n : i \in {j \in 0 .. n : r[j] \in X}
  <2> DEFINE G == {j \in 0 .. n : r[j] \in X}
  <2>1. 0 \in G
    BY <1>1, <1>9
  <2>2. ASSUME NEW i \in 1 .. n, i - 1 \in G  PROVE i \in G
    <3>1. Invalid \in X /\ r[i - 1] \in X /\ i \in 0 .. n
      BY <1>1, <2>2 DEF X
    <3>2. r[i - 1] # Invalid => Child(t, r[i - 1], path[i]) \in X
      BY <1>2, <3>1 DEF X
    <3> QED
      BY <1>9, <3>1, <3>2
  <2> HIDE DEF G
  <2>3. \A i \in 0 .. n : i \in G
    BY <1>1, <2>1, <2>2, AlongNumbers
  <2> QED
    BY <2>3 DEF G
<1>11. r \in [0 .. n -> X]
  <2>1. r = [i \in 0 .. n |-> r[i]]
    BY <1>7
  <2> QED
    BY <1>10, <2>1
<1> QED
  BY <1>8, <1>9, <1>11 DEF Way, n, X

\* A way goes from nodes to their sub nodes until it ends.
LEMMA WayIs ==
  ASSUME NEW t, NEW L, Linked(t, L), NEW path \in Seq(STRING)
  PROVE  LET w == Walk(t, path)
             m == Matched(t, path)
         IN  /\ Len(path) \in Nat
             /\ w \in [0 .. Len(path) -> L \cup {Invalid}] /\ w[0] = Root
             /\ \A i \in 1 .. Len(path) : w[i] # Invalid =>
                  /\ w[i - 1] \in L /\ w[i] \in L /\ w[i] # Root
                  /\ w[i] \in t.node[w[i - 1]].sub /\ t.node[w[i]].name = path[i]
             /\ m \in 0 .. Len(path) /\ \A i \in 0 .. m : w[i] \in L
             /\ m < Len(path) => \A c \in t.node[w[m]].sub : t.node[c].name # path[m + 1]
             /\ w[Len(path)] = Invalid => m < Len(path)
             /\ w[Len(path)] # Invalid => \A i \in 0 .. Len(path) : w[i] \in L
<1> DEFINE w == Walk(t, path)
           n == Len(path)
           m == Matched(t, path)
           M(i) == w[i] # Invalid /\ (i < n => w[i + 1] = Invalid)
<1>1. n \in Nat
  BY LenProperties
<1>2. w \in [0 .. n -> L \cup {Invalid}] /\ w[0] = Root
      /\ \A i \in 1 .. n :
           w[i] = IF w[i - 1] = Invalid THEN Invalid ELSE Child(t, w[i - 1], path[i])
  BY WalkSteps DEF Way
<1>3. Root \in L /\ Invalid \notin L
  <2>1. L \subseteq 0 .. TableSize - 1 /\ Root \in L
    BY DEF Linked, Entries
  <2> QED
    BY <2>1, TableAssumption DEF Invalid
<1> HIDE DEF w, n
<1>4. ASSUME NEW i \in 1 .. n  PROVE i - 1 \in 0 .. n /\ i \in 0 .. n
  BY <1>1
<1>5. ASSUME NEW i \in 1 .. n, w[i] # Invalid
      PROVE  /\ w[i - 1] \in L /\ w[i] \in L /\ w[i] # Root
             /\ w[i] \in t.node[w[i - 1]].sub /\ t.node[w[i]].name = path[i]
  <2>1. w[i - 1] # Invalid /\ w[i] = Child(t, w[i - 1], path[i])
    BY <1>2, <1>5
  <2>2. w[i - 1] \in L
    BY <1>2, <1>4, <2>1
  <2> QED
    BY <1>5, <2>1, <2>2, ChildIs
<1>6. \E i \in 0 .. n : M(i)
  <2> SUFFICES ASSUME \A i \in 0 .. n : ~M(i) PROVE FALSE
    OBVIOUS
  <2> DEFINE G == {i \in 0 .. n : w[i] # Invalid}
  <2>1. 0 \in G
    BY <1>1, <1>2, <1>3
  <2>2. ASSUME NEW i \in 1 .. n, i - 1 \in G  PROVE i \in G
    <3>1. ~M(i - 1) /\ w[i - 1] # Invalid /\ i - 1 < n /\ i - 1 + 1 = i
      BY <1>1, <1>4, <2>2
    <3> QED
      BY <1>4, <3>1
  <2> HIDE DEF G
  <2>3. \A i \in 0 .. n : i \in G
    BY <1>1, <2>1, <2>2, AlongNumbers
  <2>4. n \in 0 .. n /\ n \in G /\ ~(n < n)
    BY <1>1, <2>3
  <2> QED
    BY <2>4 DEF G
<1>7. m \in 0 .. n /\ M(m)
  <2>1. m = CHOOSE i \in 0 .. n : M(i)
    BY DEF Matched, w, n
  <2> HIDE DEF M, m
  <2> QED
    BY <1>6, <2>1
<1> HIDE DEF m
<1>8. ASSUME NEW j \in 0 .. n, w[j] # Invalid  PROVE \A i \in 0 .. j : w[i] \in L
  <2> DEFINE G == {i \in 0 .. j : w[j - i] # Invalid}
  <2>1. j \in Nat /\ 0 \in G
    BY <1>1, <1>8
  <2>2. ASSUME NEW i \in 1 .. j, i - 1 \in G  PROVE i \in G
    <3>1. w[j - (i - 1)] # Invalid /\ j - (i - 1) \in 1 .. n /\ j - (i - 1) - 1 = j - i
      BY <1>1, <2>2
    <3>2. w[j - i] # Invalid
      BY <1>3, <1>5, <3>1
    <3> QED
      BY <3>2
  <2> HIDE DEF G
  <2>3. \A i \in 0 .. j : i \in G
    BY <2>1, <2>2, AlongNumbers
  <2>4. ASSUME NEW i \in 0 .. j  PROVE w[i] \in L
    <3>1. j - i \in 0 .. j /\ j - (j - i) = i /\ i \in 0 .. n
      BY <1>1
    <3>2. w[i] # Invalid
      BY <2>3, <3>1 DEF G
    <3> QED
      BY <1>2, <3>1, <3>2
  <2> QED
    BY <2>4
<1>9. \A i \in 0 .. m : w[i] \in L
  BY <1>7, <1>8
<1>10. m < n => \A c \in t.node[w[m]].sub : t.node[c].name # path[m + 1]
  <2> SUFFICES ASSUME m < n PROVE \A c \in t.node[w[m]].sub : t.node[c].name # path[m + 1]
    OBVIOUS
  <2>1. m + 1 \in 1 .. n /\ m + 1 - 1 = m /\ w[m + 1] = Invalid
    BY <1>1, <1>7
  <2>2. w[m] \in L /\ Invalid = Child(t, w[m], path[m + 1])
    BY <1>2, <1>7, <1>9, <2>1
  <2> QED
    BY <2>2, ChildIs
<1>11. w[n] = Invalid => m < n
  BY <1>1, <1>7
<1>12. w[n] # Invalid => \A i \in 0 .. n : w[i] \in L
  BY <1>1, <1>8
<1> QED
  BY <1>1, <1>2, <1>5, <1>7, <1>9, <1>10, <1>11, <1>12 DEF w, n, m

-----------------------------------------------------------------------------
(* What the operations do to a node.                                       *)

SameLinks(n, m) ==
  m.name = n.name /\ m.parent = n.parent /\ m.creationId = n.creationId /\ m.sub = n.sub
SameContents(n, m) == m.data = n.data /\ m.watches = n.watches /\ m.room = n.room

\* A record of these fields is a node.
NodeOf(a, b, c, d, x, y, z) ==
  [name |-> a, parent |-> b, creationId |-> c, sub |-> d, watches |-> z, data |-> x, room |-> y]

\* Its fields are what they were made of.
LEMMA NodeOfIs ==
  ASSUME NEW a, NEW b, NEW c, NEW d, NEW x, NEW y, NEW z
  PROVE  LET n == NodeOf(a, b, c, d, x, y, z)
         IN  /\ IsNode(n) /\ n.name = a /\ n.parent = b /\ n.creationId = c /\ n.sub = d
             /\ n.data = x /\ n.room = y /\ n.watches = z
<1> DEFINE n == NodeOf(a, b, c, d, x, y, z)
<1>1. /\ n.name = a /\ n.parent = b /\ n.creationId = c /\ n.sub = d
      /\ n.data = x /\ n.room = y /\ n.watches = z
  BY DEF NodeOf
<1>2. n = [name |-> a, parent |-> b, creationId |-> c, sub |-> d, watches |-> z, data |-> x,
           room |-> y]
  BY DEF NodeOf
<1> HIDE DEF n
<1> QED
  BY <1>1, <1>2 DEF IsNode, n

\* m is n with these contents.
Holds(n, m, x, y, z) ==
  IsNode(m) /\ SameLinks(n, m) /\ m.data = x /\ m.room = y /\ m.watches = z

\* Other contents, the same links.
LEMMA RefilledHolds ==
  ASSUME NEW n, IsNode(n), NEW x, NEW y, NEW z
  PROVE  /\ Holds(n, [n EXCEPT !.data = x, !.room = y, !.watches = z], x, y, z)
         /\ Holds(n, [n EXCEPT !.data = x, !.watches = z], x, n.room, z)
         /\ Holds(n, [n EXCEPT !.watches = z, !.room = y], n.data, y, z)
         /\ Holds(n, [n EXCEPT !.data = x, !.room = y], x, y, n.watches)
         /\ Holds(n, [n EXCEPT !.data = x], x, n.room, n.watches)
         /\ Holds(n, [n EXCEPT !.watches = z], n.data, n.room, z)
<1> DEFINE N(xx, yy, zz) == NodeOf(n.name, n.parent, n.creationId, n.sub, xx, yy, zz)
<1>1. n = N(n.data, n.room, n.watches)
  BY DEF IsNode, NodeOf
<1> DEFINE D(m, v) == [m EXCEPT !.data = v]
           R(m, v) == [m EXCEPT !.room = v]
           W(m, v) == [m EXCEPT !.watches = v]
<1>2. ASSUME NEW p, NEW q, NEW r
      PROVE  /\ D(N(p, q, r), x) = N(x, q, r)
             /\ R(N(p, q, r), y) = N(p, y, r)
             /\ W(N(p, q, r), z) = N(p, q, z)
  <2> DEFINE a == n.name  b == n.parent  c == n.creationId  d == n.sub
  <2> HIDE DEF a, b, c, d
  <2>2. D(NodeOf(a, b, c, d, p, q, r), x) = NodeOf(a, b, c, d, x, q, r)
    BY DEF NodeOf
  <2>3. R(NodeOf(a, b, c, d, p, q, r), y) = NodeOf(a, b, c, d, p, y, r)
    BY DEF NodeOf
  <2>4. W(NodeOf(a, b, c, d, p, q, r), z) = NodeOf(a, b, c, d, p, q, z)
    BY DEF NodeOf
  <2> HIDE DEF D, R, W
  <2> QED
    BY <2>2, <2>3, <2>4 DEF a, b, c, d
<1>3. /\ D(n, x) = N(x, n.room, n.watches)
      /\ W(n, z) = N(n.data, n.room, z)
      /\ R(D(n, x), y) = N(x, y, n.watches)
      /\ W(D(n, x), z) = N(x, n.room, z)
      /\ R(W(n, z), y) = N(n.data, y, z)
      /\ W(R(D(n, x), y), z) = N(x, y, z)
  <2> HIDE DEF N, D, R, W
  <2> QED
    BY <1>1, <1>2
<1>5. [n EXCEPT !.data = x, !.watches = z] = W(D(n, x), z)
  OBVIOUS
<1>9. [n EXCEPT !.data = x, !.room = y] = R(D(n, x), y)
  OBVIOUS
<1>8. [n EXCEPT !.watches = z, !.room = y] = R(W(n, z), y)
  OBVIOUS
<1>6. [n EXCEPT !.data = x, !.room = y, !.watches = z] = W(R(D(n, x), y), z)
  OBVIOUS
<1>4. \A xx, yy, zz : Holds(n, N(xx, yy, zz), xx, yy, zz)
  BY NodeOfIs DEF SameLinks, Holds
<1>7. D(n, x) = [n EXCEPT !.data = x] /\ W(n, z) = [n EXCEPT !.watches = z]
  OBVIOUS
<1> HIDE DEF N, D, R, W
<1>10. /\ Holds(n, D(n, x), x, n.room, n.watches) /\ Holds(n, W(n, z), n.data, n.room, z)
       /\ Holds(n, R(D(n, x), y), x, y, n.watches) /\ Holds(n, W(D(n, x), z), x, n.room, z)
       /\ Holds(n, R(W(n, z), y), n.data, y, z) /\ Holds(n, W(R(D(n, x), y), z), x, y, z)
  BY <1>3, <1>4
<1> QED
  BY ONLY <1>10, <1>5, <1>6, <1>7, <1>8, <1>9, Zenon

\* So it stays a node where it was.
LEMMA Refilled ==
  ASSUME NEW n, IsNode(n), NEW x, NEW y, NEW z
  PROVE  /\ IsNode([n EXCEPT !.data = x, !.room = y, !.watches = z])
         /\ SameLinks(n, [n EXCEPT !.data = x, !.room = y, !.watches = z])
         /\ IsNode([n EXCEPT !.data = x, !.watches = z])
         /\ SameLinks(n, [n EXCEPT !.data = x, !.watches = z])
         /\ IsNode([n EXCEPT !.watches = z, !.room = y])
         /\ SameLinks(n, [n EXCEPT !.watches = z, !.room = y])
         /\ IsNode([n EXCEPT !.data = x, !.room = y])
         /\ SameLinks(n, [n EXCEPT !.data = x, !.room = y])
         /\ IsNode([n EXCEPT !.data = x])
         /\ SameLinks(n, [n EXCEPT !.data = x])
         /\ IsNode([n EXCEPT !.watches = z])
         /\ SameLinks(n, [n EXCEPT !.watches = z])
  BY RefilledHolds DEF Holds

\* A blank node is a node.
LEMMA BlankIs ==
  ASSUME NEW p, NEW i
  PROVE  IsNode(Blank(NoName, p, i))
<1> DEFINE q == NoName
<1> HIDE DEF q
<1>1. IsNode(NodeOf(q, p, i, {}, <<>>, 0, <<>>))
  BY NodeOfIs
<1>2. Blank(q, p, i) = NodeOf(q, p, i, {}, <<>>, 0, <<>>)
  BY DEF Blank, NodeOf
<1> QED
  BY <1>1, <1>2 DEF q

\* setData() leaves the links of the node as they are ...
LEMMA SetDataKeeps ==
  ASSUME NEW n, IsNode(n), NEW owner, NEW v
  PROVE  IsNode(SetData(n, owner, v).node) /\ SameLinks(n, SetData(n, owner, v).node)
<1> DEFINE datum == [owner |-> owner, value |-> v]
           mine == {i \in DOMAIN n.data : n.data[i].owner = owner}
           first == CHOOSE i \in mine : \A j \in mine : i <= j
           n1 == [n EXCEPT !.data = IF v <= n.room \/ @ # <<>> THEN <<datum>> ELSE @,
                           !.room = IF v <= @ THEN @ ELSE v,
                           !.watches = IF mine # {} THEN @ ELSE Overlaid(@, owner)]
           n2 == [n EXCEPT !.data[first] = datum]
           n3 == [n EXCEPT !.data = Append(@, datum)]
<1>1. SetData(n, owner, v).node \in {n1, n2, n3}
  BY DEF SetData
<1>2. IsNode(n1) /\ SameLinks(n, n1)
  BY Refilled
<1>3. IsNode(n2) /\ SameLinks(n, n2)
  BY Refilled
<1>4. IsNode(n3) /\ SameLinks(n, n3)
  BY Refilled
<1> HIDE DEF n1, n2, n3
<1> QED
  BY <1>1, <1>2, <1>3, <1>4

\* ... and so does removing data and watches.
LEMMA StrippedKeeps ==
  ASSUME NEW n, IsNode(n), NEW owner
  PROVE  IsNode(Stripped(n, owner).node) /\ SameLinks(n, Stripped(n, owner).node)
<1> DEFINE single == Len(n.data) = 1
           left == Picked(n.data, {d \in ToSet(n.data) : ~OwnedBy(d, owner, single)})
           a == SetData([n EXCEPT !.data = <<>>], left[1].owner, left[1].value).node
           b == [n EXCEPT !.data = left,
                          !.watches = IF left # <<>> THEN @
                                      ELSE Overlaid(@, IF single THEN n.data[1].owner
                                                                 ELSE Garbage)]
           clobbered == single /\ n.data[1].owner # owner
           m == IF left = n.data THEN n ELSE IF Len(left) = 1 /\ Len(n.data) > 1 THEN a ELSE b
           unwatched(x) == /\ x.client = owner.client
                           /\ ~clobbered
                           /\ owner.publisher \in {Everyone, x.publisher}
           s == Picked(m.watches, {x \in ToSet(m.watches) : ~unwatched(x)})
<1>1. \E n1 \in {n, a, b} :
        \E z : Stripped(n, owner).node = [n1 EXCEPT !.watches = z]
  <2>1. Stripped(n, owner).node = [m EXCEPT !.watches = s]
    BY DEF Stripped
  <2>2. m \in {n, a, b}
    <3> HIDE DEF a, b, left
    <3> QED
      OBVIOUS
  <2> HIDE DEF m, s, a, b
  <2> QED
    BY <2>1, <2>2
<1>2. IsNode(a) /\ SameLinks(n, a)
  <2> DEFINE n0 == [n EXCEPT !.data = <<>>]
  <2>1. IsNode(n0) /\ SameLinks(n, n0)
    BY Refilled
  <2>2. a = SetData(n0, left[1].owner, left[1].value).node
    OBVIOUS
  <2> HIDE DEF n0, a, left
  <2>3. IsNode(a) /\ SameLinks(n0, a)
    BY <2>1, <2>2, SetDataKeeps
  <2> QED
    BY <2>1, <2>3 DEF SameLinks
<1>3. IsNode(b) /\ SameLinks(n, b)
  BY Refilled
<1> HIDE DEF a, b, left
<1>4. PICK n1 \in {n, a, b} :
        \E z : Stripped(n, owner).node = [n1 EXCEPT !.watches = z]
  BY <1>1
<1>5. PICK z : Stripped(n, owner).node = [n1 EXCEPT !.watches = z]
  BY <1>4
<1>6. IsNode(n1) /\ SameLinks(n, n1)
  BY <1>2, <1>3 DEF SameLinks
<1>7. IsNode([n1 EXCEPT !.watches = z]) /\ SameLinks(n1, [n1 EXCEPT !.watches = z])
  BY <1>6, Refilled
<1> QED
  BY <1>5, <1>6, <1>7 DEF SameLinks

-----------------------------------------------------------------------------
(* Fewer nodes, the same links.                                            *)

\* What is replaced of a tree.
TreeOf(a, b, c, d) == [node |-> a, version |-> b, free |-> c, nextCreationId |-> d]
WithNode(t, a) == [t EXCEPT !.node = a]
WithNodeFree(t, a, c) == [t EXCEPT !.node = a, !.free = c]
Rebuilt(t, a, b, c, d) ==
  [t EXCEPT !.node = a, !.version = b, !.free = c, !.nextCreationId = d]

\* A tree with other parts is the tree of those parts.
LEMMA Replaced ==
  ASSUME NEW t, t = TreeOf(t.node, t.version, t.free, t.nextCreationId),
         NEW a, NEW b, NEW c, NEW d
  PROVE  /\ WithNode(t, a) = TreeOf(a, t.version, t.free, t.nextCreationId)
         /\ WithNodeFree(t, a, c) = TreeOf(a, t.version, c, t.nextCreationId)
         /\ Rebuilt(t, a, b, c, d) = TreeOf(a, b, c, d)
<1> DEFINE A(m, v) == [m EXCEPT !.node = v]
           B(m, v) == [m EXCEPT !.version = v]
           C(m, v) == [m EXCEPT !.free = v]
           D(m, v) == [m EXCEPT !.nextCreationId = v]
<1>1. ASSUME NEW p, NEW q, NEW r, NEW s
      PROVE  /\ A(TreeOf(p, q, r, s), a) = TreeOf(a, q, r, s)
             /\ B(TreeOf(p, q, r, s), b) = TreeOf(p, b, r, s)
             /\ C(TreeOf(p, q, r, s), c) = TreeOf(p, q, c, s)
             /\ D(TreeOf(p, q, r, s), d) = TreeOf(p, q, r, d)
  <2>1. A(TreeOf(p, q, r, s), a) = TreeOf(a, q, r, s)
    BY DEF TreeOf
  <2>2. B(TreeOf(p, q, r, s), b) = TreeOf(p, b, r, s)
    BY DEF TreeOf
  <2>3. C(TreeOf(p, q, r, s), c) = TreeOf(p, q, c, s)
    BY DEF TreeOf
  <2>4. D(TreeOf(p, q, r, s), d) = TreeOf(p, q, r, d)
    BY DEF TreeOf
  <2> QED
    BY <2>1, <2>2, <2>3, <2>4
<1>2. /\ A(t, a) = TreeOf(a, t.version, t.free, t.nextCreationId)
      /\ C(A(t, a), c) = TreeOf(a, t.version, c, t.nextCreationId)
      /\ D(C(B(A(t, a), b), c), d) = TreeOf(a, b, c, d)
  <2> HIDE DEF A, B, C, D
  <2> QED
    BY <1>1
<1>3. WithNode(t, a) = A(t, a)
  BY DEF WithNode
<1>4. WithNodeFree(t, a, c) = C(A(t, a), c)
  BY DEF WithNodeFree
<1>5. Rebuilt(t, a, b, c, d) = D(C(B(A(t, a), b), c), d)
  BY DEF Rebuilt
<1> HIDE DEF A, B, C, D
<1> QED
  BY ONLY <1>2, <1>3, <1>4, <1>5, Zenon

\* A tree of fewer nodes with fewer links is sound if the old one was.
LEMMA Thinned ==
  ASSUME NEW t, NEW L, Sound(t, L), NEW u, IsTree(u), NEW K \in SUBSET L, Root \in K,
         \A e \in K : /\ IsNode(u.node[e])
                      /\ u.node[e].name = t.node[e].name
                      /\ u.node[e].parent = t.node[e].parent
                      /\ u.node[e].creationId = t.node[e].creationId
                      /\ u.node[e].sub \subseteq t.node[e].sub \cap K,
         u.nextCreationId = t.nextCreationId, FreeApart(u, K)
  PROVE  Sound(u, K)
<1>1. Linked(u, K)
  <2>1. ASSUME NEW e \in K, NEW c \in u.node[e].sub  PROVE u.node[c].parent = e
    BY DEF Sound, Linked
  <2> QED
    BY <2>1 DEF Sound, Linked
<1>2. ToldApart(u, K)
  <2>1. ASSUME NEW e \in K, NEW c \in u.node[e].sub, NEW d \in u.node[e].sub,
               u.node[c].name = u.node[d].name
        PROVE  c = d
    BY <2>1 DEF Sound, ToldApart
  <2> QED
    BY <2>1 DEF Sound, ToldApart
<1> QED
  BY <1>1, <1>2 DEF Sound

\* bump() changes the versions, and those it is for grow.
LEMMA BumpedIs ==
  ASSUME NEW t, IsTree(t), NEW S
  PROVE  LET u == Bumped(t, S)
         IN  /\ IsTree(u) /\ u.node = t.node /\ u.free = t.free
             /\ u.nextCreationId = t.nextCreationId
             /\ \A e \in Entries : /\ u.version[e] >= t.version[e]
                                   /\ e \in S => u.version[e] > t.version[e]
<1> DEFINE r == [node |-> t.node, version |-> t.version, free |-> t.free,
                 nextCreationId |-> t.nextCreationId]
           f == [e \in Entries |-> t.version[e] + IF e \in S THEN 1 ELSE 0]
           u == [node |-> t.node, version |-> f, free |-> t.free,
                 nextCreationId |-> t.nextCreationId]
<1>1. Bumped(r, S) = u
  BY DEF Bumped
<1>2. t = r
  BY DEF IsTree
<1>3. Bumped(t, S) = u
  BY <1>1, <1>2
<1>4. \A e \in Entries : t.version[e] \in Nat
  BY DEF IsTree
<1>5. f \in [Entries -> Nat]
  BY <1>4
<1>6. \A e \in Entries : f[e] >= t.version[e] /\ (e \in S => f[e] > t.version[e])
  BY <1>4
<1> HIDE DEF f
<1>7. IsTree(u)
  BY <1>5 DEF IsTree
<1> QED
  BY <1>3, <1>6, <1>7

-----------------------------------------------------------------------------
(* New nodes.                                                              *)

\* Other links, the same contents.
Hung(n, a, b, c, d) == [n EXCEPT !.name = a, !.parent = b, !.creationId = c, !.sub = d]
Above(n, d) == [n EXCEPT !.sub = d]

\* A node hung elsewhere, or above other nodes, is a node.
LEMMA Relinked ==
  ASSUME NEW n, IsNode(n), NEW a, NEW b, NEW c, NEW d
  PROVE  /\ IsNode(Hung(n, a, b, c, d)) /\ Hung(n, a, b, c, d).name = a
         /\ Hung(n, a, b, c, d).parent = b /\ Hung(n, a, b, c, d).creationId = c
         /\ Hung(n, a, b, c, d).sub = d
         /\ IsNode(Above(n, d)) /\ Above(n, d).name = n.name
         /\ Above(n, d).parent = n.parent /\ Above(n, d).creationId = n.creationId
         /\ Above(n, d).sub = d
         /\ SameContents(n, Hung(n, a, b, c, d)) /\ SameContents(n, Above(n, d))
<1> DEFINE N(aa, bb, cc, dd) == NodeOf(aa, bb, cc, dd, n.data, n.room, n.watches)
           A(m, v) == [m EXCEPT !.name = v]
           B(m, v) == [m EXCEPT !.parent = v]
           C(m, v) == [m EXCEPT !.creationId = v]
           D(m, v) == [m EXCEPT !.sub = v]
<1>1. n = N(n.name, n.parent, n.creationId, n.sub)
  BY DEF IsNode, NodeOf
<1>2. ASSUME NEW p, NEW q, NEW r, NEW s
      PROVE  /\ A(N(p, q, r, s), a) = N(a, q, r, s)
             /\ B(N(p, q, r, s), b) = N(p, b, r, s)
             /\ C(N(p, q, r, s), c) = N(p, q, c, s)
             /\ D(N(p, q, r, s), d) = N(p, q, r, d)
  <2> DEFINE x == n.data  y == n.room  z == n.watches
  <2> HIDE DEF x, y, z
  <2>1. A(NodeOf(p, q, r, s, x, y, z), a) = NodeOf(a, q, r, s, x, y, z)
    BY DEF NodeOf
  <2>2. B(NodeOf(p, q, r, s, x, y, z), b) = NodeOf(p, b, r, s, x, y, z)
    BY DEF NodeOf
  <2>3. C(NodeOf(p, q, r, s, x, y, z), c) = NodeOf(p, q, c, s, x, y, z)
    BY DEF NodeOf
  <2>4. D(NodeOf(p, q, r, s, x, y, z), d) = NodeOf(p, q, r, d, x, y, z)
    BY DEF NodeOf
  <2> HIDE DEF A, B, C, D
  <2> QED
    BY <2>1, <2>2, <2>3, <2>4 DEF x, y, z
<1>3. D(n, d) = N(n.name, n.parent, n.creationId, d) /\ D(C(B(A(n, a), b), c), d) = N(a, b, c, d)
  <2> HIDE DEF N, A, B, C, D
  <2> QED
    BY <1>1, <1>2
<1>4. Hung(n, a, b, c, d) = D(C(B(A(n, a), b), c), d)
  BY DEF Hung
<1>5. Above(n, d) = D(n, d)
  BY DEF Above
<1>6. LET m == N(a, b, c, d)
      IN  /\ IsNode(m) /\ m.name = a /\ m.parent = b /\ m.creationId = c /\ m.sub = d
          /\ SameContents(n, m)
  BY NodeOfIs DEF SameContents
<1>7. LET m == N(n.name, n.parent, n.creationId, d)
      IN  /\ IsNode(m) /\ m.name = n.name /\ m.parent = n.parent
          /\ m.creationId = n.creationId /\ m.sub = d /\ SameContents(n, m)
  BY NodeOfIs DEF SameContents
<1> HIDE DEF N, A, B, C, D
<1> QED
  BY ONLY <1>3, <1>4, <1>5, <1>6, <1>7, Zenon

\* The first of a list and the rest of it.
Divides(X, s, c, a, b) ==
  /\ Len(a) = c /\ a \in Seq(X) /\ DOMAIN a = 1 .. c
  /\ \A i \in 1 .. c : a[i] = s[i] /\ a[i] \in X
  /\ \A i, j \in 1 .. c : a[i] = a[j] => i = j
  /\ b \in Seq(X) /\ IsInjective(b) /\ Len(b) = Len(s) - c
  /\ ToSet(a) = {a[i] : i \in 1 .. c}
  /\ ToSet(a) \subseteq ToSet(s) /\ ToSet(b) \subseteq ToSet(s)
  /\ ToSet(a) \cap ToSet(b) = {}

\* The head of a free list and what is left of it have nothing in common.
LEMMA Divided ==
  ASSUME NEW X, NEW s \in Seq(X), IsInjective(s), NEW c \in 0 .. Len(s)
  PROVE  Divides(X, s, c, SubSeq(s, 1, c), SubSeq(s, c + 1, Len(s)))
<1> DEFINE n == Len(s)
           a == SubSeq(s, 1, c)
           b == SubSeq(s, c + 1, n)
<1>1. n \in Nat /\ DOMAIN s = 1 .. n /\ \A i \in 1 .. n : s[i] \in X
  BY LenProperties, ElementOfSeq
<1>2. /\ a \in Seq(X) /\ Len(a) = c /\ \A i \in 1 .. c : a[i] = s[i]
  <2>1. c \in Int /\ 1 <= c + 1 /\ c <= n /\ \A i \in 1 .. c : s[i] \in X
    BY <1>1
  <2>2. /\ SubSeq(s, 1, c) \in Seq(X)
        /\ Len(SubSeq(s, 1, c)) = IF 1 <= c THEN c - 1 + 1 ELSE 0
        /\ \A i \in 1 .. c - 1 + 1 : SubSeq(s, 1, c)[i] = s[1 + i - 1]
    BY <2>1, <1>1, SubSeqProperties
  <2> QED
    BY <1>1, <2>1, <2>2
<1>3. /\ b \in Seq(X) /\ Len(b) = n - c /\ \A i \in 1 .. n - c : b[i] = s[c + i]
  <2>1. c + 1 \in Int /\ n \in Int /\ \A i \in c + 1 .. n : s[i] \in X
    BY <1>1
  <2> HIDE DEF n
  <2>2. /\ SubSeq(s, c + 1, n) \in Seq(X)
        /\ Len(SubSeq(s, c + 1, n)) = IF c + 1 <= n THEN n - (c + 1) + 1 ELSE 0
        /\ \A i \in 1 .. n - (c + 1) + 1 : SubSeq(s, c + 1, n)[i] = s[(c + 1) + i - 1]
    BY <2>1, SubSeqProperties
  <2>3. \A i \in Int : c + 1 + i - 1 = c + i
    OBVIOUS
  <2>4. n - (c + 1) + 1 = n - c /\ (~(c + 1 <= n) => n - c = 0) /\ n - c \in Nat
    <3>1. c \in Int /\ n \in Int /\ c <= n
      BY <1>1 DEF n
    <3> QED
      BY <3>1
  <2> HIDE DEF b
  <2>5. b = SubSeq(s, c + 1, n)
    BY DEF b
  <2> QED
    BY <2>2, <2>3, <2>4, <2>5
<1> HIDE DEF a, b
<1>4. \A i, j \in 1 .. n : s[i] = s[j] => i = j
  BY <1>1 DEF IsInjective
<1>5. DOMAIN a = 1 .. c /\ DOMAIN b = 1 .. n - c
  BY <1>2, <1>3, LenProperties
<1>6. \A i, j \in 1 .. c : a[i] = a[j] => i = j
  BY <1>1, <1>2, <1>4
<1>7. \A i \in 1 .. n - c : c + i \in 1 .. n /\ c + i \notin 1 .. c
  BY <1>1
<1>8. \A i, j \in 1 .. n - c : b[i] = b[j] => i = j
  <2> SUFFICES ASSUME NEW i \in 1 .. n - c, NEW j \in 1 .. n - c, b[i] = b[j]
               PROVE  i = j
    OBVIOUS
  <2>1. c + i = c + j
    BY <1>3, <1>4, <1>7
  <2> QED
    BY <1>1, <2>1
<1>9. ToSet(a) = {a[i] : i \in 1 .. c} /\ ToSet(b) = {b[i] : i \in 1 .. n - c}
      /\ ToSet(s) = {s[i] : i \in 1 .. n}
  BY <1>1, <1>5 DEF ToSet
<1>10. \A i \in 1 .. c : i \in 1 .. n /\ a[i] = s[i] /\ a[i] \in X
  BY <1>1, <1>2
<1>11. \A i \in 1 .. c, j \in 1 .. n - c : a[i] # b[j]
  BY <1>3, <1>4, <1>7, <1>10
<1>12. IsInjective(b)
  BY <1>5, <1>8 DEF IsInjective
<1>13. ToSet(a) \subseteq ToSet(s) /\ ToSet(b) \subseteq ToSet(s) /\ ToSet(a) \cap ToSet(b) = {}
  BY <1>3, <1>7, <1>9, <1>10, <1>11
<1> QED
  BY <1>2, <1>3, <1>5, <1>6, <1>9, <1>10, <1>12, <1>13 DEF Divides, a, b, n

\* Whoever has seen e can tell: its version has grown, or below it all is linked as it
\* was.
Told(t, L, u) ==
  \A e \in L : \/ u.version[e] > t.version[e]
               \/ /\ u.version[e] >= t.version[e]
                  /\ \A x \in Under(t, e) : SameLinks(t.node[x], u.node[x])

\* A node of the way is only under nodes of the way before it.
LEMMA AboveWay ==
  ASSUME NEW t, NEW L, Linked(t, L), NEW path \in Seq(STRING), NEW j \in 0 .. Len(path),
         Walk(t, path)[j] # Invalid, NEW e \in L, Walk(t, path)[j] \in Under(t, e)
  PROVE  \E i \in 0 .. j : e = Walk(t, path)[i]
<1> DEFINE w == Walk(t, path)
           n == Len(path)
           U == Under(t, e)
           G == {i \in 0 .. j : w[i] \in U => \E k \in 0 .. i : e = w[k]}
<1>1. /\ n \in Nat /\ w[0] = Root
      /\ \A i \in 1 .. n : w[i] # Invalid =>
           w[i - 1] \in L /\ w[i] \in L /\ w[i] \in t.node[w[i - 1]].sub
  BY WayIs
<1>2. /\ U \subseteq L /\ \A x \in U \ {e} : \E p \in U : x \in t.node[p].sub
  BY UnderIs
<1>3. \A x \in L : x # Invalid /\ \A c \in t.node[x].sub : t.node[c].parent = x
  <2>1. L \subseteq 0 .. TableSize - 1
    BY DEF Linked, Entries
  <2> QED
    BY <2>1, TableAssumption DEF Linked, Invalid
<1>4. t.node[Root].parent = Invalid
  BY DEF Linked
<1> HIDE DEF w, U, n
<1>5. 0 \in G
  <2>1. ASSUME Root \in U PROVE e = Root
    BY <1>2, <1>3, <1>4, <2>1
  <2> QED
    BY <1>1, <2>1
<1>6. ASSUME NEW i \in 1 .. j, i - 1 \in G  PROVE i \in G
  <2> SUFFICES ASSUME w[i] \in U PROVE \E k \in 0 .. i : e = w[k]
    OBVIOUS
  <2>1. i \in 1 .. n /\ i - 1 \in 0 .. j /\ i \in 0 .. i
    BY <1>1 DEF n
  <2>2. w[i] # Invalid
    BY <1>2, <1>3
  <2>3. CASE w[i] = e
    BY <2>1, <2>3
  <2>4. CASE w[i] # e
    <3>1. PICK p \in U : w[i] \in t.node[p].sub
      BY <1>2, <2>4
    <3>2. p = w[i - 1]
      BY <1>1, <1>2, <1>3, <2>1, <2>2, <3>1
    <3>3. \E k \in 0 .. i - 1 : e = w[k]
      BY <1>6, <3>2
    <3> QED
      BY <3>3
  <2> QED
    BY <2>3, <2>4
<1>7. j \in Nat
  BY <1>1 DEF n
<1>8. \A i \in 0 .. j : i \in G
  <2> HIDE DEF G
  <2> QED
    BY <1>5, <1>6, <1>7, AlongNumbers
<1> QED
  BY <1>7, <1>8 DEF w, U

\* The lesser of two numbers.
LEMMA MinOfTwo ==
  ASSUME NEW a \in Nat, NEW b \in Nat
  PROVE  /\ Min({a, b}) \in Nat /\ Min({a, b}) <= a /\ Min({a, b}) <= b
         /\ a <= b => Min({a, b}) = a
<1>1. \E x \in {a, b} : \A y \in {a, b} : x <= y
  OBVIOUS
<1>2. Min({a, b}) \in {a, b} /\ \A y \in {a, b} : Min({a, b}) <= y
  BY <1>1 DEF Min
<1> QED
  BY <1>2

\* Nodes that have been made for what was missing of a path: one under the
\* other, the contents with the last.
GrewBy(t, L, path, leaf, u, K, made, c) ==
  LET w == Walk(t, path)
      m == Matched(t, path)
      n == Len(path)
  IN  /\ c \in 0 .. n - m /\ (n - m <= Len(t.free) => c = n - m)
      /\ Len(u.free) = Len(t.free) - c
      /\ K = L \cup {made[i] : i \in 1 .. c}
      /\ \A i \in 1 .. c :
           /\ made[i] \in Entries \ L /\ u.node[made[i]].name = path[m + i]
           /\ u.node[made[i]].sub = IF i < c THEN {made[i + 1]} ELSE {}
           /\ SameContents(AsMade(leaf, m + i = n), u.node[made[i]])
      /\ \A e \in L :
           /\ u.node[e].name = t.node[e].name /\ SameContents(t.node[e], u.node[e])
           /\ u.node[e].sub = t.node[e].sub \cup IF c > 0 /\ e = w[m] THEN {made[1]} ELSE {}
Grew(t, L, path, leaf, u, K) == \E made, c : GrewBy(t, L, path, leaf, u, K, made, c)

\* newNode() for what is missing of a path.
LEMMA GrownKeeps ==
  ASSUME NEW t, NEW L, Sound(t, L), NEW path \in Seq(STRING),
         Walk(t, path)[Len(path)] = Invalid, NEW leaf, IsNode(leaf)
  PROVE  LET u == Grown(t, path, leaf).tree
         IN  /\ Told(t, L, u)
             /\ \E K \in SUBSET Entries :
                  L \subseteq K /\ Sound(u, K) /\ Grew(t, L, path, leaf, u, K)
<1> DEFINE m == Matched(t, path)
           w == Walk(t, path)
           n == Len(path)
           made == SubSeq(t.free, 1, Min({n - m, Len(t.free)}))
           c == Len(made)
           At(e) == CHOOSE i \in 1 .. c : made[i] = e
           New(i) ==
             [AsMade(leaf, m + i = n) EXCEPT
                !.name = path[m + i],
                !.parent = IF i = 1 THEN w[m] ELSE made[i - 1],
                !.creationId = NextId(t, i),
                !.sub = IF i < c THEN {made[i + 1]} ELSE {}]
           touched == IF c = 0 THEN {} ELSE BumpedWay(w, m)
           b == Bumped(t, touched)
           T == ToSet(made)
           grown == [t.node[w[m]] EXCEPT !.sub = @ \cup {made[1]}]
           node == [e \in Entries |-> IF e \in T THEN New(At(e))
                                      ELSE IF c > 0 /\ e = w[m] THEN grown ELSE t.node[e]]
           version == [e \in Entries |->
                         IF e \in T THEN IF At(e) < c THEN 3 ELSE 2 ELSE b.version[e]]
           free == SubSeq(t.free, c + 1, Len(t.free))
           u == [node |-> node, version |-> version, free |-> free,
                 nextCreationId |-> t.nextCreationId + c]
           K == L \cup T
<1>0. IsTree(t) /\ Linked(t, L) /\ ToldApart(t, L) /\ FreeApart(t, L)
  BY DEF Sound
<1>1. /\ n \in Nat /\ m \in 0 .. n /\ m < n /\ \A i \in 0 .. m : w[i] \in L
      /\ \A x \in t.node[w[m]].sub : t.node[x].name # path[m + 1]
  BY <1>0, WayIs
<1>2. /\ IsTree(b) /\ b.node = t.node /\ b.free = t.free /\ b.nextCreationId = t.nextCreationId
      /\ \A e \in Entries : /\ b.version[e] >= t.version[e]
                            /\ e \in touched => b.version[e] > t.version[e]
  <2> HIDE DEF touched
  <2> QED
    BY <1>0, BumpedIs
<1>3. Grown(t, path, leaf).tree = u
  <2> DEFINE d == t.nextCreationId + c
             g == Rebuilt(b, node, version, free, d)
  <2>1. g = u
    <3>1. b = TreeOf(b.node, b.version, b.free, b.nextCreationId)
      BY <1>2 DEF IsTree, TreeOf
    <3> HIDE DEF b, node, version, free, d
    <3>2. g = TreeOf(node, version, free, d)
      BY <3>1, Replaced
    <3> QED
      BY <3>2 DEF TreeOf, d
  <2>2. /\ b.free = t.free /\ b.nextCreationId = t.nextCreationId /\ Taken(t.free, c) = free
    BY <1>2 DEF Taken
  <2> DEFINE node2 == [e \in Entries |->
                         IF e \in T THEN New(At(e))
                         ELSE IF c > 0 /\ e = w[m]
                           THEN [t.node[e] EXCEPT !.sub = @ \cup {made[1]}]
                         ELSE t.node[e]]
  <2>3. node2 = node
    <3>1. \A e \in Entries :
            (IF e \in T THEN New(At(e))
             ELSE IF c > 0 /\ e = w[m] THEN [t.node[e] EXCEPT !.sub = @ \cup {made[1]}]
             ELSE t.node[e])
            = (IF e \in T THEN New(At(e)) ELSE IF c > 0 /\ e = w[m] THEN grown ELSE t.node[e])
      <4> HIDE DEF T, c, At, New, w, m, made
      <4> QED
        OBVIOUS
    <3> HIDE DEF T, c, At, New, w, m, made, grown
    <3> QED
      BY <3>1
  <2>4. Grown(t, path, leaf).tree =
          [b EXCEPT !.node = node2, !.version = version, !.free = Taken(b.free, c),
                    !.nextCreationId = b.nextCreationId + c]
    BY DEF Grown, Result
  <2> HIDE DEF b, node, node2, version, free, c
  <2>5. Grown(t, path, leaf).tree =
          [b EXCEPT !.node = node, !.version = version, !.free = free,
                    !.nextCreationId = t.nextCreationId + c]
    BY <2>2, <2>3, <2>4
  <2> QED
    BY <2>1, <2>5 DEF Rebuilt
<1>4. /\ c \in Nat /\ c <= n - m /\ c \in 0 .. Len(t.free)
      /\ (n - m <= Len(t.free) => c = n - m) /\ Len(free) = Len(t.free) - c
      /\ made \in Seq(Entries \ {Root}) /\ \A i \in 1 .. c : made[i] \in Entries \ {Root}
      /\ \A i, j \in 1 .. c : made[i] = made[j] => i = j
      /\ T = {made[i] : i \in 1 .. c}
      /\ free \in Seq(Entries \ {Root}) /\ IsInjective(free)
      /\ T \subseteq ToSet(t.free) /\ ToSet(free) \subseteq ToSet(t.free) /\ T \cap ToSet(free) = {}
  <2> DEFINE k == Min({n - m, Len(t.free)})
  <2>1. /\ t.free \in Seq(Entries \ {Root}) /\ IsInjective(t.free) /\ Len(t.free) \in Nat
        /\ n - m \in Nat
    BY <1>0, <1>1, LenProperties DEF IsTree, FreeApart
  <2>2. k \in 0 .. Len(t.free) /\ k <= n - m /\ (n - m <= Len(t.free) => k = n - m)
    BY <2>1, MinOfTwo
  <2>3. made = SubSeq(t.free, 1, k)
    OBVIOUS
  <2> HIDE DEF k
  <2>4. Divides(Entries \ {Root}, t.free, k, SubSeq(t.free, 1, k),
                SubSeq(t.free, k + 1, Len(t.free)))
    BY <2>1, <2>2, Divided
  <2>5. c = k
    BY <2>3, <2>4 DEF Divides
  <2>6. Divides(Entries \ {Root}, t.free, c, made, free)
    BY <2>3, <2>4, <2>5
  <2> HIDE DEF made, free, c
  <2> QED
    BY <2>2, <2>5, <2>6 DEF Divides
<1>5. ASSUME NEW i \in 1 .. c
      PROVE  LET x == made[i]
             IN  /\ x \in T /\ node[x] = New(i) /\ IsNode(node[x]) /\ node[x].name = path[m + i]
                 /\ node[x].parent = IF i = 1 THEN w[m] ELSE made[i - 1]
                 /\ node[x].creationId = t.nextCreationId + i - 1
                 /\ node[x].sub = IF i < c THEN {made[i + 1]} ELSE {}
                 /\ SameContents(AsMade(leaf, m + i = n), node[x])
  <2>1. made[i] \in T /\ made[i] \in Entries
    BY <1>4
  <2>2. At(made[i]) = i
    <3> HIDE DEF made, c
    <3> QED
      BY <1>4
  <2>3. node[made[i]] = New(i)
    <3> HIDE DEF T, made, c, New, At
    <3> QED
      BY <2>1, <2>2
  <2>4. IsNode(AsMade(leaf, m + i = n))
    <3>1. IsNode(Blank(NoName, Invalid, 0))
      BY BlankIs
    <3> QED
      BY <3>1 DEF AsMade
  <2>5. /\ IsNode(New(i)) /\ New(i).name = path[m + i]
        /\ New(i).parent = IF i = 1 THEN w[m] ELSE made[i - 1]
        /\ New(i).creationId = NextId(t, i)
        /\ New(i).sub = IF i < c THEN {made[i + 1]} ELSE {}
        /\ SameContents(AsMade(leaf, m + i = n), New(i))
    <3> DEFINE p == IF i = 1 THEN w[m] ELSE made[i - 1]
               s == IF i < c THEN {made[i + 1]} ELSE {}
               l == AsMade(leaf, m + i = n)
               q == path[m + i]
               id == NextId(t, i)
    <3>1. New(i) = Hung(l, q, p, id, s)
      BY DEF Hung
    <3> HIDE DEF p, s, New, l, q, id
    <3>2. IsNode(l)
      BY <2>4 DEF l
    <3>3. IsNode(New(i)) /\ New(i).name = q /\ New(i).parent = p /\ New(i).creationId = id
          /\ New(i).sub = s /\ SameContents(l, New(i))
      BY <3>1, <3>2, Relinked
    <3> QED
      BY <3>3 DEF p, s, q, id, l
  <2> HIDE DEF node, New, made, c, T
  <2> QED
    BY <2>1, <2>3, <2>5 DEF NextId
<1>6. ASSUME NEW e \in L
      PROVE  /\ e \notin T /\ IsNode(node[e]) /\ node[e].name = t.node[e].name
             /\ node[e].parent = t.node[e].parent
             /\ node[e].creationId = t.node[e].creationId
             /\ node[e].sub = t.node[e].sub \cup IF c > 0 /\ e = w[m] THEN {made[1]} ELSE {}
             /\ SameContents(t.node[e], node[e])
  <2>1. e \notin T /\ e \in Entries /\ IsNode(t.node[e])
    BY <1>0, <1>4 DEF FreeApart, Linked
  <2>2. node[e] = IF c > 0 /\ e = w[m] THEN grown ELSE t.node[e]
    <3> HIDE DEF T, c, New, At, grown, w, m
    <3> QED
      BY <2>1
  <2>3. CASE c > 0 /\ e = w[m]
    <3> DEFINE s == t.node[e].sub \cup {made[1]}
    <3>1. grown = Above(t.node[e], s)
      BY <2>3 DEF Above
    <3> HIDE DEF s, grown
    <3>3. /\ IsNode(grown) /\ grown.name = t.node[e].name /\ grown.parent = t.node[e].parent
          /\ grown.creationId = t.node[e].creationId /\ grown.sub = s
          /\ SameContents(t.node[e], grown)
      BY <2>1, <3>1, Relinked
    <3> HIDE DEF node
    <3> QED
      BY <2>1, <2>2, <2>3, <3>3 DEF s
  <2>4. CASE ~(c > 0 /\ e = w[m])
    <3> HIDE DEF node
    <3> QED
      BY <2>1, <2>2, <2>4 DEF SameContents
  <2> QED
    BY <2>3, <2>4
<1>7. /\ node = [e \in Entries |-> node[e]]
      /\ version \in [Entries -> Nat]
      /\ \A e \in L : version[e] = b.version[e]
  <2>1. \A e \in Entries : b.version[e] \in Nat
    BY <1>2 DEF IsTree
  <2>2. \A e \in L : e \in Entries
    BY <1>0 DEF Linked
  <2>3. node = [e \in Entries |-> node[e]]
    <3> HIDE DEF T, c, At, New, grown, w, m, made
    <3> QED
      OBVIOUS
  <2>4. version \in [Entries -> Nat]
    <3> HIDE DEF T, c, At, b
    <3> QED
      BY <2>1
  <2>5. \A e \in L : version[e] = b.version[e]
    <3>1. \A e \in L : e \notin T
      BY <1>6
    <3> HIDE DEF T, c, At, b
    <3> QED
      BY <2>2, <3>1
  <2> QED
    BY <2>3, <2>4, <2>5
<1>8. c > 0 => /\ w[m] \in L /\ 1 \in 1 .. c
               /\ \A x \in t.node[w[m]].sub : t.node[x].name # path[m + 1]
  BY <1>1, <1>4
<1> HIDE DEF node, version, free, made, c, At, New, grown, b, T
<1>9. IsTree(u)
  <2>1. t.nextCreationId + c \in Nat
    BY <1>0, <1>4 DEF IsTree
  <2> QED
    BY <1>4, <1>7, <2>1 DEF IsTree
<1>10. ASSUME NEW e \in T
       PROVE  \E i \in 1 .. c : e = made[i]
  BY <1>4
<1>11. Linked(u, K)
  <2>1. K \subseteq Entries /\ Root \in K
    BY <1>0, <1>4 DEF Linked
  <2>2. ASSUME NEW e \in K
        PROVE  /\ IsNode(node[e]) /\ node[e].sub \subseteq K
               /\ \A x \in node[e].sub : node[x].parent = e
    <3>1. CASE e \in L
      <4>1. \A x \in t.node[e].sub : x \in L /\ node[x].parent = e
        BY <1>0, <1>6, <3>1 DEF Linked
      <4>2. c > 0 /\ e = w[m] => made[1] \in T /\ node[made[1]].parent = e
        BY <1>5, <1>8
      <4> QED
        BY <1>6, <3>1, <4>1, <4>2
    <3>2. CASE e \in T
      <4>1. PICK i \in 1 .. c : e = made[i]
        BY <1>10, <3>2
      <4>2. i < c => i + 1 \in 1 .. c /\ i + 1 # 1 /\ i + 1 - 1 = i
        BY <1>4
      <4>3. i < c => made[i + 1] \in T /\ node[made[i + 1]].parent = made[i]
        <5> SUFFICES ASSUME i < c PROVE made[i + 1] \in T /\ node[made[i + 1]].parent = made[i]
          OBVIOUS
        <5> DEFINE k == i + 1
        <5>1. k \in 1 .. c /\ k # 1 /\ k - 1 = i
          BY <4>2
        <5> HIDE DEF k
        <5>2. made[k] \in T /\ node[made[k]].parent = made[k - 1]
          BY <1>5, <5>1
        <5> QED
          BY <5>1, <5>2 DEF k
      <4>4. IsNode(node[e]) /\ node[e].sub = IF i < c THEN {made[i + 1]} ELSE {}
        BY <1>5, <4>1
      <4> QED
        BY <4>1, <4>3, <4>4
    <3> QED
      BY <3>1, <3>2
  <2>3. node[Root].parent = Invalid
    BY <1>0, <1>6 DEF Linked
  <2> QED
    BY <2>1, <2>2, <2>3 DEF Linked
<1>12. ToldApart(u, K)
  <2>1. ASSUME NEW e \in K, NEW x \in node[e].sub, NEW y \in node[e].sub,
               node[x].name = node[y].name
        PROVE  x = y
    <3>1. CASE e \in L
      <4>1. \A z \in t.node[e].sub : z \in L /\ node[z].name = t.node[z].name
        BY <1>0, <1>6, <3>1 DEF Linked
      <4>2. c > 0 /\ e = w[m] => node[made[1]].name = path[m + 1]
        BY <1>5, <1>8
      <4>3. \A p, q \in t.node[e].sub : t.node[p].name = t.node[q].name => p = q
        BY <1>0, <3>1 DEF ToldApart
      <4>4. \A z \in node[e].sub : z \in t.node[e].sub \/ (c > 0 /\ e = w[m] /\ z = made[1])
        BY <1>6, <3>1
      <4> QED
        BY <1>8, <2>1, <4>1, <4>2, <4>3, <4>4
    <3>2. CASE e \in T
      <4>1. PICK i \in 1 .. c : e = made[i]
        BY <1>10, <3>2
      <4>2. node[e].sub = IF i < c THEN {made[i + 1]} ELSE {}
        BY <1>5, <4>1
      <4> QED
        BY <4>2
    <3> QED
      BY <3>1, <3>2
  <2>2. \A e \in L : /\ node[e].creationId \in Nat /\ node[e].creationId < t.nextCreationId
                     /\ node[e].creationId = t.node[e].creationId
    BY <1>0, <1>6 DEF ToldApart
  <2>3. t.nextCreationId \in Nat
    BY <1>0 DEF IsTree
  <2>4. \A i \in 1 .. c : node[made[i]].creationId = t.nextCreationId + i - 1
    BY <1>5
  <2>5. ASSUME NEW e \in T, NEW d \in T, node[e].creationId = node[d].creationId  PROVE e = d
    <3>1. PICK i \in 1 .. c : e = made[i]
      BY <1>10
    <3>2. PICK j \in 1 .. c : d = made[j]
      BY <1>10
    <3>3. t.nextCreationId + i - 1 = t.nextCreationId + j - 1
      BY <2>4, <2>5, <3>1, <3>2
    <3>4. i = j
      BY <1>4, <2>3, <3>3
    <3> QED
      BY <3>1, <3>2, <3>4
  <2>6. \A e \in T : /\ node[e].creationId \in Nat /\ node[e].creationId >= t.nextCreationId
                     /\ node[e].creationId < t.nextCreationId + c
    <3> SUFFICES ASSUME NEW i \in 1 .. c
                 PROVE  LET x == node[made[i]].creationId
                        IN  /\ x \in Nat /\ x >= t.nextCreationId
                            /\ x < t.nextCreationId + c
      BY <1>10
    <3>1. c \in Nat /\ node[made[i]].creationId = t.nextCreationId + i - 1
      BY <1>4, <2>4
    <3> QED
      BY <2>3, <3>1
  <2>7. \A d, e \in K : node[d].creationId = node[e].creationId => d = e
    <3>1. \A d, e \in L : node[d].creationId = node[e].creationId => d = e
      BY <1>0, <2>2 DEF ToldApart
    <3>2. \A d \in L, e \in T : node[d].creationId # node[e].creationId
      BY <2>2, <2>3, <2>6
    <3> QED
      BY <2>5, <3>1, <3>2
  <2>8. \A e \in K : node[e].creationId \in Nat /\ node[e].creationId < t.nextCreationId + c
    BY <1>4, <2>2, <2>3, <2>6
  <2> HIDE DEF K
  <2> QED
    BY <2>1, <2>7, <2>8 DEF ToldApart
<1>13. FreeApart(u, K)
  BY <1>0, <1>4 DEF FreeApart
<1>14. Told(t, L, u)
  <2> SUFFICES ASSUME NEW e \in L
               PROVE  \/ version[e] > t.version[e]
                      \/ /\ version[e] >= t.version[e]
                         /\ \A x \in Under(t, e) : SameLinks(t.node[x], node[x])
    BY DEF Told
  <2>1. e \in Entries /\ version[e] = b.version[e]
    BY <1>0, <1>7 DEF Linked
  <2>2. Under(t, e) \subseteq L
    BY <1>0, UnderIs
  <2>3. CASE c > 0 /\ w[m] \in Under(t, e)
    <3>1. \E i \in 0 .. m : e = w[i]
      <4>1. w[m] # Invalid
        BY <1>0, <1>8, <2>3, TableAssumption DEF Linked, Entries, Invalid
      <4> QED
        BY <1>0, <1>1, <2>3, <4>1, AboveWay
    <3>2. touched = {w[i] : i \in 0 .. m}
      BY <1>4, <2>3 DEF BumpedWay
    <3>3. e \in touched
      BY <3>1, <3>2
    <3> QED
      BY <1>2, <2>1, <3>3
  <2>4. CASE ~(c > 0 /\ w[m] \in Under(t, e))
    <3>1. \A x \in Under(t, e) : SameLinks(t.node[x], node[x])
      <4> SUFFICES ASSUME NEW x \in Under(t, e) PROVE SameLinks(t.node[x], node[x])
        OBVIOUS
      <4>1. x \in L /\ ~(c > 0 /\ x = w[m])
        BY <2>2, <2>4
      <4>2. (IF c > 0 /\ x = w[m] THEN {made[1]} ELSE {}) = {}
        BY <4>1
      <4>3. node[x].sub = t.node[x].sub
        <5> HIDE DEF w, m
        <5>1. node[x].sub = t.node[x].sub
                              \cup IF c > 0 /\ x = w[m] THEN {made[1]} ELSE {}
          BY <1>6, <4>1
        <5>2. node[x].sub = t.node[x].sub \cup {}
          BY ONLY <4>2, <5>1
        <5> QED
          BY ONLY <5>2
      <4> QED
        BY <1>6, <4>1, <4>3 DEF SameLinks
    <3> QED
      BY <1>2, <2>1, <3>1
  <2> QED
    BY <2>3, <2>4
<1>15. K \subseteq Entries /\ L \subseteq K
  BY <1>11 DEF Linked
<1>16. Grew(t, L, path, leaf, u, K)
  <2>1. c \in 0 .. n - m
    BY <1>1, <1>4
  <2>2. \A i \in 1 .. c :
          /\ made[i] \in Entries \ L /\ node[made[i]].name = path[m + i]
          /\ node[made[i]].sub = IF i < c THEN {made[i + 1]} ELSE {}
          /\ SameContents(AsMade(leaf, m + i = n), node[made[i]])
    BY <1>4, <1>5, <1>6
  <2>3. u.node = node /\ u.free = free
    OBVIOUS
  <2>4. K = L \cup {made[i] : i \in 1 .. c}
    BY <1>4
  <2> HIDE DEF u, K
  <2>5. /\ c \in 0 .. n - m /\ (n - m <= Len(t.free) => c = n - m)
        /\ Len(u.free) = Len(t.free) - c
        /\ K = L \cup {made[i] : i \in 1 .. c}
        /\ \A i \in 1 .. c :
             /\ made[i] \in Entries \ L /\ u.node[made[i]].name = path[m + i]
             /\ u.node[made[i]].sub = IF i < c THEN {made[i + 1]} ELSE {}
             /\ SameContents(AsMade(leaf, m + i = n), u.node[made[i]])
        /\ \A e \in L :
             /\ u.node[e].name = t.node[e].name /\ SameContents(t.node[e], u.node[e])
             /\ u.node[e].sub = t.node[e].sub \cup IF c > 0 /\ e = w[m] THEN {made[1]} ELSE {}
    <3> HIDE DEF w, m, n
    <3> QED
      BY <1>4, <1>6, <2>1, <2>2, <2>3, <2>4
  <2>6. GrewBy(t, L, path, leaf, u, K, made, c)
    <3> HIDE DEF touched
    <3> QED
      BY ONLY <2>5 DEF GrewBy, w, m, n
  <2> QED
    BY <2>6 DEF Grew
<1> QED
  BY <1>3, <1>9, <1>11, <1>12, <1>13, <1>14, <1>15, <1>16 DEF Sound

-----------------------------------------------------------------------------
(* The entries handed back.                                                *)

\* Each entry of R has its own place in the list: how many are ahead of it.
LEMMA HandedBackIs ==
  ASSUME NEW t, NEW L, Linked(t, L), NEW R \in SUBSET L
  PROVE  /\ HandedBack(t, R) \in Seq(R) /\ Len(HandedBack(t, R)) = Cardinality(R)
         /\ \A i, j \in 1 .. Cardinality(R) :
              HandedBack(t, R)[i] = HandedBack(t, R)[j] => i = j
<1> DEFINE size == [x \in R |-> Cardinality(Under(t, x))]
           Ahead(x, y) == size[x] > size[y] \/ (size[x] = size[y] /\ x < y)
           Before(x) == {y \in R : Ahead(y, x)}
           n == Cardinality(R)
           place == [x \in R |-> Cardinality(Before(x))]
           h == [i \in 1 .. n |-> CHOOSE x \in R : Cardinality(Before(x)) = i - 1]
<1>1. IsFiniteSet(Entries) /\ Entries \subseteq Int
  <2>1. TableSize - 1 \in Int
    BY TableAssumption
  <2> QED
    BY <2>1, FS_Interval DEF Entries
<1>2. L \in SUBSET Entries /\ R \in SUBSET Entries
  BY DEF Linked
<1>3. IsFiniteSet(R) /\ n \in Nat
  BY <1>1, <1>2, FS_Subset, FS_CardinalityType
<1>4. \A x \in R : size[x] \in Nat /\ x \in Int
  <2>1. ASSUME NEW x \in R  PROVE Cardinality(Under(t, x)) \in Nat
    <3>1. Under(t, x) \in SUBSET Entries
      BY <1>2, UnderIs
    <3> QED
      BY <1>1, <3>1, FS_Subset, FS_CardinalityType
  <2> QED
    BY <1>1, <1>2, <2>1
<1> HIDE DEF size, n
<1>5. \A x \in R : /\ Before(x) \in SUBSET R /\ IsFiniteSet(Before(x))
                   /\ Cardinality(Before(x)) \in Nat
  <2> HIDE DEF Ahead
  <2>1. \A x \in R : Before(x) \in SUBSET R
    OBVIOUS
  <2> HIDE DEF Before
  <2> QED
    BY <1>3, <2>1, FS_Subset, FS_CardinalityType
<1>6. ASSUME NEW x \in R, NEW S \in SUBSET R, Before(x) \subseteq S, x \in S
      PROVE  Cardinality(Before(x)) < Cardinality(S)
  <2>1. x \notin Before(x)
    BY <1>4
  <2>2. IsFiniteSet(S) /\ Cardinality(S) \in Nat
    BY <1>3, FS_Subset, FS_CardinalityType
  <2> HIDE DEF Before
  <2>3. Before(x) \in SUBSET S /\ Before(x) # S
    BY <1>6, <2>1
  <2>4. /\ Cardinality(Before(x)) <= Cardinality(S)
        /\ Cardinality(S) = Cardinality(Before(x)) => S = Before(x)
    BY <2>2, <2>3, FS_Subset
  <2> QED
    BY <1>5, <2>2, <2>3, <2>4
<1>7. ASSUME NEW x \in R, NEW y \in R, Ahead(x, y)
      PROVE  Cardinality(Before(x)) < Cardinality(Before(y))
  <2>1. Before(x) \subseteq Before(y) /\ x \in Before(y)
    BY <1>4, <1>7
  <2> HIDE DEF Before
  <2> QED
    BY <1>5, <1>6, <2>1
<1>8. \A x, y \in R : x # y => Ahead(x, y) \/ Ahead(y, x)
  BY <1>4
<1> HIDE DEF Ahead, Before
<1>9. \A x \in R : Cardinality(Before(x)) \in 0 .. n - 1
  <2>1. \A x \in R : Cardinality(Before(x)) < n
    BY <1>5, <1>6 DEF n
  <2> QED
    BY <1>3, <1>5, <2>1
<1>10. \A x, y \in R : Cardinality(Before(x)) = Cardinality(Before(y)) => x = y
  <2> SUFFICES ASSUME NEW x \in R, NEW y \in R, x # y,
                      Cardinality(Before(x)) = Cardinality(Before(y))
               PROVE  FALSE
    OBVIOUS
  <2>1. Cardinality(Before(x)) < Cardinality(Before(y))
        \/ Cardinality(Before(y)) < Cardinality(Before(x))
    BY <1>7, <1>8
  <2> QED
    BY <1>5, <2>1
<1>11. place \in Injection(R, 0 .. n - 1)
  BY <1>9, <1>10 DEF Injection, IsInjective
<1>12. place \in Surjection(R, 0 .. n - 1)
  <2>1. n - 1 \in Int
    BY <1>3
  <2>2. IsFiniteSet(0 .. n - 1) /\ Cardinality(0 .. n - 1) = n
    <3>1. Cardinality(0 .. n - 1) = IF 0 > n - 1 THEN 0 ELSE n - 1 - 0 + 1
      BY <2>1, FS_Interval
    <3> QED
      BY <1>3, <2>1, <3>1, FS_Interval
  <2> HIDE DEF place
  <2> QED
    BY <1>11, <2>2, FS_Injection DEF n
<1>13. ASSUME NEW i \in 1 .. n  PROVE h[i] \in R /\ Cardinality(Before(h[i])) = i - 1
  <2>1. i - 1 \in 0 .. n - 1
    BY <1>3
  <2>2. \E x \in R : Cardinality(Before(x)) = i - 1
    BY <1>12, <2>1 DEF Surjection
  <2> QED
    BY <2>2
<1>14. HandedBack(t, R) = h
  BY DEF HandedBack, h, Before, Ahead, size, n
<1> HIDE DEF h
<1>15. \A i, j \in 1 .. n : h[i] = h[j] => i = j
  <2> SUFFICES ASSUME NEW i \in 1 .. n, NEW j \in 1 .. n, h[i] = h[j] PROVE i = j
    OBVIOUS
  <2>1. i - 1 = j - 1
    BY <1>13
  <2> QED
    BY <2>1
<1>16. h \in Seq(R) /\ Len(h) = n
  <2>1. h = [i \in 1 .. n |-> h[i]]
    BY DEF h
  <2>2. h \in [1 .. n -> R]
    BY <1>13, <2>1
  <2> QED
    BY <1>3, <2>2, SeqDef, LenProperties
<1> QED
  BY <1>14, <1>15, <1>16 DEF n

\* Two lists without a common entry, one after the other.
LEMMA Joined ==
  ASSUME NEW X, NEW a \in Seq(X), NEW b \in Seq(X),
         \A i, j \in 1 .. Len(a) : a[i] = a[j] => i = j, IsInjective(b),
         \A i \in 1 .. Len(a) : a[i] \notin ToSet(b)
  PROVE  /\ a \o b \in Seq(X) /\ IsInjective(a \o b)
         /\ \A x \in ToSet(a \o b) : x \in ToSet(b) \/ \E i \in 1 .. Len(a) : x = a[i]
<1> DEFINE s == a \o b
           n == Len(a)
           k == Len(b)
<1>1. /\ n \in Nat /\ k \in Nat /\ DOMAIN b = 1 .. k
      /\ s \in Seq(X) /\ Len(s) = n + k
      /\ \A i \in 1 .. n + k : s[i] = IF i <= n THEN a[i] ELSE b[i - n]
  BY ConcatProperties, LenProperties
<1> HIDE DEF s, n, k
<1>2. DOMAIN s = 1 .. n + k
  BY <1>1, LenProperties
<1>3. \A i \in 1 .. n : i \in 1 .. n + k /\ s[i] = a[i]
  BY <1>1
<1>4. \A i \in 1 .. n + k : i \in 1 .. n \/ (i - n \in 1 .. k /\ s[i] = b[i - n])
  BY <1>1
<1>5. ToSet(b) = {b[i] : i \in 1 .. k} /\ ToSet(s) = {s[i] : i \in 1 .. n + k}
  BY <1>1, <1>2 DEF ToSet
<1>6. \A i, j \in 1 .. k : b[i] = b[j] => i = j
  BY <1>1 DEF IsInjective
<1>7. ASSUME NEW i \in 1 .. n + k, NEW j \in 1 .. n + k, s[i] = s[j]  PROVE i = j
  <2>1. CASE i \in 1 .. n /\ j \in 1 .. n
    BY <1>3, <1>7, <2>1 DEF n
  <2>2. CASE i \in 1 .. n /\ j \notin 1 .. n
    BY <1>3, <1>4, <1>5, <1>7, <2>2 DEF n
  <2>3. CASE i \notin 1 .. n /\ j \in 1 .. n
    BY <1>3, <1>4, <1>5, <1>7, <2>3 DEF n
  <2>4. CASE i \notin 1 .. n /\ j \notin 1 .. n
    <3>1. i - n = j - n
      BY <1>4, <1>6, <1>7, <2>4
    <3> QED
      BY <1>1, <3>1
  <2> QED
    BY <2>1, <2>2, <2>3, <2>4
<1>8. IsInjective(s)
  BY <1>2, <1>7 DEF IsInjective
<1>9. \A x \in ToSet(s) : x \in ToSet(b) \/ \E i \in 1 .. n : x = a[i]
  BY <1>3, <1>4, <1>5
<1> QED
  BY <1>1, <1>8, <1>9 DEF s, n

-----------------------------------------------------------------------------
(* Operations on a node that is there.                                     *)

\* What a step leaves of the tree.
Keeps(t, L, u) == Told(t, L, u) /\ \E K \in SUBSET Entries : Sound(u, K)

Put(t, e, x) == [t EXCEPT !.node[e] = x]

\* Another node at an entry.
LEMMA PutIs ==
  ASSUME NEW t, IsTree(t), NEW e \in Entries, NEW x
  PROVE  LET u == Put(t, e, x)
         IN  /\ IsTree(u) /\ u.version = t.version /\ u.free = t.free
             /\ u.nextCreationId = t.nextCreationId
             /\ u.node[e] = x /\ \A y \in Entries \ {e} : u.node[y] = t.node[y]
<1> DEFINE a == [t.node EXCEPT ![e] = x]
<1>1. Put(t, e, x) = WithNode(t, a)
  BY DEF Put, WithNode
<1>2. a = [y \in Entries |-> a[y]] /\ a[e] = x /\ \A y \in Entries \ {e} : a[y] = t.node[y]
  BY DEF IsTree
<1> HIDE DEF a
<1>3. t = TreeOf(t.node, t.version, t.free, t.nextCreationId)
  BY DEF IsTree, TreeOf
<1>4. Put(t, e, x) = TreeOf(a, t.version, t.free, t.nextCreationId)
  BY <1>1, <1>3, Replaced
<1>5. IsTree(TreeOf(a, t.version, t.free, t.nextCreationId))
  BY <1>2 DEF IsTree, TreeOf
<1> QED
  BY <1>2, <1>4, <1>5 DEF TreeOf

\* With the same links there the tree stays sound, and nobody has to be told.
LEMMA PutKeeps ==
  ASSUME NEW t, NEW L, Sound(t, L), NEW e \in L, NEW x, IsNode(x), SameLinks(t.node[e], x),
         NEW v, IsTree(v), v.node = t.node, v.free = t.free,
         v.nextCreationId = t.nextCreationId,
         \A y \in Entries : v.version[y] >= t.version[y]
  PROVE  LET u == Put(v, e, x)
         IN  /\ Sound(u, L) /\ u.version = v.version /\ Keeps(t, L, u)
             /\ \A y \in L : IsNode(u.node[y]) /\ SameLinks(t.node[y], u.node[y])
<1> DEFINE u == Put(v, e, x)
<1>1. IsTree(t) /\ Linked(t, L) /\ ToldApart(t, L) /\ FreeApart(t, L)
  BY DEF Sound
<1>2. L \subseteq Entries /\ \A y \in L : IsNode(t.node[y]) /\ t.node[y].sub \subseteq L
  BY <1>1 DEF Linked
<1>3. /\ IsTree(u) /\ u.version = v.version /\ u.free = t.free
      /\ u.nextCreationId = t.nextCreationId
      /\ u.node[e] = x /\ \A y \in Entries \ {e} : u.node[y] = t.node[y]
  BY <1>2, PutIs
<1> HIDE DEF u
<1>4. \A y \in L : IsNode(u.node[y]) /\ SameLinks(t.node[y], u.node[y])
  BY <1>2, <1>3 DEF SameLinks
<1>5. Sound(u, L)
  <2>1. FreeApart(u, L)
    BY <1>1, <1>3 DEF FreeApart
  <2>2. L \in SUBSET L /\ Root \in L
    BY <1>1 DEF Linked
  <2>3. \A y \in L : /\ IsNode(u.node[y])
                      /\ u.node[y].name = t.node[y].name
                      /\ u.node[y].parent = t.node[y].parent
                      /\ u.node[y].creationId = t.node[y].creationId
                      /\ u.node[y].sub \subseteq t.node[y].sub \cap L
    BY <1>2, <1>4 DEF SameLinks
  <2> QED
    BY <1>3, <2>1, <2>2, <2>3, Thinned
<1>6. Told(t, L, u)
  <2>1. \A y \in L : Under(t, y) \subseteq L
    BY <1>1, UnderIs
  <2> QED
    BY <1>2, <1>3, <1>4, <2>1 DEF Told
<1> QED
  BY <1>2, <1>3, <1>4, <1>5, <1>6 DEF u, Keeps

\* insert().
LEMMA InsertKeeps ==
  ASSUME NEW t, NEW L, Sound(t, L), NEW path \in Seq(STRING), NEW owner, NEW v
  PROVE  Keeps(t, L, Insert(t, path, owner, v).tree)
<1> DEFINE w == Walk(t, path)
           e == w[Len(path)]
           s == SetData(t.node[e], owner, v)
           touched == (IF s.moved THEN {e} ELSE {})
                      \cup (IF s.rv THEN {w[i] : i \in 0 .. Len(path) - 1} ELSE {})
           leaf == [Blank(NoName, Invalid, 0) EXCEPT
                      !.data = <<[owner |-> owner, value |-> v]>>, !.room = v]
<1>1. Linked(t, L) /\ IsTree(t)
  BY DEF Sound
<1>2. CASE e = Invalid
  <2>1. Insert(t, path, owner, v).tree = Grown(t, path, leaf).tree
    BY <1>2 DEF Insert
  <2>2. IsNode(leaf)
    <3> DEFINE d == <<[owner |-> owner, value |-> v]>>
    <3> HIDE DEF d
    <3> QED
      BY BlankIs, Refilled
  <2> HIDE DEF leaf
  <2> QED
    BY <1>2, <2>1, <2>2, GrownKeeps DEF Keeps
<1>3. CASE e # Invalid
  <2> DEFINE b == Bumped(t, touched)
  <2>1. Insert(t, path, owner, v).tree = Put(b, e, s.node)
    <3> HIDE DEF s, touched
    <3>1. Insert(t, path, owner, v).tree = Result(Put(b, e, s.node), touched, s.rv).tree
      BY <1>3 DEF Insert, Put, s, touched
    <3> QED
      BY <3>1 DEF Result
  <2>2. e \in L
    BY <1>1, <1>3, WayIs
  <2>3. IsNode(t.node[e])
    BY <1>1, <2>2 DEF Linked
  <2>4. IsNode(s.node) /\ SameLinks(t.node[e], s.node)
    BY <2>3, SetDataKeeps
  <2> HIDE DEF s, touched, e
  <2>5. /\ IsTree(b) /\ b.node = t.node /\ b.free = t.free /\ b.nextCreationId = t.nextCreationId
        /\ \A y \in Entries : b.version[y] >= t.version[y]
    BY <1>1, BumpedIs
  <2> HIDE DEF b
  <2> QED
    BY <2>1, <2>2, <2>4, <2>5, PutKeeps
<1> QED
  BY <1>2, <1>3

\* addWatch().
LEMMA AddWatchKeeps ==
  ASSUME NEW t, NEW L, Sound(t, L), NEW path \in Seq(STRING), NEW owner
  PROVE  Keeps(t, L, AddWatch(t, path, owner).tree)
<1> DEFINE w == Walk(t, path)
           e == w[Len(path)]
           touched == {w[i] : i \in 0 .. Len(path) - 1}
           leaf == [Blank(NoName, Invalid, 0) EXCEPT !.watches = <<owner>>]
<1>1. Linked(t, L) /\ IsTree(t)
  BY DEF Sound
<1>2. CASE e = Invalid
  <2>1. AddWatch(t, path, owner).tree = Grown(t, path, leaf).tree
    BY <1>2 DEF AddWatch
  <2>2. IsNode(leaf)
    BY BlankIs, Refilled
  <2> HIDE DEF leaf
  <2> QED
    BY <1>2, <2>1, <2>2, GrownKeeps DEF Keeps
<1>3. CASE e # Invalid
  <2> DEFINE n == t.node[e]
             b == Bumped(t, touched)
             watches == Append(n.watches, owner)
             room == IF n.watches # <<>> THEN n.room
                     ELSE IF Len(n.data) = 1 THEN n.data[1].value ELSE 0
             x == [n EXCEPT !.watches = watches, !.room = room]
  <2>1. AddWatch(t, path, owner).tree = Put(b, e, x)
    <3> HIDE DEF touched
    <3>1. AddWatch(t, path, owner).tree = Result(Put(b, e, x), touched, TRUE).tree
      BY <1>3 DEF AddWatch, Put, touched
    <3> QED
      BY <3>1 DEF Result
  <2>2. e \in L
    BY <1>1, <1>3, WayIs
  <2> HIDE DEF n, e, touched, watches, room
  <2>3. /\ IsTree(b) /\ b.node = t.node /\ b.free = t.free /\ b.nextCreationId = t.nextCreationId
        /\ \A y \in Entries : b.version[y] >= t.version[y]
    BY <1>1, BumpedIs
  <2> HIDE DEF b
  <2>4. IsNode(n)
    BY <1>1, <2>2 DEF Linked, n
  <2>5. IsNode(x) /\ SameLinks(n, x)
    BY <2>4, Refilled
  <2> HIDE DEF x
  <2> QED
    BY <2>1, <2>2, <2>3, <2>5, PutKeeps DEF n
<1> QED
  BY <1>2, <1>3

-----------------------------------------------------------------------------
(* Cutting what nothing needs.                                             *)

\* The nodes that go with w[k]: those from which nothing is needed down to it.
Gone(t, w, k, cut) ==
  {i \in 1 .. k : cut /\ \A j \in i .. k - 1 :
     ~(\/ t.node[w[j]].data # <<>> \/ t.node[w[j]].watches # <<>>
       \/ ~(t.node[w[j]].sub \subseteq {w[j + 1]}))}

PruneGives(t, w, k, cut, gone, u) ==
  /\ IsTree(u) /\ u.version = t.version /\ u.free = t.free
  /\ u.nextCreationId = t.nextCreationId
  /\ cut => k \in gone
  /\ ~cut => gone = {}
  /\ \A e \in Entries : (\A i \in gone \ {k} : e # w[i]) =>
       IF \E i \in gone : e = w[i - 1]
         THEN u.node[e] = Above(t.node[e], t.node[e].sub \ {w[i] : i \in 1 .. k})
         ELSE u.node[e] = t.node[e]

\* Prune changes nodes of the way only, when the removal cut one off.
LEMMA PruneIs ==
  ASSUME NEW t, IsTree(t), NEW w, NEW k \in Nat \ {0}, NEW cut \in BOOLEAN
  PROVE  PruneGives(t, w, k, cut, Gone(t, w, k, cut), Prune(t, w, k, cut))
<1> DEFINE gone == Gone(t, w, k, cut)
           W == {w[i] : i \in 1 .. k}
           a == [e \in Entries |->
                   IF \E i \in gone \ {k} : e = w[i] THEN Dangling
                   ELSE IF \E i \in gone : e = w[i - 1] THEN Above(t.node[e], t.node[e].sub \ W)
                   ELSE t.node[e]]
<1>1. Prune(t, w, k, cut) = WithNode(t, a)
  BY DEF Prune, WithNode, Above, Gone
<1>2. k \in 1 .. k /\ k .. k - 1 = {}
  OBVIOUS
<1>3. (cut => k \in gone) /\ (~cut => gone = {})
  BY <1>2 DEF Gone
<1> HIDE DEF gone, W
<1>4. a = [e \in Entries |-> a[e]]
  OBVIOUS
<1>5. ASSUME NEW e \in Entries, \A i \in gone \ {k} : e # w[i]
      PROVE  IF \E i \in gone : e = w[i - 1]
               THEN a[e] = Above(t.node[e], t.node[e].sub \ W)
               ELSE a[e] = t.node[e]
  BY <1>5
<1> HIDE DEF a
<1>6. t = TreeOf(t.node, t.version, t.free, t.nextCreationId)
  BY DEF IsTree, TreeOf
<1>7. Prune(t, w, k, cut) = TreeOf(a, t.version, t.free, t.nextCreationId)
  BY <1>1, <1>6, Replaced
<1>8. IsTree(TreeOf(a, t.version, t.free, t.nextCreationId))
  BY <1>4 DEF IsTree, TreeOf
<1> QED
  BY <1>3, <1>5, <1>7, <1>8 DEF TreeOf, PruneGives, gone, W

\* v is t without what is in R, but for the way to w[k] when that went.
Without(t, L, R, w, k, cut, v) ==
  /\ IsTree(v) /\ v.nextCreationId = t.nextCreationId /\ FreeApart(v, L \ R)
  /\ R \subseteq L \ {Root}
  /\ \A e \in L \ R :
       /\ IsNode(v.node[e]) /\ v.node[e].name = t.node[e].name
       /\ v.node[e].parent = t.node[e].parent
       /\ v.node[e].creationId = t.node[e].creationId
       /\ v.node[e].sub \subseteq t.node[e].sub
       /\ \A c \in v.node[e].sub \cap R : cut /\ c = w[k]

\* The way to w[k] may have changed when that went, nothing else.
Kept(L, R, w, k, cut, v) == (L \ R) \ {w[i] : i \in Gone(v, w, k, cut) \ {k}}
PrunedGives(L, R, w, k, cut, v, u) ==
  /\ IsTree(u) /\ u.version = v.version
  /\ Kept(L, R, w, k, cut, v) \in SUBSET Entries /\ Sound(u, Kept(L, R, w, k, cut, v))
  /\ \A e \in L : \/ u.node[e] = v.node[e]
                  \/ cut /\ \E i \in 0 .. k - 1 : e = w[i]

\* What Prune leaves is sound: a node that went is named by nothing that stays.
LEMMA Pruned ==
  ASSUME NEW t, NEW L, Sound(t, L), NEW path \in Seq(STRING), Len(path) # 0,
         Walk(t, path)[Len(path)] # Invalid, NEW R, NEW cut \in BOOLEAN, NEW v,
         Without(t, L, R, Walk(t, path), Len(path), cut, v)
  PROVE  PrunedGives(L, R, Walk(t, path), Len(path), cut, v,
                     Prune(v, Walk(t, path), Len(path), cut))
<1> DEFINE w == Walk(t, path)
           k == Len(path)
           u == Prune(v, w, k, cut)
           gone == Gone(v, w, k, cut)
           W == {w[i] : i \in 1 .. k}
           K == (L \ R) \ {w[i] : i \in gone \ {k}}
<1>1. IsTree(t) /\ Linked(t, L)
  BY DEF Sound
<1>2. L \subseteq Entries /\ Root \in L
  BY <1>1 DEF Linked
<1>3. /\ k \in Nat \ {0} /\ \A i \in 0 .. k : w[i] \in L
      /\ \A i \in 1 .. k : w[i] # Invalid => w[i] # Root /\ w[i] \in t.node[w[i - 1]].sub
  BY <1>1, WayIs
<1>4. ASSUME NEW i \in 1 .. k
      PROVE  /\ i - 1 \in 0 .. k - 1 /\ w[i] \in L \ {Root} /\ w[i - 1] \in L
             /\ \A e \in L : w[i] \in t.node[e].sub => e = w[i - 1]
  <2>1. i \in 0 .. k /\ i - 1 \in 0 .. k - 1 /\ i - 1 \in 0 .. k
    BY <1>3
  <2>2. w[i] # Invalid
    BY <1>2, <1>3, <2>1, TableAssumption DEF Entries, Invalid
  <2>3. w[i] # Root /\ w[i] \in t.node[w[i - 1]].sub
    BY <1>3, <2>2
  <2> HIDE DEF w, k
  <2> QED
    BY <1>1, <1>3, <2>1, <2>3 DEF Linked
<1>5. /\ IsTree(u) /\ u.version = v.version /\ u.free = v.free
      /\ u.nextCreationId = v.nextCreationId
      /\ cut => k \in gone
      /\ ~cut => gone = {}
      /\ \A e \in Entries : (\A i \in gone \ {k} : e # w[i]) =>
           IF \E i \in gone : e = w[i - 1]
             THEN u.node[e] = Above(v.node[e], v.node[e].sub \ W)
             ELSE u.node[e] = v.node[e]
  <2>1. IsTree(v)
    BY DEF Without
  <2> HIDE DEF w, k
  <2>2. PruneGives(v, w, k, cut, gone, u)
    BY <1>3, <2>1, PruneIs
  <2> HIDE DEF gone, u
  <2> QED
    BY <2>2 DEF PruneGives
<1>6. gone \subseteq 1 .. k
  BY DEF Gone
<1> HIDE DEF w, k, u, gone
<1>7. /\ IsTree(v) /\ v.nextCreationId = t.nextCreationId /\ FreeApart(v, L \ R)
      /\ R \subseteq L \ {Root}
      /\ \A e \in L \ R :
           /\ IsNode(v.node[e]) /\ v.node[e].name = t.node[e].name
           /\ v.node[e].parent = t.node[e].parent
           /\ v.node[e].creationId = t.node[e].creationId
           /\ v.node[e].sub \subseteq t.node[e].sub
           /\ \A c \in v.node[e].sub \cap R : cut /\ c = w[k]
  BY DEF Without, w, k
<1>8. ASSUME NEW e \in K
      PROVE  /\ IsNode(u.node[e]) /\ u.node[e].name = v.node[e].name
             /\ u.node[e].parent = v.node[e].parent
             /\ u.node[e].creationId = v.node[e].creationId
             /\ u.node[e].sub \subseteq v.node[e].sub
             /\ (\E i \in gone : e = w[i - 1]) => u.node[e].sub \cap W = {}
  <2>1. e \in Entries /\ e \in L \ R /\ \A i \in gone \ {k} : e # w[i]
    BY <1>2
  <2>2. IsNode(v.node[e])
    BY <1>7, <2>1
  <2>3. CASE \E i \in gone : e = w[i - 1]
    <3> DEFINE d == v.node[e].sub \ W
    <3>1. u.node[e] = Above(v.node[e], d)
      BY <1>5, <2>1, <2>3
    <3>2. d \cap W = {} /\ d \subseteq v.node[e].sub
      OBVIOUS
    <3> HIDE DEF d, W, K
    <3> QED
      BY <2>2, <3>1, <3>2, Relinked
  <2>4. CASE ~\E i \in gone : e = w[i - 1]
    <3>1. u.node[e] = v.node[e]
      BY <1>5, <2>1, <2>4
    <3> QED
      BY <2>2, <2>4, <3>1
  <2> QED
    BY <2>3, <2>4
<1>9. K \in SUBSET L /\ Root \in K /\ K \in SUBSET Entries
  BY <1>2, <1>4, <1>6, <1>7
<1>10. ASSUME NEW e \in K, NEW c \in u.node[e].sub  PROVE c \in K /\ c \in t.node[e].sub
  <2>1. e \in L \ R /\ c \in v.node[e].sub /\ c \in t.node[e].sub
    BY <1>7, <1>8
  <2>2. c \in L
    BY <1>1, <2>1 DEF Linked
  <2>3. \A i \in gone : c # w[i]
    <3> SUFFICES ASSUME NEW i \in gone, c = w[i] PROVE FALSE
      OBVIOUS
    <3>1. i \in 1 .. k /\ c \in W
      BY <1>6
    <3>2. e = w[i - 1]
      BY <1>4, <2>1, <3>1
    <3>3. u.node[e].sub \cap W = {}
      BY <1>8, <3>2
    <3> QED
      BY <3>1, <3>3
  <2>4. c \notin R
    <3> SUFFICES ASSUME c \in R PROVE FALSE
      OBVIOUS
    <3>1. cut /\ c = w[k]
      BY <1>7, <2>1
    <3> QED
      BY <1>5, <2>3, <3>1
  <2> QED
    BY <2>1, <2>2, <2>3, <2>4
<1>11. Sound(u, K)
  <2>1. FreeApart(u, K)
    BY <1>5, <1>7 DEF FreeApart
  <2>2. \A e \in K : /\ IsNode(u.node[e])
                     /\ u.node[e].name = t.node[e].name
                     /\ u.node[e].parent = t.node[e].parent
                     /\ u.node[e].creationId = t.node[e].creationId
                     /\ u.node[e].sub \subseteq t.node[e].sub \cap K
    <3>1. \A e \in K : e \in L \ R
      OBVIOUS
    <3> HIDE DEF K
    <3> QED
      BY <1>7, <1>8, <1>10, <3>1
  <2>3. u.nextCreationId = t.nextCreationId
    BY <1>5, <1>7
  <2> HIDE DEF K
  <2> QED
    BY <1>5, <1>9, <2>1, <2>2, <2>3, Thinned
<1>12. ASSUME NEW e \in L
       PROVE  u.node[e] = v.node[e] \/ (cut /\ \E i \in 0 .. k - 1 : e = w[i])
  <2>1. CASE \E i \in gone \ {k} : e = w[i]
    <3>1. PICK i \in gone \ {k} : e = w[i]
      BY <2>1
    <3>2. i \in 0 .. k - 1 /\ cut
      BY <1>3, <1>5, <1>6
    <3> QED
      BY <3>1, <3>2
  <2>2. CASE \E i \in gone : e = w[i - 1]
    <3>1. PICK i \in gone : e = w[i - 1]
      BY <2>2
    <3>2. i - 1 \in 0 .. k - 1 /\ cut
      BY <1>4, <1>5, <1>6
    <3> QED
      BY <3>1, <3>2
  <2>3. CASE ~(\E i \in gone \ {k} : e = w[i]) /\ ~(\E i \in gone : e = w[i - 1])
    BY <1>2, <1>5, <2>3
  <2> QED
    BY <2>1, <2>2, <2>3
<1>13. K = Kept(L, R, w, k, cut, v)
  BY DEF Kept, gone
<1> HIDE DEF K
<1> QED
  BY <1>5, <1>9, <1>11, <1>12, <1>13 DEF PrunedGives, w, k, u

\* A bump changes no link.
LEMMA BumpedSound ==
  ASSUME NEW t, NEW L, Sound(t, L), NEW S
  PROVE  Sound(Bumped(t, S), L)
<1>1. IsTree(t)
  BY DEF Sound
<1>2. LET u == Bumped(t, S)
      IN  /\ IsTree(u) /\ u.node = t.node /\ u.free = t.free
          /\ u.nextCreationId = t.nextCreationId
  BY <1>1, BumpedIs
<1> DEFINE u == Bumped(t, S)
<1> HIDE DEF u
<1>3. IsTree(u) /\ u.node = t.node /\ u.free = t.free /\ u.nextCreationId = t.nextCreationId
  BY <1>2 DEF u
<1>4. Linked(u, L)
  BY <1>3 DEF Sound, Linked
<1>5. ToldApart(u, L) /\ FreeApart(u, L)
  BY <1>3 DEF Sound, ToldApart, FreeApart
<1> QED
  BY <1>3, <1>4, <1>5 DEF Sound, u

\* A step that returns early.
LEMMA NothingDone ==
  ASSUME NEW t, NEW L, Sound(t, L)
  PROVE  Keeps(t, L, t)
<1>1. /\ L \subseteq Entries /\ \A e \in L : Under(t, e) \subseteq L
      /\ \A e \in Entries : t.version[e] \in Nat
  BY UnderIs DEF Sound, Linked, IsTree
<1>2. Told(t, L, t)
  BY <1>1 DEF Told, SameLinks
<1> QED
  BY <1>1, <1>2 DEF Keeps

\* Told, if what is in S is bumped as well.
ToldBut(t, L, v, S) ==
  \A y \in L : /\ v.version[y] >= t.version[y]
               /\ \/ v.version[y] > t.version[y]
                  \/ y \in S
                  \/ \A x \in Under(t, y) : SameLinks(t.node[x], v.node[x])

\* After a removal whoever saw the way to it is told by the bumps of the way.
LEMMA ToldAlong ==
  ASSUME NEW t, NEW L, Sound(t, L), NEW path \in Seq(STRING), Len(path) # 0,
         Walk(t, path)[Len(path)] # Invalid, NEW R, NEW cut \in BOOLEAN, NEW v,
         Without(t, L, R, Walk(t, path), Len(path), cut, v), NEW S,
         ToldBut(t, L, v, S),
         cut => \A i \in 0 .. Len(path) - 1 : Walk(t, path)[i] \in S
  PROVE  Keeps(t, L, Bumped(Prune(v, Walk(t, path), Len(path), cut), S))
<1> DEFINE w == Walk(t, path)
           k == Len(path)
           u == Prune(v, w, k, cut)
           z == Bumped(u, S)
<1>1. IsTree(t) /\ Linked(t, L)
  BY DEF Sound
<1>2. L \subseteq Entries /\ Root \in L /\ \A e \in L : Under(t, e) \subseteq L
  BY <1>1, UnderIs DEF Linked
<1>3. k \in Nat \ {0} /\ \A i \in 0 .. k : w[i] \in L
  BY <1>1, WayIs
<1>4. /\ IsTree(u) /\ u.version = v.version
      /\ \E K \in SUBSET Entries : Sound(u, K)
      /\ \A e \in L : \/ u.node[e] = v.node[e]
                      \/ cut /\ \E i \in 0 .. k - 1 : e = w[i]
  <2>1. PrunedGives(L, R, w, k, cut, v, u)
    BY Pruned
  <2> HIDE DEF w, k, u
  <2> QED
    BY <2>1 DEF PrunedGives
<1>5. \A y \in L, i \in 0 .. k - 1 : w[i] \in Under(t, y) => \E j \in 0 .. i : y = w[j]
  <2> SUFFICES ASSUME NEW y \in L, NEW i \in 0 .. k - 1, w[i] \in Under(t, y)
               PROVE  \E j \in 0 .. i : y = w[j]
    OBVIOUS
  <2>1. i \in 0 .. Len(path) /\ w[i] # Invalid
    BY <1>2, <1>3, TableAssumption DEF Entries, Invalid
  <2> QED
    BY <1>1, <2>1, AboveWay
<1> HIDE DEF w, k, u
<1>6. /\ z.node = u.node
      /\ \A e \in Entries : z.version[e] >= u.version[e] /\ (e \in S => z.version[e] > u.version[e])
      /\ \A e \in Entries : u.version[e] \in Nat /\ t.version[e] \in Nat /\ z.version[e] \in Nat
  <2>1. IsTree(z) /\ z.node = u.node
        /\ \A e \in Entries : z.version[e] >= u.version[e]
                              /\ (e \in S => z.version[e] > u.version[e])
    BY <1>4, BumpedIs
  <2> HIDE DEF z
  <2> QED
    BY <1>1, <1>4, <2>1 DEF IsTree
<1>7. \E K \in SUBSET Entries : Sound(z, K)
  BY <1>4, BumpedSound
<1> HIDE DEF z
<1>8. ASSUME NEW y \in L
      PROVE  \/ z.version[y] > t.version[y]
             \/ /\ z.version[y] >= t.version[y]
                /\ \A x \in Under(t, y) : SameLinks(t.node[x], z.node[x])
  <2>1. /\ u.version[y] >= t.version[y]
        /\ \/ u.version[y] > t.version[y]
           \/ y \in S
           \/ \A x \in Under(t, y) : SameLinks(t.node[x], v.node[x])
    BY <1>4 DEF ToldBut
  <2>2. /\ z.version[y] >= u.version[y] /\ (y \in S => z.version[y] > u.version[y])
        /\ u.version[y] \in Nat /\ t.version[y] \in Nat /\ z.version[y] \in Nat
    BY <1>2, <1>6
  <2>3. CASE y \in S \/ u.version[y] > t.version[y]
    BY <2>1, <2>2, <2>3
  <2>4. CASE ~(y \in S \/ u.version[y] > t.version[y])
    <3>1. ASSUME NEW x \in Under(t, y)  PROVE u.node[x] = v.node[x]
      <4> SUFFICES ASSUME u.node[x] # v.node[x] PROVE FALSE
        OBVIOUS
      <4>1. x \in L
        BY <1>2
      <4>2. PICK i \in 0 .. k - 1 : cut /\ x = w[i]
        BY <1>4, <4>1
      <4>3. PICK j \in 0 .. i : y = w[j]
        BY <1>5, <4>2
      <4>4. j \in 0 .. k - 1
        BY <1>3
      <4>5. w[j] \in S
        BY <4>2, <4>4 DEF w, k
      <4> QED
        BY <2>4, <4>3, <4>5
    <3> QED
      BY <1>6, <2>1, <2>2, <2>4, <3>1
  <2> QED
    BY <2>3, <2>4
<1> QED
  BY <1>7, <1>8 DEF Keeps, Told, z, u, w, k

\* remWatch().
LEMMA RemWatchKeeps ==
  ASSUME NEW t, NEW L, Sound(t, L), NEW path \in Seq(STRING), NEW owner
  PROVE  Keeps(t, L, RemWatch(t, path, owner).tree)
<1> DEFINE w == Walk(t, path)
           k == Len(path)
           e == w[k]
           n == [t.node[e] EXCEPT !.watches = WithoutWatch(@, owner)]
           t1 == Put(t, e, n)
           cut == ~Valid(n)
           touched == IF cut THEN {w[i] : i \in 0 .. k - 1} ELSE {w[k - 1]}
           none == e = Invalid \/ owner \notin ToSet(t.node[e].watches)
<1>1. IsTree(t) /\ Linked(t, L)
  BY DEF Sound
<1>2. RemWatch(t, path, owner).tree =
        IF none THEN t ELSE IF k = 0 THEN t1 ELSE Bumped(Prune(t1, w, k, cut), touched)
  <2>1. RemWatch(t, path, owner) =
          IF none THEN Result(t, {}, FALSE)
          ELSE IF k = 0 THEN Result(t1, {}, TRUE)
          ELSE Result(Bumped(Prune(t1, w, k, cut), touched), touched, cut)
    BY DEF RemWatch, Put
  <2> HIDE DEF none, t1, w, cut, touched
  <2> QED
    BY <2>1 DEF Result
<1>3. CASE none
  BY <1>2, <1>3, NothingDone
<1>4. CASE ~none
  <2>1. e \in L /\ e # Invalid
    BY <1>1, <1>4, WayIs
  <2>2. IsNode(n) /\ SameLinks(t.node[e], n)
    <3> DEFINE z == WithoutWatch(t.node[e].watches, owner)
    <3>1. n = [t.node[e] EXCEPT !.watches = z]
      OBVIOUS
    <3>2. IsNode(t.node[e])
      BY <1>1, <2>1 DEF Linked
    <3> HIDE DEF z, n, e
    <3> QED
      BY <3>1, <3>2, Refilled
  <2>3. \A y \in Entries : t.version[y] >= t.version[y] /\ t.version[y] \in Nat
    BY <1>1 DEF IsTree
  <2>4. /\ Sound(t1, L) /\ t1.version = t.version /\ Keeps(t, L, t1)
        /\ \A y \in L : IsNode(t1.node[y]) /\ SameLinks(t.node[y], t1.node[y])
    <3> HIDE DEF n, e
    <3> QED
      BY <1>1, <2>1, <2>2, <2>3, PutKeeps
  <2>5. t1.nextCreationId = t.nextCreationId
    <3>1. e \in Entries
      BY <1>1, <2>1 DEF Linked
    <3> HIDE DEF n, e
    <3> QED
      BY <1>1, <3>1, PutIs
  <2> HIDE DEF t1, none
  <2>6. CASE k = 0
    BY <1>2, <1>4, <2>4, <2>6
  <2>7. CASE k # 0
    <3>1. cut \in BOOLEAN /\ (cut => \A i \in 0 .. k - 1 : w[i] \in touched)
      OBVIOUS
    <3> HIDE DEF cut, touched
    <3>2. Without(t, L, {}, w, k, cut, t1)
      <4>1. L \ {} = L
        OBVIOUS
      <4> QED
        BY <2>4, <2>5, <4>1 DEF Without, Sound, SameLinks
    <3>3. ToldBut(t, L, t1, touched)
      <4>1. \A y \in L : y \in Entries /\ Under(t, y) \subseteq L
        BY <1>1, UnderIs DEF Linked
      <4> QED
        BY <2>3, <2>4, <4>1 DEF ToldBut
    <3>4. Keeps(t, L, Bumped(Prune(t1, w, k, cut), touched))
      BY <2>1, <2>7, <3>1, <3>2, <3>3, ToldAlong
    <3> QED
      BY <1>2, <1>4, <2>7, <3>4
  <2> QED
    BY <2>6, <2>7
<1> QED
  BY <1>3, <1>4

-----------------------------------------------------------------------------
(* Removing a subtree.                                                     *)

\* Nothing that is under e is under a node that is neither above nor under e.
LEMMA Disjoint ==
  ASSUME NEW t, NEW L, Linked(t, L), NEW e \in L, NEW y \in L,
         e \notin Under(t, y), y \notin Under(t, e)
  PROVE  Under(t, e) \cap Under(t, y) = {}
<1> DEFINE S == Under(t, e)
           U == Under(t, y)
           C == S \ U
<1>1. /\ S \subseteq L /\ e \in S /\ \A x \in S : t.node[x].sub \subseteq S
      /\ \A D : e \in D /\ (\A x \in D \cap L : t.node[x].sub \subseteq D) => S \subseteq D
  BY UnderIs
<1>2. U \subseteq L /\ \A x \in U \ {y} : \E p \in U : x \in t.node[p].sub
  BY UnderIs
<1>3. \A x, p \in L : \A c \in t.node[x].sub : c \in t.node[p].sub => p = x
  BY DEF Linked
<1> HIDE DEF S, U
<1>4. e \in C
  BY <1>1 DEF S, U
<1>5. ASSUME NEW x \in C \cap L, NEW c \in t.node[x].sub  PROVE c \in C
  <2>1. c \in S /\ c # y
    BY <1>1 DEF S
  <2>2. c \notin U
    BY <1>2, <1>3, <2>1
  <2> QED
    BY <2>1, <2>2
<1>6. S \subseteq C
  BY <1>1, <1>4, <1>5
<1> QED
  BY <1>6 DEF S, U

\* The tree without R, but that the node above e may still name it.
RemoveGives(t, L, e, v, R) ==
  /\ IsTree(v) /\ v.nextCreationId = t.nextCreationId /\ FreeApart(v, L \ R)
  /\ R \subseteq Under(t, e) \ {Root}
  /\ \A x \in L \ R :
       /\ IsNode(v.node[x]) /\ v.node[x].name = t.node[x].name
       /\ v.node[x].parent = t.node[x].parent
       /\ v.node[x].creationId = t.node[x].creationId
       /\ v.node[x].sub \subseteq t.node[x].sub
       /\ \A c \in v.node[x].sub \cap R : c = e
  /\ \A y \in L :
       /\ v.version[y] >= t.version[y]
       /\ \/ v.version[y] > t.version[y]
          \/ R # {} /\ e \in Under(t, y) /\ y \notin Under(t, e)
          \/ \A x \in Under(t, y) : SameLinks(t.node[x], v.node[x])

\* What is removed is bare with all below; what stays under e is stripped.
RemoveLeaves(t, L, e, owner, v, R) ==
  /\ R = {x \in Under(t, e) \ {Root} : \A y \in Under(t, x) :
            LET n == Stripped(t.node[y], owner).node IN n.data = <<>> /\ n.watches = <<>>}
  /\ \A x \in L \ R :
       /\ t.node[x].sub \subseteq v.node[x].sub \cup R
       /\ x \in Under(t, e) => SameContents(Stripped(t.node[x], owner).node, v.node[x])
       /\ x \notin Under(t, e) => v.node[x] = t.node[x]

\* removeRecur(): what went is on the free list once, and nothing below names it.
LEMMA RemoveUnderIs ==
  ASSUME NEW t, NEW L, Sound(t, L), NEW e \in L, NEW owner
  PROVE  LET r == RemoveUnder(t, e, owner)
         IN  /\ RemoveGives(t, L, e, r.tree, r.removed)
             /\ RemoveLeaves(t, L, e, owner, r.tree, r.removed)
<1> DEFINE S == Under(t, e)
           s == [x \in S |-> Stripped(t.node[x], owner)]
           Bare(x) == s[x].node.data = <<>> /\ s[x].node.watches = <<>>
           R == {x \in S \ {Root} : \A y \in Under(t, x) : Bare(y)}
           touched == {x \in S : s[x].moved \/ Under(t, x) \cap R # {}}
           b == Bumped(t, touched)
           node == [x \in Entries |->
                      IF x \in R THEN Freed
                      ELSE IF x \in S THEN Above(s[x].node, s[x].node.sub \ R)
                      ELSE t.node[x]]
           free == HandedBack(t, R) \o t.free
           v == TreeOf(node, b.version, free, t.nextCreationId)
<1>1. IsTree(t) /\ Linked(t, L) /\ FreeApart(t, L)
  BY DEF Sound
<1>2. L \subseteq Entries /\ \A x \in L : IsNode(t.node[x]) /\ t.node[x].sub \subseteq L
  BY <1>1 DEF Linked
<1>3. /\ S \subseteq L /\ e \in S /\ \A x \in S : t.node[x].sub \subseteq S
      /\ \A x \in S \ {e} : \E p \in S : x \in t.node[p].sub
  BY <1>1, UnderIs
<1>4. /\ IsTree(b) /\ b.node = t.node /\ b.free = t.free /\ b.nextCreationId = t.nextCreationId
      /\ \A x \in Entries : /\ b.version[x] >= t.version[x]
                            /\ x \in touched => b.version[x] > t.version[x]
  <2> HIDE DEF touched
  <2> QED
    BY <1>1, BumpedIs
<1>5. RemoveUnder(t, e, owner).removed = R /\ RemoveUnder(t, e, owner).tree = v
  <2> DEFINE node2 == [x \in Entries |->
                         IF x \in R THEN Freed
                         ELSE IF x \in S THEN [s[x].node EXCEPT !.sub = @ \ R]
                         ELSE b.node[x]]
  <2>1. RemoveUnder(t, e, owner) =
          [tree |-> WithNodeFree(b, node2, HandedBack(t, R) \o b.free),
           bumped |-> touched, removed |-> R]
    BY DEF RemoveUnder, WithNodeFree
  <2>2. node2 = node
    <3> HIDE DEF R, s, S, b
    <3>1. \A x \in Entries : node2[x] = node[x]
      BY <1>4 DEF Above
    <3> HIDE DEF node, node2
    <3>2. node2 = [x \in Entries |-> node2[x]] /\ node = [x \in Entries |-> node[x]]
      BY DEF node, node2
    <3> QED
      BY <3>1, <3>2
  <2>3. b = TreeOf(b.node, b.version, b.free, b.nextCreationId)
    BY <1>4 DEF IsTree, TreeOf
  <2> HIDE DEF b, node, node2, touched, R
  <2>4. WithNodeFree(b, node, free) = v
    BY <1>4, <2>3, Replaced
  <2> HIDE DEF free, v
  <2>5. HandedBack(t, R) \o b.free = free
    BY <1>4 DEF free
  <2> QED
    BY <2>1, <2>2, <2>4, <2>5
<1>6. R \subseteq S \ {Root} /\ R \in SUBSET L
  BY <1>3
<1>7. \A x \in S : Under(t, x) \cap R # {} => x \in touched
  OBVIOUS
<1>8. \A x \in S : s[x].node = Stripped(t.node[x], owner).node
  OBVIOUS
<1>16. R = {x \in Under(t, e) \ {Root} : \A y \in Under(t, x) :
              LET n == Stripped(t.node[y], owner).node IN n.data = <<>> /\ n.watches = <<>>}
  <2> DEFINE bare(n) == n.data = <<>> /\ n.watches = <<>>
  <2>1. \A x \in S : Under(t, x) \subseteq S
    <3> SUFFICES ASSUME NEW x \in S PROVE Under(t, x) \subseteq S
      OBVIOUS
    <3>1. \A C : x \in C /\ (\A y \in C \cap L : t.node[y].sub \subseteq C) =>
                   Under(t, x) \subseteq C
      BY <1>1, <1>3, UnderIs
    <3> HIDE DEF S
    <3> QED
      BY <1>3, <3>1
  <2>2. R = {x \in S \ {Root} : \A y \in Under(t, x) : bare(s[y].node)}
    OBVIOUS
  <2>3. \A x \in S : \A y \in Under(t, x) :
          bare(s[y].node) <=> bare(Stripped(t.node[y], owner).node)
    <3> HIDE DEF S, s, bare
    <3> QED
      BY <1>8, <2>1
  <2>4. R = {x \in S \ {Root} : \A y \in Under(t, x) : bare(Stripped(t.node[y], owner).node)}
    <3> HIDE DEF S, s, bare, R
    <3> QED
      BY <2>2, <2>3
  <2> QED
    BY <2>4
<1> HIDE DEF R, touched, b, s, S
<1>9. ASSUME NEW x \in L \ R
      PROVE  /\ IsNode(node[x]) /\ node[x].name = t.node[x].name
             /\ node[x].parent = t.node[x].parent
             /\ node[x].creationId = t.node[x].creationId
             /\ x \in S => node[x].sub = t.node[x].sub \ R
             /\ x \in S => SameContents(Stripped(t.node[x], owner).node, node[x])
             /\ x \notin S => node[x] = t.node[x]
  <2>1. x \in Entries /\ IsNode(t.node[x])
    BY <1>2
  <2>2. CASE x \in S
    <3> DEFINE n == s[x].node
               d == n.sub \ R
    <3>1. node[x] = Above(n, d)
      BY <2>1, <2>2
    <3>2. IsNode(n) /\ SameLinks(t.node[x], n)
      BY <1>8, <2>1, <2>2, StrippedKeeps
    <3>3. d = t.node[x].sub \ R
      BY <3>2 DEF SameLinks
    <3> HIDE DEF n, d, node
    <3>4. /\ IsNode(node[x]) /\ node[x].name = n.name /\ node[x].parent = n.parent
          /\ node[x].creationId = n.creationId /\ node[x].sub = d
          /\ SameContents(n, node[x])
      BY <3>1, <3>2, Relinked
    <3>5. SameContents(Stripped(t.node[x], owner).node, node[x])
      BY <1>8, <2>2, <3>4 DEF n
    <3> QED
      BY <2>2, <3>2, <3>3, <3>4, <3>5 DEF SameLinks
  <2>3. CASE x \notin S
    <3>1. node[x] = t.node[x]
      BY <2>1, <2>3
    <3> HIDE DEF node
    <3> QED
      BY <2>1, <2>3, <3>1
  <2> QED
    BY <2>2, <2>3
<1>10. node = [x \in Entries |-> node[x]]
  OBVIOUS
<1> HIDE DEF node
<1>11. /\ free \in Seq(Entries \ {Root}) /\ IsInjective(free)
       /\ ToSet(free) \cap (L \ R) = {}
  <2> DEFINE h == HandedBack(t, R)
             X == Entries \ {Root}
  <2>1. /\ h \in Seq(R) /\ Len(h) = Cardinality(R)
        /\ \A i, j \in 1 .. Cardinality(R) : h[i] = h[j] => i = j
    BY <1>1, <1>6, HandedBackIs
  <2>2. \A i \in 1 .. Len(h) : h[i] \in R
    BY <2>1, ElementOfSeq
  <2>3. h \in Seq(X)
    <3>1. R \subseteq X
      BY <1>2, <1>6
    <3> HIDE DEF h, X
    <3> QED
      BY <2>1, <3>1
  <2>4. t.free \in Seq(X) /\ IsInjective(t.free) /\ ToSet(t.free) \cap L = {}
    BY <1>1 DEF IsTree, FreeApart
  <2> HIDE DEF h, X
  <2>5. \A i \in 1 .. Len(h) : h[i] \notin ToSet(t.free)
    BY <1>6, <2>2, <2>4
  <2>6. \A i, j \in 1 .. Len(h) : h[i] = h[j] => i = j
    BY <2>1
  <2>7. /\ h \o t.free \in Seq(X) /\ IsInjective(h \o t.free)
        /\ \A x \in ToSet(h \o t.free) : x \in ToSet(t.free) \/ \E i \in 1 .. Len(h) : x = h[i]
    BY <2>3, <2>4, <2>5, <2>6, Joined
  <2>8. \A x \in ToSet(h \o t.free) : x \notin L \ R
    BY <2>2, <2>4, <2>7
  <2> QED
    BY <2>7, <2>8 DEF h, X
<1> HIDE DEF free
<1>12. /\ IsTree(v) /\ v.nextCreationId = t.nextCreationId /\ FreeApart(v, L \ R)
       /\ v.node = node /\ v.version = b.version
  BY <1>1, <1>4, <1>10, <1>11 DEF IsTree, FreeApart, TreeOf
<1> HIDE DEF v
<1>13. ASSUME NEW x \in L \ R
       PROVE  node[x].sub \subseteq t.node[x].sub /\ \A c \in node[x].sub \cap R : c = e
  <2>1. CASE x \in S
    BY <1>9, <2>1
  <2>2. CASE x \notin S
    <3>1. node[x].sub = t.node[x].sub
      BY <1>9, <2>2
    <3>2. ASSUME NEW c \in t.node[x].sub, c \in S, c # e  PROVE FALSE
      <4>1. PICK p \in S : c \in t.node[p].sub
        BY <1>3, <3>2
      <4>2. p = x
        BY <1>1, <1>3, <3>2, <4>1 DEF Linked
      <4> QED
        BY <2>2, <4>2
    <3> QED
      BY <1>6, <3>1, <3>2
  <2> QED
    BY <2>1, <2>2
<1>14. ASSUME NEW y \in L
       PROVE  /\ b.version[y] >= t.version[y]
              /\ \/ b.version[y] > t.version[y]
                 \/ R # {} /\ e \in Under(t, y) /\ y \notin S
                 \/ \A x \in Under(t, y) : SameLinks(t.node[x], node[x])
  <2>1. /\ y \in Entries /\ Under(t, y) \subseteq L
        /\ \A x \in Under(t, y) : t.node[x].sub \subseteq Under(t, y)
    BY <1>1, <1>2, UnderIs
  <2>2. b.version[y] >= t.version[y] /\ (y \in touched => b.version[y] > t.version[y])
    BY <1>4, <2>1
  <2>3. ASSUME Under(t, y) \cap R = {}  PROVE \A x \in Under(t, y) : SameLinks(t.node[x], node[x])
    <3> SUFFICES ASSUME NEW x \in Under(t, y) PROVE SameLinks(t.node[x], node[x])
      OBVIOUS
    <3>1. x \in L \ R /\ t.node[x].sub \ R = t.node[x].sub
      BY <2>1, <2>3
    <3> QED
      BY <1>9, <3>1 DEF SameLinks
  <2>4. CASE y \in S
    BY <1>7, <2>2, <2>3, <2>4
  <2>5. CASE y \notin S /\ e \notin Under(t, y)
    <3>1. Under(t, y) \cap R = {}
      BY <1>1, <1>6, <2>5, Disjoint DEF S
    <3> QED
      BY <2>2, <2>3, <3>1
  <2>6. CASE y \notin S /\ e \in Under(t, y)
    BY <2>2, <2>3, <2>6
  <2> QED
    BY <2>4, <2>5, <2>6
<1>15. RemoveGives(t, L, e, v, R)
  BY <1>6, <1>9, <1>12, <1>13, <1>14 DEF RemoveGives, S
<1>17. RemoveLeaves(t, L, e, owner, v, R)
  <2>1. \A x \in L \ R : t.node[x].sub \subseteq v.node[x].sub \cup R
    <3> SUFFICES ASSUME NEW x \in L \ R PROVE t.node[x].sub \subseteq node[x].sub \cup R
      BY <1>12
    <3>1. node[x].sub = t.node[x].sub \ R \/ node[x] = t.node[x]
      BY <1>9
    <3> QED
      BY <3>1
  <2> QED
    BY <1>9, <1>12, <1>16, <2>1 DEF RemoveLeaves, S
<1> QED
  BY <1>5, <1>15, <1>17

\* remove().
LEMMA RemoveItemsKeeps ==
  ASSUME NEW t, NEW L, Sound(t, L), NEW path \in Seq(STRING), NEW owner
  PROVE  Keeps(t, L, RemoveItems(t, path, owner).tree)
<1> DEFINE w == Walk(t, path)
           k == Len(path)
           e == w[k]
           r == RemoveUnder(t, e, owner)
           v == r.tree
           R == r.removed
           touched == IF R = {} THEN {} ELSE {w[i] : i \in 0 .. k - 1}
           cut == e \in R
<1>1. IsTree(t) /\ Linked(t, L)
  BY DEF Sound
<1>2. RemoveItems(t, path, owner).tree =
        IF e = Invalid THEN t
        ELSE Bumped(IF k = 0 THEN v ELSE Prune(v, w, k, cut), touched)
  <2>1. RemoveItems(t, path, owner) =
          IF e = Invalid THEN Result(t, {}, FALSE)
          ELSE Result(Bumped(IF k = 0 THEN v ELSE Prune(v, w, k, cut), touched),
                      r.bumped \cup touched, R # {})
    BY DEF RemoveItems
  <2> HIDE DEF v, w, cut, touched, e
  <2> QED
    BY <2>1 DEF Result
<1>3. CASE e = Invalid
  BY <1>2, <1>3, NothingDone
<1>4. CASE e # Invalid
  <2>1. e \in L /\ k \in Nat /\ w[0] = Root
    BY <1>1, <1>4, WayIs
  <2>2. RemoveGives(t, L, e, v, R)
    <3> HIDE DEF e
    <3> QED
      BY <2>1, RemoveUnderIs
  <2>3. \A y \in L : e \in Under(t, y) => \E i \in 0 .. k : y = w[i]
    <3> SUFFICES ASSUME NEW y \in L, w[k] \in Under(t, y) PROVE \E i \in 0 .. k : y = w[i]
      OBVIOUS
    <3>1. k \in 0 .. k
      BY <2>1
    <3> QED
      BY <1>1, <1>4, <3>1, AboveWay
  <2>4. e \in Under(t, e) /\ L \subseteq Entries /\ Root \in L /\ Under(t, e) \subseteq L
    <3>1. L \subseteq Entries /\ Root \in L
      BY <1>1 DEF Linked
    <3> HIDE DEF e
    <3> QED
      BY <1>1, <2>1, <3>1, UnderIs
  <2>5. \A y \in Entries : t.version[y] \in Nat
    BY <1>1 DEF IsTree
  <2>6. e = w[k]
    OBVIOUS
  <2> HIDE DEF w, k, v, R, e
  <2>7. /\ IsTree(v) /\ v.nextCreationId = t.nextCreationId /\ FreeApart(v, L \ R)
        /\ R \subseteq L \ {Root}
        /\ \A x \in L \ R :
             /\ IsNode(v.node[x]) /\ v.node[x].name = t.node[x].name
             /\ v.node[x].parent = t.node[x].parent
             /\ v.node[x].creationId = t.node[x].creationId
             /\ v.node[x].sub \subseteq t.node[x].sub
             /\ \A c \in v.node[x].sub \cap R : c = e
    BY <2>2, <2>4 DEF RemoveGives
  <2>8. ASSUME NEW y \in L
        PROVE  /\ v.version[y] >= t.version[y]
               /\ \/ v.version[y] > t.version[y]
                  \/ y \in touched
                  \/ \A x \in Under(t, y) : SameLinks(t.node[x], v.node[x])
    <3>1. /\ v.version[y] >= t.version[y]
          /\ \/ v.version[y] > t.version[y]
             \/ R # {} /\ e \in Under(t, y) /\ y \notin Under(t, e)
             \/ \A x \in Under(t, y) : SameLinks(t.node[x], v.node[x])
      BY <2>2 DEF RemoveGives
    <3>2. ASSUME R # {}, e \in Under(t, y), y \notin Under(t, e)  PROVE y \in touched
      <4>1. PICK i \in 0 .. k : y = w[i]
        BY <2>3, <3>2
      <4>2. i # k
        BY <2>4, <2>6, <3>2, <4>1
      <4>3. i \in 0 .. k - 1
        BY <2>1, <4>2
      <4> QED
        BY <3>2, <4>1, <4>3
    <3> QED
      BY <3>1, <3>2
  <2>9. ToldBut(t, L, v, touched)
    BY <2>8 DEF ToldBut
  <2>10. CASE k # 0
    <3>1. cut \in BOOLEAN /\ (cut => \A i \in 0 .. k - 1 : w[i] \in touched)
      OBVIOUS
    <3>2. \A x \in L \ R : \A c \in v.node[x].sub \cap R : cut /\ c = w[k]
      BY <2>6, <2>7
    <3> HIDE DEF cut, touched
    <3>3. Without(t, L, R, w, k, cut, v)
      BY <2>7, <3>2 DEF Without
    <3>4. Keeps(t, L, Bumped(Prune(v, w, k, cut), touched))
      BY <1>4, <2>6, <2>9, <2>10, <3>1, <3>3, ToldAlong DEF w, k
    <3> QED
      BY <1>2, <1>4, <2>10, <3>4
  <2>11. CASE k = 0
    <3> DEFINE z == Bumped(v, touched)
               K == L \ R
    <3>1. e = Root
      BY <2>1, <2>6, <2>11
    <3>2. touched = {}
      <4>1. 0 .. k - 1 = {}
        BY <2>11
      <4> QED
        BY <4>1
    <3>3. Sound(v, K)
      <4>1. ASSUME NEW x \in K
            PROVE  v.node[x].sub \subseteq t.node[x].sub \cap K
        <5>1. t.node[x].sub \subseteq L
          BY <1>1 DEF Linked
        <5> QED
          BY <2>7, <3>1, <5>1
      <4>2. \A x \in K : /\ IsNode(v.node[x]) /\ v.node[x].name = t.node[x].name
                         /\ v.node[x].parent = t.node[x].parent
                         /\ v.node[x].creationId = t.node[x].creationId
        BY <2>7
      <4>3. K \in SUBSET L /\ Root \in K /\ FreeApart(v, K)
        BY <2>4, <2>7
      <4> HIDE DEF K
      <4> QED
        BY <2>7, <4>1, <4>2, <4>3, Thinned
    <3>4. IsTree(z) /\ z.node = v.node /\ \A y \in Entries : z.version[y] >= v.version[y]
      <4> HIDE DEF touched
      <4> QED
        BY <2>7, BumpedIs
    <3>5. Sound(z, K)
      <4> HIDE DEF K, touched
      <4> QED
        BY <3>3, BumpedSound
    <3>6. \A y \in Entries : v.version[y] \in Nat /\ z.version[y] \in Nat
      <4> HIDE DEF z
      <4> QED
        BY <2>7, <3>4 DEF IsTree
    <3>7. Told(t, L, z)
      <4> SUFFICES ASSUME NEW y \in L
                   PROVE  \/ z.version[y] > t.version[y]
                          \/ /\ z.version[y] >= t.version[y]
                             /\ \A x \in Under(t, y) : SameLinks(t.node[x], z.node[x])
        BY DEF Told
      <4>1. y \in Entries
        BY <2>4
      <4>2. /\ v.version[y] >= t.version[y]
            /\ \/ v.version[y] > t.version[y]
               \/ \A x \in Under(t, y) : SameLinks(t.node[x], v.node[x])
        BY <2>8, <3>2
      <4> HIDE DEF z
      <4> QED
        BY <2>5, <3>4, <3>6, <4>1, <4>2
    <3>8. K \in SUBSET Entries
      BY <2>4
    <3>9. Keeps(t, L, z)
      <4> HIDE DEF z, K
      <4> QED
        BY <3>5, <3>7, <3>8 DEF Keeps
    <3> HIDE DEF touched, cut
    <3> QED
      BY <1>2, <1>4, <2>11, <3>9
  <2> QED
    BY <2>10, <2>11
<1> QED
  BY <1>3, <1>4

-----------------------------------------------------------------------------
(* The tree of the server.                                                 *)

Inv == \E L \in SUBSET Entries : Sound(tree, L)

\* The new tree is sound.
LEMMA InitInv ==
  ASSUME Init
  PROVE  Inv
<1> DEFINE L == {Root}
           node == [e \in Entries |-> IF e = Root THEN Blank(NoName, Invalid, 0) ELSE Freed]
           version == [e \in Entries |-> IF e = Root THEN 1 ELSE 0]
<1>1. Root \in Entries /\ Entries \subseteq Int /\ TableSize \in Nat \ {0}
  BY TableAssumption DEF Entries, Root
<1>2. tree = TreeOf(node, version, FreeEntries, 1)
  BY DEF Init, EmptyTree, TreeOf
<1>3. node = [e \in Entries |-> node[e]] /\ node[Root] = Blank(NoName, Invalid, 0)
      /\ version \in [Entries -> Nat]
  BY <1>1
<1> HIDE DEF node, version
<1>4. IsNode(node[Root]) /\ node[Root].sub = {} /\ node[Root].parent = Invalid
      /\ node[Root].creationId = 0
  <2> DEFINE n == Blank(NoName, Invalid, 0)
             q == NoName
  <2>1. IsNode(n)
    BY BlankIs
  <2> HIDE DEF q
  <2>2. n.sub = {} /\ n.parent = Invalid /\ n.creationId = 0
    BY DEF Blank
  <2> HIDE DEF n
  <2> QED
    BY <1>3, <2>1, <2>2 DEF n
<1>5. /\ FreeEntries \in Seq(Entries \ {Root}) /\ IsInjective(FreeEntries)
      /\ Root \notin ToSet(FreeEntries)
  <2>1. \A i \in 1 .. TableSize - 1 : i \in Entries \ {Root}
    BY <1>1 DEF Entries, Root
  <2>2. FreeEntries \in [1 .. TableSize - 1 -> Entries \ {Root}] /\ TableSize - 1 \in Nat
    BY <1>1, <2>1 DEF FreeEntries
  <2>3. DOMAIN FreeEntries = 1 .. TableSize - 1 /\ \A i \in 1 .. TableSize - 1 : FreeEntries[i] = i
    BY DEF FreeEntries
  <2> QED
    BY <2>1, <2>2, <2>3, SeqDef DEF IsInjective, ToSet
<1>6. IsTree(tree)
  BY <1>2, <1>3, <1>5 DEF IsTree, TreeOf
<1>7. tree.node = node /\ tree.free = FreeEntries /\ tree.nextCreationId = 1
  BY <1>2 DEF TreeOf
<1>8. Linked(tree, L)
  BY <1>1, <1>4, <1>7 DEF Linked
<1>9. ToldApart(tree, L)
  BY <1>4, <1>7 DEF ToldApart
<1>10. FreeApart(tree, L)
  BY <1>5, <1>7 DEF FreeApart
<1>11. L \in SUBSET Entries
  BY <1>1
<1> QED
  BY <1>6, <1>8, <1>9, <1>10, <1>11 DEF Inv, Sound

\* A step is one of the four operations.
LEMMA StepKeeps ==
  ASSUME NEW L, Sound(tree, L), Next
  PROVE  Keeps(tree, L, tree')
<1>1. ASSUME NEW x \in Publish, NEW v \in Values, SetItem(x[1], x[2], v)
      PROVE  Keeps(tree, L, tree')
  <2>1. x[2] \in Seq(STRING) /\ tree' = Insert(tree, x[2], x[1], v).tree
    BY <1>1, PathsAssumption DEF SetItem
  <2> QED
    BY <2>1, InsertKeeps
<1>2. ASSUME NEW x \in Publish \cup Watch, RemItems(x[1], x[2])
      PROVE  Keeps(tree, L, tree')
  <2>1. x[2] \in Seq(STRING) /\ tree' = RemoveItems(tree, x[2], x[1]).tree
    BY <1>2, PathsAssumption DEF RemItems
  <2> QED
    BY <2>1, RemoveItemsKeeps
<1>3. ASSUME NEW x \in Watch, SetWatch(x[1], x[2])
      PROVE  Keeps(tree, L, tree')
  <2>1. x[2] \in Seq(STRING) /\ tree' = AddWatch(tree, x[2], x[1]).tree
    BY <1>3, PathsAssumption DEF SetWatch
  <2> QED
    BY <2>1, AddWatchKeeps
<1>4. ASSUME NEW x \in Watch, DropWatch(x[1], x[2])
      PROVE  Keeps(tree, L, tree')
  <2>1. x[2] \in Seq(STRING) /\ tree' = RemWatch(tree, x[2], x[1]).tree
    BY <1>4, PathsAssumption DEF DropWatch
  <2> QED
    BY <2>1, RemWatchKeeps
<1>5. ASSUME NEW o \in Owners, Disconnect(o.client)
      PROVE  Keeps(tree, L, tree')
  <2> DEFINE r == [client |-> o.client, publisher |-> Everyone]
  <2>1. tree' = RemoveItems(tree, <<>>, r).tree
    BY <1>5 DEF Disconnect
  <2>2. <<>> \in Seq(STRING)
    OBVIOUS
  <2> HIDE DEF r
  <2> QED
    BY <2>1, <2>2, RemoveItemsKeeps
<1> QED
  BY <1>1, <1>2, <1>3, <1>4, <1>5 DEF Next

\* Every step leaves a sound tree.
LEMMA NextInv ==
  ASSUME Inv, [Next]_tree
  PROVE  Inv'
<1>1. PICK L \in SUBSET Entries : Sound(tree, L)
  BY DEF Inv
<1>2. CASE Next
  <2>1. Keeps(tree, L, tree')
    BY <1>1, <1>2, StepKeeps
  <2>2. \E K \in SUBSET Entries : Sound(tree', K)
    BY <2>1 DEF Keeps
  <2> QED
    BY <2>2 DEF Inv
<1>3. CASE UNCHANGED tree
  BY <1>3 DEF Inv
<1> QED
  BY <1>2, <1>3

\* The tree is always sound for some set of entries, however the operations of
\* publishers and clients follow on each other.
THEOREM SoundAlways == Spec => []Inv
<1>1. Init => Inv
  BY InitInv
<1>2. Inv /\ [Next]_tree => Inv'
  BY NextInv
<1> QED
  BY <1>1, <1>2, PTL DEF Spec

\* What soundness means for what can be reached.
LEMMA SoundGives ==
  ASSUME NEW L, Sound(tree, L)
  PROVE  TypeOK /\ FreeListSound /\ LinksConsistent
<1>1. IsTree(tree) /\ Linked(tree, L) /\ ToldApart(tree, L) /\ FreeApart(tree, L)
  BY DEF Sound
<1>2. Reachable(tree) \subseteq L
  BY <1>1, UnderIs DEF Reachable, Linked
<1>3. \A e \in L : Live(tree, e)
  <2> SUFFICES ASSUME NEW e \in L PROVE Live(tree, e)
    OBVIOUS
  <2> DEFINE n == tree.node[e]
  <2>1. IsNode(n)
    BY <1>1 DEF Linked
  <2> HIDE DEF n
  <2>2. "name" \in DOMAIN n /\ "name" \notin DOMAIN Freed /\ "name" \notin DOMAIN Dangling
    BY <2>1 DEF IsNode, Freed, Dangling
  <2> QED
    BY <2>2 DEF Live, n
<1>4. TypeOK
  BY <1>1, <1>2 DEF TypeOK, IsTree, Linked
<1>5. FreeListSound
  BY <1>1, <1>2, <1>3 DEF FreeListSound, FreeApart
<1>6. LinksConsistent
  <2>1. \A e \in L : \A c \in tree.node[e].sub : tree.node[c].parent = e
    BY <1>1 DEF Linked
  <2> QED
    BY <1>1, <1>2, <2>1 DEF LinksConsistent, ToldApart
<1> QED
  BY <1>4, <1>5, <1>6

\* The version table, the free list and the nodes have their shape in every state.
THEOREM TypeCorrect == Spec => []TypeOK
<1>1. Inv => TypeOK
  BY SoundGives DEF Inv
<1> QED
  BY <1>1, SoundAlways, PTL

\* However nodes are made, removed and cut, no entry that can be reached is free or
\* freed, and none is on the free list twice (newNode(), remove()).
THEOREM FreeListIsSound == Spec => []FreeListSound
<1>1. Inv => FreeListSound
  BY SoundGives DEF Inv
<1> QED
  BY <1>1, SoundAlways, PTL

\* Every node that can be reached is under the parent it names, under a name of its
\* own, with a creation id of its own.
THEOREM LinksAreConsistent == Spec => []LinksConsistent
<1>1. Inv => LinksConsistent
  BY SoundGives DEF Inv
<1> QED
  BY <1>1, SoundAlways, PTL

\* Where the links are the same, the paths are.
LEMMA SameNames ==
  ASSUME NEW t, NEW L, Linked(t, L), NEW u, NEW K, Linked(u, K), NEW e \in L \cap K,
         \A x \in Under(t, e) : SameLinks(t.node[x], u.node[x])
  PROVE  Names(u, e) = Names(t, e)
<1> DEFINE S == Under(t, e)
           U == Under(u, e)
<1>1. /\ S \subseteq L /\ e \in S /\ \A x \in S : t.node[x].sub \subseteq S
      /\ \A C : e \in C /\ (\A x \in C \cap L : t.node[x].sub \subseteq C) => S \subseteq C
  BY UnderIs
<1>2. /\ U \subseteq K /\ e \in U /\ \A x \in U : u.node[x].sub \subseteq U
      /\ \A C : e \in C /\ (\A x \in C \cap K : u.node[x].sub \subseteq C) => U \subseteq C
  BY UnderIs
<1> HIDE DEF S, U
<1>3. \A x \in S : u.node[x].sub = t.node[x].sub
  BY DEF S, SameLinks
<1>4. U \subseteq S
  BY <1>1, <1>2, <1>3
<1>5. S \subseteq U
  BY <1>1, <1>2, <1>3, <1>4
<1>6. U = S
  BY <1>4, <1>5
<1>7. \A x \in S : u.node[x].parent = t.node[x].parent /\ u.node[x].name = t.node[x].name
  BY DEF S, SameLinks
<1> QED
  BY <1>6, <1>7 DEF Names, S, U

\* A step that changes the paths below a node is seen in its version.
LEMMA GrowthStep ==
  ASSUME Inv, [Next]_tree, NEW e \in Entries, SameNode(e), Names(tree, e) # Names(tree', e)
  PROVE  tree.version[e] < tree'.version[e]
<1>1. PICK L \in SUBSET Entries : Sound(tree, L)
  BY DEF Inv
<1>2. CASE UNCHANGED tree
  BY <1>2
<1>3. CASE Next
  <2>1. Keeps(tree, L, tree')
    BY <1>1, <1>3, StepKeeps
  <2>2. PICK K \in SUBSET Entries : Sound(tree', K)
    BY <2>1 DEF Keeps
  <2>3. e \in L /\ e \in K
    <3>1. e \in Reachable(tree) /\ e \in Reachable(tree')
      BY DEF SameNode
    <3>2. Reachable(tree) \subseteq L
      BY <1>1, UnderIs DEF Reachable, Sound, Linked
    <3>3. Reachable(tree') \subseteq K
      BY <2>2, UnderIs DEF Reachable, Sound, Linked
    <3> QED
      BY <3>1, <3>2, <3>3
  <2>4. \/ tree'.version[e] > tree.version[e]
        \/ \A x \in Under(tree, e) : SameLinks(tree.node[x], tree'.node[x])
    BY <2>1, <2>3 DEF Keeps, Told
  <2>5. ~\A x \in Under(tree, e) : SameLinks(tree.node[x], tree'.node[x])
    <3>1. Linked(tree, L) /\ Linked(tree', K) /\ e \in L \cap K
      BY <1>1, <2>2, <2>3 DEF Sound
    <3> QED
      BY <3>1, SameNames
  <2>6. tree.version[e] \in Nat /\ tree'.version[e] \in Nat
    BY <1>1, <2>2 DEF Sound, IsTree
  <2> QED
    BY <2>4, <2>5, <2>6
<1> QED
  BY <1>2, <1>3

\* Whoever remembers the version of a node can tell that a path below it has come or
\* gone (newNode(), removeRecur() and the bumps along the way).
THEOREM GrowthVisible == Spec => GrowthIsVisible
<1>1. Inv /\ [Next]_tree =>
        [\A e \in Entries :
           SameNode(e) /\ Names(tree, e) # Names(tree, e)' =>
             tree.version[e] < tree'.version[e]]_tree
  <2> SUFFICES ASSUME Inv, [Next]_tree, NEW e \in Entries, SameNode(e),
                      Names(tree, e) # Names(tree, e)'
               PROVE  tree.version[e] < tree'.version[e]
    OBVIOUS
  <2>1. Names(tree, e)' = Names(tree', e)
    BY DEF Names, Under
  <2> QED
    BY <2>1, GrowthStep
<1> QED
  BY <1>1, SoundAlways, PTL DEF Spec, GrowthIsVisible

-----------------------------------------------------------------------------
(* What is at the end of a path.                                           *)

EntryAt(t, p) == Walk(t, p)[Len(p)]

\* An entry is at the end of one path only: parents and names lead back along it.
LEMMA OnePath ==
  ASSUME NEW t, NEW L, Linked(t, L), NEW p \in Seq(STRING), NEW q \in Seq(STRING),
         EntryAt(t, p) # Invalid, EntryAt(t, q) = EntryAt(t, p)
  PROVE  p = q
<1> DEFINE n == Len(p)
           k == Len(q)
           v == Walk(t, p)
           w == Walk(t, q)
           G == {i \in 0 .. n : i <= k /\ v[n - i] = w[k - i]}
<1>1. /\ n \in Nat /\ v[0] = Root /\ v[n] # Invalid
      /\ \A i \in 0 .. n : v[i] \in L
      /\ \A i \in 1 .. n : v[i] # Invalid =>
           v[i] # Root /\ v[i] \in t.node[v[i - 1]].sub /\ t.node[v[i]].name = p[i]
  BY WayIs DEF EntryAt
<1>2. /\ k \in Nat /\ w[0] = Root /\ w[k] = v[n]
      /\ \A i \in 0 .. k : w[i] \in L
      /\ \A i \in 1 .. k : w[i] # Invalid =>
           w[i] # Root /\ w[i] \in t.node[w[i - 1]].sub /\ t.node[w[i]].name = q[i]
  BY WayIs DEF EntryAt
<1>3. \A e \in L : e # Invalid /\ \A c \in t.node[e].sub : t.node[c].parent = e
  BY TableAssumption DEF Linked, Entries, Invalid
<1> HIDE DEF n, k, v, w
<1>4. 0 \in G
  BY <1>1, <1>2
<1>5. ASSUME NEW i \in 1 .. n, i - 1 \in G  PROVE i \in G
  <2> DEFINE a == n - (i - 1)
             b == k - (i - 1)
  <2>1. /\ a \in 1 .. n /\ b \in 0 .. k /\ v[a] = w[b]
        /\ a - 1 = n - i /\ b - 1 = k - i /\ a - 1 \in 0 .. n
    BY <1>1, <1>2, <1>5
  <2> HIDE DEF a, b
  <2>2. v[a] # Root /\ v[a] \in t.node[v[a - 1]].sub /\ v[a - 1] \in L
    BY <1>1, <1>3, <2>1
  <2>3. b \in 1 .. k /\ b - 1 \in 0 .. k
    <3>1. b # 0
      BY <1>2, <2>1, <2>2
    <3> QED
      BY <1>2, <2>1, <3>1
  <2>4. w[b] \in t.node[w[b - 1]].sub /\ w[b - 1] \in L
    BY <1>2, <1>3, <2>3
  <2>5. v[a - 1] = w[b - 1]
    BY <1>3, <2>1, <2>2, <2>4
  <2> QED
    BY <1>2, <2>1, <2>3, <2>5
<1>6. \A i \in 0 .. n : i <= k /\ v[n - i] = w[k - i]
  <2> HIDE DEF G
  <2>1. \A i \in 0 .. n : i \in G
    BY <1>1, <1>4, <1>5, AlongNumbers
  <2> QED
    BY <2>1 DEF G
<1>7. n = k
  <2>1. n <= k /\ w[k - n] = Root
    BY <1>1, <1>6
  <2>2. CASE k - n \in 1 .. k
    <3>1. k - n \in 0 .. k
      BY <1>1, <1>2, <2>2
    <3> QED
      BY <1>2, <1>3, <2>1, <2>2, <3>1
  <2> QED
    BY <1>1, <1>2, <2>1, <2>2
<1>8. ASSUME NEW i \in 1 .. n  PROVE p[i] = q[i]
  <2>1. n - i \in 0 .. n /\ n - (n - i) = i /\ i \in 0 .. n
    BY <1>1
  <2>2. v[i] = w[i]
    BY <1>6, <1>7, <2>1
  <2> QED
    BY <1>1, <1>2, <1>3, <1>7, <2>1, <2>2
<1> QED
  BY <1>7, <1>8, SeqEqual DEF n, k

\* A path starts with the paths to the nodes on its way.
LEMMA PrefixWay ==
  ASSUME NEW t, NEW L, Linked(t, L), NEW p \in Seq(STRING), NEW k \in 0 .. Len(p)
  PROVE  LET q == SubSeq(p, 1, k)
         IN  /\ q \in Seq(STRING) /\ Len(q) = k /\ IsPrefix(q, p)
             /\ \A i \in 1 .. k : q[i] = p[i]
             /\ \A i \in 0 .. k : Walk(t, q)[i] = Walk(t, p)[i]
             /\ EntryAt(t, q) = Walk(t, p)[k]
<1> DEFINE q == SubSeq(p, 1, k)
           v == Walk(t, p)
           w == Walk(t, q)
           G == {i \in 0 .. k : w[i] = v[i]}
<1>1. Len(p) \in Nat /\ k \in Nat /\ k <= Len(p) /\ \A i \in 1 .. k : p[i] \in STRING
  BY LenProperties, ElementOfSeq
<1>2. q \in Seq(STRING) /\ Len(q) = k /\ \A i \in 1 .. k : q[i] = p[i]
  <2>1. /\ q \in Seq(STRING)
        /\ Len(q) = IF 1 <= k THEN k - 1 + 1 ELSE 0
        /\ \A i \in 1 .. k - 1 + 1 : q[i] = p[1 + i - 1]
    <3>1. k \in Int /\ 1 \in Int
      BY <1>1
    <3> HIDE DEF q
    <3> QED
      BY <1>1, <3>1, SubSeqProperties DEF q
  <2> HIDE DEF q
  <2> QED
    BY <1>1, <2>1
<1> HIDE DEF q
<1>3. SubSeq(q, 1, k) = q
  BY <1>2, SubSeqFull
<1>4. IsPrefix(q, p)
  BY <1>1, <1>2, <1>3 DEF IsPrefix, q
<1>5. /\ w[0] = Root /\ v[0] = Root
      /\ \A i \in 1 .. k : w[i] = IF w[i - 1] = Invalid THEN Invalid ELSE Child(t, w[i - 1], q[i])
      /\ \A i \in 1 .. k : v[i] = IF v[i - 1] = Invalid THEN Invalid ELSE Child(t, v[i - 1], p[i])
  <2>1. Way(t, q, w) /\ Way(t, p, v)
    BY <1>2, WalkSteps
  <2> HIDE DEF w, v
  <2>2. \A i \in 1 .. k : i \in 1 .. Len(p)
    BY <1>1
  <2> QED
    BY <1>2, <2>1, <2>2 DEF Way
<1> HIDE DEF w, v
<1>6. 0 \in G
  BY <1>1, <1>5
<1>7. ASSUME NEW i \in 1 .. k, i - 1 \in G  PROVE i \in G
  BY <1>1, <1>2, <1>5, <1>7
<1> HIDE DEF G
<1>8. \A i \in 0 .. k : i \in G
  BY <1>1, <1>6, <1>7, AlongNumbers
<1>9. \A i \in 0 .. k : w[i] = v[i]
  BY <1>8 DEF G
<1>10. k \in 0 .. k
  BY <1>1
<1> QED
  BY <1>2, <1>4, <1>9, <1>10 DEF EntryAt, q, v, w

\* u is t without links: where a path does not lead to what it led to, it
\* led into what has been cut off.
LEMMA Shrunk ==
  ASSUME NEW t, NEW L, Sound(t, L), NEW u, NEW K, Sound(u, K), K \subseteq L, NEW E,
         \A e \in E \cap L : t.node[e].sub \subseteq E,
         \A e \in K : /\ u.node[e].name = t.node[e].name
                      /\ u.node[e].sub \subseteq t.node[e].sub
                      /\ t.node[e].sub \subseteq u.node[e].sub \cup E,
         NEW p \in Seq(STRING)
  PROVE  \/ EntryAt(u, p) = EntryAt(t, p)
         \/ EntryAt(u, p) = Invalid /\ EntryAt(t, p) \in E
<1> DEFINE n == Len(p)
           v == Walk(t, p)
           w == Walk(u, p)
           G == {i \in 0 .. n : w[i] = v[i] \/ (w[i] = Invalid /\ v[i] \in E)}
<1>1. Linked(t, L) /\ ToldApart(t, L) /\ Linked(u, K)
  BY DEF Sound
<1>2. /\ n \in Nat /\ v[0] = Root /\ w[0] = Root
      /\ \A i \in 0 .. n : v[i] \in L \cup {Invalid} /\ w[i] \in K \cup {Invalid}
      /\ \A i \in 1 .. n : v[i] = IF v[i - 1] = Invalid THEN Invalid ELSE Child(t, v[i - 1], p[i])
      /\ \A i \in 1 .. n : w[i] = IF w[i - 1] = Invalid THEN Invalid ELSE Child(u, w[i - 1], p[i])
  <2>1. /\ v \in [0 .. n -> L \cup {Invalid}] /\ w \in [0 .. n -> K \cup {Invalid}]
        /\ Way(t, p, v) /\ Way(u, p, w)
    BY <1>1, WalkSteps
  <2>2. n \in Nat
    BY LenProperties
  <2> HIDE DEF v, w
  <2> QED
    BY <2>1, <2>2 DEF Way
<1> HIDE DEF n, v, w
<1>3. 0 \in G
  BY <1>2
<1>4. ASSUME NEW i \in 1 .. n, i - 1 \in G  PROVE i \in G
  <2>1. i \in 0 .. n /\ i - 1 \in 0 .. n
    BY <1>2
  <2> DEFINE e == v[i - 1]
             d == w[i - 1]
             x == Child(t, e, p[i])
             y == Child(u, d, p[i])
  <2>2. /\ e \in L \cup {Invalid} /\ d \in K \cup {Invalid}
        /\ d = e \/ (d = Invalid /\ e \in E)
        /\ v[i] = IF e = Invalid THEN Invalid ELSE x
        /\ w[i] = IF d = Invalid THEN Invalid ELSE y
    BY <1>2, <1>4, <2>1
  <2>3. e \in L => \/ x = Invalid /\ \A c \in t.node[e].sub : t.node[c].name # p[i]
                   \/ x # Invalid /\ x \in t.node[e].sub /\ x \in L /\ t.node[x].name = p[i]
    BY <1>1, ChildIs
  <2>4. d \in K => \/ y = Invalid /\ \A c \in u.node[d].sub : u.node[c].name # p[i]
                   \/ y # Invalid /\ y \in u.node[d].sub /\ y \in K /\ u.node[y].name = p[i]
    BY <1>1, ChildIs
  <2> HIDE DEF e, d, x, y
  <2>5. CASE d = Invalid /\ e # Invalid
    <3>1. e \in E \cap L /\ w[i] = Invalid /\ v[i] = x
      BY <2>2, <2>5
    <3>2. x = Invalid \/ x \in E
      BY <2>3, <3>1
    <3> QED
      BY <2>1, <3>1, <3>2
  <2>6. CASE e = Invalid
    BY <2>1, <2>2, <2>6
  <2>7. CASE d # Invalid
    <3>1. d = e /\ e \in K /\ e \in L /\ e # Invalid /\ v[i] = x /\ w[i] = y
      BY <2>2, <2>7
    <3>2. CASE y # Invalid
      <4>1. y \in t.node[e].sub /\ t.node[y].name = p[i]
        BY <2>4, <3>1, <3>2
      <4>2. x \in t.node[e].sub /\ t.node[x].name = p[i]
        BY <2>3, <3>1, <4>1
      <4>3. x = y
        BY <1>1, <3>1, <4>1, <4>2 DEF ToldApart
      <4> QED
        BY <2>1, <3>1, <4>3
    <3>3. CASE y = Invalid /\ x # Invalid
      <4>1. x \in t.node[e].sub /\ t.node[x].name = p[i]
        BY <2>3, <3>1, <3>3
      <4>2. ASSUME x \in u.node[e].sub  PROVE FALSE
        <5>1. x \in K
          BY <1>1, <3>1, <4>2 DEF Linked
        <5>2. u.node[x].name = p[i]
          BY <4>1, <5>1
        <5>3. d \in K /\ x \in u.node[d].sub
          BY <3>1, <4>2
        <5>4. y # Invalid
          BY <2>4, <5>2, <5>3
        <5> QED
          BY <3>3, <5>4
      <4>3. x \in E
        BY <3>1, <4>1, <4>2
      <4> QED
        BY <2>1, <3>1, <3>3, <4>3
    <3>4. CASE y = Invalid /\ x = Invalid
      BY <2>1, <3>1, <3>4
    <3> QED
      BY <3>2, <3>3, <3>4
  <2> QED
    BY <2>5, <2>6, <2>7
<1> HIDE DEF G
<1>5. \A i \in 0 .. n : i \in G
  BY <1>2, <1>3, <1>4, AlongNumbers
<1>6. n \in 0 .. n
  BY <1>2
<1>7. w[n] = v[n] \/ (w[n] = Invalid /\ v[n] \in E)
  BY <1>5, <1>6 DEF G
<1> QED
  BY <1>7 DEF EntryAt, n, v, w

-----------------------------------------------------------------------------
(* What operations leave at the end of a path.                             *)

\* Growing towards path leaves what there is at p; what is new there is on
\* the way, without contents, or the leaf.
Grows(t, path, leaf, u, p) ==
  LET e == EntryAt(t, p)
      f == EntryAt(u, p)
  IN  /\ e # Invalid => /\ f = e /\ SameContents(t.node[e], u.node[e])
                        /\ u.node[e].sub = t.node[e].sub \/ (IsPrefix(p, path) /\ p # path)
      /\ e = Invalid /\ f # Invalid =>
           /\ IsPrefix(p, path)
           /\ p = path => SameContents(leaf, u.node[f]) /\ u.node[f].sub = {}
           /\ p # path => SameContents(Blank(NoName, Invalid, 0), u.node[f])

\* newNode() makes no other paths than those to its path.
LEMMA GrownGives ==
  ASSUME NEW t, NEW L, Sound(t, L), NEW path \in Seq(STRING), EntryAt(t, path) = Invalid,
         NEW leaf, NEW u, NEW K, Sound(u, K), L \subseteq K, Grew(t, L, path, leaf, u, K)
  PROVE  /\ \A p \in Seq(STRING) : Grows(t, path, leaf, u, p)
         /\ Len(t.free) >= Len(path) - Matched(t, path) => EntryAt(u, path) # Invalid
         /\ Len(u.free) >= Len(t.free) - Len(path)
<1> DEFINE m == Matched(t, path)
           w == Walk(t, path)
           n == Len(path)
<1>0. PICK made, c : GrewBy(t, L, path, leaf, u, K, made, c)
  BY DEF Grew
<1> DEFINE T == {made[i] : i \in 1 .. c}
<1>1. /\ c \in 0 .. n - m /\ (n - m <= Len(t.free) => c = n - m)
      /\ Len(u.free) = Len(t.free) - c
      /\ K = L \cup T
      /\ \A i \in 1 .. c :
           /\ made[i] \in Entries \ L /\ u.node[made[i]].name = path[m + i]
           /\ u.node[made[i]].sub = IF i < c THEN {made[i + 1]} ELSE {}
           /\ SameContents(AsMade(leaf, m + i = n), u.node[made[i]])
      /\ \A e \in L :
           /\ u.node[e].name = t.node[e].name /\ SameContents(t.node[e], u.node[e])
           /\ u.node[e].sub = t.node[e].sub \cup IF c > 0 /\ e = w[m] THEN {made[1]} ELSE {}
  BY ONLY <1>0 DEF GrewBy
<1>2. Linked(t, L) /\ Linked(u, K) /\ ToldApart(u, K)
  BY DEF Sound
<1>3. /\ n \in Nat /\ m \in 0 .. n /\ m < n /\ \A i \in 0 .. m : w[i] \in L
  BY <1>2, WayIs DEF EntryAt
<1>4. \A e \in K : e # Invalid
  BY <1>2, TableAssumption DEF Linked, Entries, Invalid
<1> HIDE DEF m, n, w
<1>5. /\ \A e \in T \cap K : u.node[e].sub \subseteq T
      /\ \A e \in L : /\ t.node[e].name = u.node[e].name
                      /\ t.node[e].sub \subseteq u.node[e].sub
                      /\ u.node[e].sub \subseteq t.node[e].sub \cup T
  <2>1. \A i \in 1 .. c : i < c => i + 1 \in 1 .. c
    BY <1>1, <1>3
  <2>2. ASSUME NEW e \in T  PROVE u.node[e].sub \subseteq T
    <3>1. PICK i \in 1 .. c : e = made[i]
      OBVIOUS
    <3>2. u.node[e].sub = IF i < c THEN {made[i + 1]} ELSE {}
      BY <1>1, <3>1
    <3> QED
      BY <2>1, <3>2
  <2>3. c > 0 => 1 \in 1 .. c
    BY <1>1, <1>3
  <2> QED
    BY <1>1, <2>2, <2>3
<1>6. ASSUME NEW p \in Seq(STRING)
      PROVE  \/ EntryAt(t, p) = EntryAt(u, p)
             \/ EntryAt(t, p) = Invalid /\ EntryAt(u, p) \in T
  <2> HIDE DEF T
  <2> QED
    BY <1>5, Shrunk
<1>7. ASSUME NEW i \in 0 .. m  PROVE Walk(u, path)[i] = w[i]
  <2> DEFINE q == SubSeq(path, 1, i)
  <2>1. i \in 0 .. Len(path)
    BY <1>3 DEF n
  <2>2. q \in Seq(STRING) /\ EntryAt(t, q) = w[i] /\ EntryAt(u, q) = Walk(u, path)[i]
    BY <1>2, <2>1, PrefixWay DEF w
  <2> HIDE DEF q
  <2>3. EntryAt(t, q) # Invalid
    BY <1>3, <1>4, <2>2, <1>1
  <2> QED
    BY <1>6, <2>2, <2>3
<1>8. ASSUME NEW i \in 1 .. c  PROVE Walk(u, path)[m + i] = made[i]
  <2> DEFINE v == Walk(u, path)
             G == {j \in 0 .. c : v[m + j] = IF j = 0 THEN w[m] ELSE made[j]}
  <2>1. Way(u, path, v)
    BY <1>2, WalkSteps
  <2>2. \A j \in 1 .. n : v[j] = IF v[j - 1] = Invalid THEN Invalid ELSE Child(u, v[j - 1], path[j])
    BY <2>1 DEF Way, n
  <2>3. v[m] = w[m] /\ c \in Nat /\ m \in Nat /\ c <= n - m
    BY <1>1, <1>3, <1>7
  <2> HIDE DEF v
  <2>4. 0 \in G
    BY <2>3
  <2>5. ASSUME NEW j \in 1 .. c, j - 1 \in G  PROVE j \in G
    <3> DEFINE x == v[m + (j - 1)]
    <3>1. x = IF j - 1 = 0 THEN w[m] ELSE made[j - 1]
      BY <2>5
    <3>2. /\ m + j \in 1 .. n /\ m + j - 1 = m + (j - 1) /\ j \in 0 .. c
          /\ (j # 1 => j - 1 \in 1 .. c /\ j - 1 < c /\ j - 1 + 1 = j)
      BY <1>3, <2>3
    <3>3. made[j] \in u.node[x].sub /\ x \in K /\ u.node[made[j]].name = path[m + j]
      <4>1. CASE j = 1
        <5>1. x = w[m] /\ w[m] \in L /\ c > 0
          BY <1>3, <2>3, <3>1, <4>1
        <5> QED
          BY <1>1, <4>1, <5>1
      <4>2. CASE j # 1
        <5>1. x = made[j - 1] /\ j - 1 \in 1 .. c /\ j - 1 < c /\ j - 1 + 1 = j
          BY <3>1, <3>2, <4>2
        <5> DEFINE k == j - 1
        <5>2. x = made[k] /\ k \in 1 .. c /\ k < c /\ k + 1 = j
          BY <5>1
        <5> HIDE DEF k, x
        <5>3. made[k + 1] \in u.node[x].sub /\ x \in T
          BY <1>1, <5>2
        <5> QED
          BY <1>1, <5>2, <5>3
      <4> QED
        BY <4>1, <4>2
    <3>4. v[m + j] = Child(u, x, path[m + j])
      <4> DEFINE k == m + j
      <4>1. k \in 1 .. n /\ k - 1 = m + (j - 1)
        BY <1>3, <2>3, <3>2
      <4>2. x # Invalid /\ v[k - 1] = x
        BY <1>4, <3>3, <4>1
      <4> HIDE DEF k, x
      <4>3. v[k] = IF v[k - 1] = Invalid THEN Invalid ELSE Child(u, v[k - 1], path[k])
        BY <2>2, <4>1
      <4>4. v[k] = Child(u, x, path[k])
        BY <4>2, <4>3
      <4> QED
        BY <4>4 DEF k
    <3> HIDE DEF x
    <3>5. Child(u, x, path[m + j]) = made[j]
      <4> DEFINE y == Child(u, x, path[m + j])
      <4>1. \/ y = Invalid /\ \A z \in u.node[x].sub : u.node[z].name # path[m + j]
            \/ y # Invalid /\ y \in u.node[x].sub /\ u.node[y].name = path[m + j]
        BY <1>2, <3>3, ChildIs
      <4> HIDE DEF y
      <4>2. y \in u.node[x].sub /\ u.node[y].name = u.node[made[j]].name
        BY <3>3, <4>1
      <4>3. y = made[j]
        BY <1>2, <3>3, <4>2 DEF ToldApart
      <4> QED
        BY <4>3 DEF y
    <3>6. j # 0
      OBVIOUS
    <3> QED
      BY <3>2, <3>4, <3>5, <3>6
  <2> HIDE DEF G
  <2>6. \A j \in 0 .. c : j \in G
    BY <2>3, <2>4, <2>5, AlongNumbers
  <2>7. i \in 0 .. c /\ i # 0
    BY <2>3
  <2> QED
    BY <2>6, <2>7 DEF G, v
<1>9. ASSUME NEW p \in Seq(STRING)  PROVE Grows(t, path, leaf, u, p)
  <2> DEFINE e == EntryAt(t, p)
             f == EntryAt(u, p)
  <2>1. CASE e # Invalid
    <3>1. f = e
      BY <1>6, <2>1
    <3>2. e \in L
      BY <1>2, <2>1, WayIs DEF EntryAt
    <3>3. ASSUME u.node[e].sub # t.node[e].sub  PROVE IsPrefix(p, path) /\ p # path
      <4>1. e = w[m]
        BY <1>1, <3>2, <3>3
      <4> DEFINE q == SubSeq(path, 1, m)
      <4>2. m \in 0 .. Len(path)
        BY <1>3 DEF n
      <4>3. q \in Seq(STRING) /\ Len(q) = m /\ IsPrefix(q, path) /\ EntryAt(t, q) = w[m]
        BY <1>2, <4>2, PrefixWay DEF w
      <4> HIDE DEF q
      <4>4. p = q
        BY <1>2, <2>1, <4>1, <4>3, OnePath
      <4> QED
        BY <1>3, <4>3, <4>4 DEF n
    <3>4. SameContents(t.node[e], u.node[e])
      BY <1>1, <3>2
    <3> HIDE DEF e, f
    <3>5. u.node[e].sub = t.node[e].sub \/ (IsPrefix(p, path) /\ p # path)
      BY <3>3
    <3> QED
      BY ONLY <2>1, <3>1, <3>4, <3>5 DEF Grows, e, f
  <2>2. CASE e = Invalid /\ f # Invalid
    <3>1. PICK i \in 1 .. c : f = made[i]
      BY <1>6, <2>2
    <3> DEFINE k == m + i
               q == SubSeq(path, 1, k)
    <3>2. k \in 0 .. Len(path) /\ (k = n => i = c) /\ i \in Nat /\ c \in Nat
      BY <1>1, <1>3 DEF n
    <3>3. /\ q \in Seq(STRING) /\ Len(q) = k /\ IsPrefix(q, path)
          /\ EntryAt(u, q) = Walk(u, path)[k]
      <4> HIDE DEF k
      <4> QED
        BY <1>2, <3>2, PrefixWay
    <3>4. Walk(u, path)[k] = made[i]
      BY <1>8
    <3>5. /\ SameContents(AsMade(leaf, k = n), u.node[f])
          /\ u.node[f].sub = IF i < c THEN {made[i + 1]} ELSE {}
      BY <1>1, <3>1
    <3> HIDE DEF q, k, e, f
    <3>6. p = q
      BY <1>2, <2>2, <3>1, <3>3, <3>4, OnePath DEF f
    <3>7. p = path => k = n
      BY <3>3, <3>6 DEF n
    <3>8. k = n => p = path
      BY <3>6, SubSeqFull DEF q, n
    <3>9. p = path => SameContents(leaf, u.node[f]) /\ u.node[f].sub = {}
      BY <3>2, <3>5, <3>7 DEF AsMade
    <3>10. p # path => SameContents(Blank(NoName, Invalid, 0), u.node[f])
      BY <3>5, <3>8 DEF AsMade
    <3> QED
      BY ONLY <2>2, <3>3, <3>6, <3>9, <3>10 DEF Grows, e, f
  <2>3. CASE e = Invalid /\ f = Invalid
    BY <2>3 DEF Grows
  <2> QED
    BY <2>1, <2>2, <2>3
<1>10. ASSUME n - m <= Len(t.free)  PROVE EntryAt(u, path) # Invalid
  <2>1. c = n - m /\ c \in 1 .. c /\ m + c = n
    BY <1>1, <1>3, <1>10
  <2>2. Walk(u, path)[n] = made[c] /\ made[c] \in K
    BY <1>1, <1>8, <2>1
  <2> QED
    BY <1>4, <2>2 DEF EntryAt, n
<1>11. Len(t.free) \in Nat /\ Len(u.free) >= Len(t.free) - n
  <2>1. Len(t.free) \in Nat
    BY LenProperties DEF Sound, IsTree
  <2> QED
    BY <1>1, <1>3, <2>1
<1>12. Len(t.free) >= n - m => n - m <= Len(t.free)
  BY <1>3, <1>11
<1> QED
  BY <1>9, <1>10, <1>11, <1>12 DEF m, n

-----------------------------------------------------------------------------
(* Lists of data and of watches.                                           *)

\* The data of a list are of different owners.
Apart(s) == \A i, j \in 1 .. Len(s) : s[i].owner = s[j].owner => i = j

\* An item at the end of a list.
LEMMA AppendIs ==
  ASSUME NEW X, NEW s \in Seq(X), NEW x \in X
  PROVE  /\ Append(s, x) \in Seq(X) /\ Len(Append(s, x)) = Len(s) + 1 /\ Len(s) \in Nat
         /\ \A i \in 1 .. Len(s) : Append(s, x)[i] = s[i]
         /\ Append(s, x)[Len(s) + 1] = x
         /\ ToSet(Append(s, x)) = ToSet(s) \cup {x}
         /\ Apart(s) /\ (\A i \in 1 .. Len(s) : s[i].owner # x.owner) => Apart(Append(s, x))
<1> DEFINE u == Append(s, x)
           n == Len(s)
<1>1. /\ u \in Seq(X) /\ Len(u) = n + 1 /\ n \in Nat
      /\ \A i \in 1 .. n : u[i] = s[i]
      /\ u[n + 1] = x
  BY AppendProperties
<1> HIDE DEF u, n
<1>2. DOMAIN u = 1 .. n + 1 /\ DOMAIN s = 1 .. n
  BY <1>1, LenProperties DEF n
<1>3. \A i : i \in DOMAIN u <=> i \in DOMAIN s \/ i = n + 1
  BY <1>1, <1>2
<1>4. ToSet(u) = ToSet(s) \cup {x}
  BY <1>1, <1>2, <1>3 DEF ToSet
<1>5. ASSUME Apart(s), \A i \in 1 .. n : s[i].owner # x.owner  PROVE Apart(u)
  <2> SUFFICES ASSUME NEW i \in 1 .. n + 1, NEW j \in 1 .. n + 1, u[i].owner = u[j].owner
               PROVE  i = j
    BY <1>1 DEF Apart
  <2>1. /\ (i \in 1 .. n /\ u[i] = s[i]) \/ (i = n + 1 /\ u[i] = x)
        /\ (j \in 1 .. n /\ u[j] = s[j]) \/ (j = n + 1 /\ u[j] = x)
    BY <1>1
  <2>2. /\ \A a, b \in 1 .. n : s[a].owner = s[b].owner => a = b
        /\ \A a \in 1 .. n : s[a].owner # x.owner
    BY <1>5 DEF Apart, n
  <2> QED
    BY <1>5, <2>1, <2>2
<1> QED
  BY <1>1, <1>4, <1>5 DEF u, n

\* A list with a list of one item or none behind it.
LEMMA OneMore ==
  ASSUME NEW X, NEW s \in Seq(X), NEW x \in X
  PROVE  s \o <<x>> = Append(s, x) /\ s \o <<>> = s
OBVIOUS

\* What is picked from a list is in it, and nothing else is.
LEMMA PickedIs ==
  ASSUME NEW X, NEW s \in Seq(X), NEW S
  PROVE  /\ Picked(s, S) \in Seq(X) /\ ToSet(Picked(s, S)) = ToSet(s) \cap S
         /\ Apart(s) => Apart(Picked(s, S))
<1> DEFINE n == Len(s)
           Y == Seq(X)
           F == [q \in Y \X (1 .. n) |-> IF s[q[2]] \in S THEN Append(q[1], s[q[2]]) ELSE q[1]]
           h(f, i) == IF i = 0 THEN <<>>
                      ELSE f[i - 1] \o IF s[i] \in S THEN <<s[i]>> ELSE <<>>
           k(f, i) == IF i = 0 THEN <<>> ELSE F[<<f[i - 1], i>>]
           r == CHOOSE f : f = [i \in 0 .. n |-> h(f, i)]
<1>1. n \in Nat /\ <<>> \in Y /\ \A i \in 1 .. n : s[i] \in X
  BY LenProperties, ElementOfSeq
<1>2. \A g \in Y, i \in 1 .. n : Append(g, s[i]) \in Y
  BY <1>1, AppendIs
<1>3. F \in [Y \X (1 .. n) -> Y]
  <2> HIDE DEF n, Y
  <2> QED
    BY <1>2
<1>4. PICK f \in [0 .. n -> Y] : f = [i \in 0 .. n |-> k(f, i)]
  <2> HIDE DEF F, n, Y
  <2>1. PICK f \in [0 .. n -> Y] : Follows(f, n, <<>>, F)
    BY <1>1, <1>3, StepByStep
  <2> QED
    BY <2>1 DEF Follows
<1>5. ASSUME NEW g \in [0 .. n -> Y], NEW i \in 0 .. n  PROVE k(g, i) = h(g, i)
  <2>1. CASE i # 0
    <3>1. i - 1 \in 0 .. n /\ i \in 1 .. n
      BY <1>1, <2>1
    <3>2. <<g[i - 1], i>> \in Y \X (1 .. n)
      BY <3>1
    <3>3. g[i - 1] \o <<s[i]>> = Append(g[i - 1], s[i]) /\ g[i - 1] \o <<>> = g[i - 1]
      BY <1>1, <3>1, <3>2, OneMore
    <3> HIDE DEF Y, n
    <3> QED
      BY <2>1, <3>2, <3>3
  <2> QED
    BY <2>1
<1>6. f = [i \in 0 .. n |-> h(f, i)]
  <2>1. [i \in 0 .. n |-> k(f, i)] = [i \in 0 .. n |-> h(f, i)]
    <3> HIDE DEF k, h, n, Y
    <3> QED
      BY <1>5
  <2> HIDE DEF k, h, n, Y
  <2> QED
    BY <1>4, <2>1
<1>7. r = [i \in 0 .. n |-> h(r, i)]
  <2> HIDE DEF h, n, Y
  <2> QED
    BY <1>6
<1>8. Picked(s, S) = r[n]
  BY DEF Picked
<1> HIDE DEF r, h, n, Y
<1>9. /\ r[0] = <<>>
      /\ \A i \in 1 .. n : r[i] = r[i - 1] \o IF s[i] \in S THEN <<s[i]>> ELSE <<>>
  <2>1. \A i \in 0 .. n : r[i] = h(r, i)
    BY <1>7
  <2>2. 0 \in 0 .. n /\ \A i \in 1 .. n : i \in 0 .. n /\ i # 0
    BY <1>1
  <2> QED
    BY <2>1, <2>2 DEF h
<1> DEFINE G == {i \in 0 .. n : /\ r[i] \in Seq(X)
                                /\ ToSet(r[i]) = {s[j] : j \in 1 .. i} \cap S
                                /\ Apart(s) => Apart(r[i])}
<1>10. 0 \in G
  <2>1. DOMAIN <<>> = {} /\ <<>> \in Seq(X) /\ Len(<<>>) = 0
    OBVIOUS
  <2>2. ToSet(<<>>) = {} /\ Apart(<<>>)
    BY <2>1 DEF ToSet, Apart
  <2>3. {s[j] : j \in 1 .. 0} = {} /\ 0 \in 0 .. n
    BY <1>1
  <2> QED
    BY <1>9, <2>1, <2>2, <2>3
<1>11. ASSUME NEW i \in 1 .. n, i - 1 \in G  PROVE i \in G
  <2> DEFINE g == r[i - 1]
  <2>1. /\ g \in Seq(X) /\ ToSet(g) = {s[j] : j \in 1 .. i - 1} \cap S /\ s[i] \in X
        /\ Apart(s) => Apart(g)
    BY <1>1, <1>11
  <2>2. {s[j] : j \in 1 .. i} = {s[j] : j \in 1 .. i - 1} \cup {s[i]}
    <3>1. \A j : j \in 1 .. i <=> j \in 1 .. i - 1 \/ j = i
      BY <1>1
    <3> QED
      BY <3>1
  <2> HIDE DEF g
  <2>3. CASE s[i] \in S
    <3>1. r[i] = Append(g, s[i])
      BY <1>9, <2>1, <2>3, OneMore DEF g
    <3>2. ASSUME Apart(s)  PROVE \A a \in 1 .. Len(g) : g[a].owner # s[i].owner
      <4> SUFFICES ASSUME NEW a \in 1 .. Len(g), g[a].owner = s[i].owner PROVE FALSE
        OBVIOUS
      <4>1. g[a] \in ToSet(g)
        BY <2>1, LenProperties DEF ToSet
      <4>2. PICK j \in 1 .. i - 1 : g[a] = s[j]
        BY <2>1, <4>1
      <4>3. j \in 1 .. n /\ j # i
        BY <1>1
      <4> QED
        BY <3>2, <4>2, <4>3 DEF Apart, n
    <3>3. /\ r[i] \in Seq(X) /\ ToSet(r[i]) = ToSet(g) \cup {s[i]}
          /\ Apart(s) => Apart(r[i])
      BY <2>1, <3>1, <3>2, AppendIs
    <3> QED
      BY <1>1, <2>1, <2>2, <2>3, <3>3
  <2>4. CASE s[i] \notin S
    <3>1. r[i] = g
      BY <1>9, <2>1, <2>4, OneMore DEF g
    <3> QED
      BY <1>1, <2>1, <2>2, <2>4, <3>1
  <2> QED
    BY <2>3, <2>4
<1>12. n \in G
  <2> HIDE DEF G
  <2>1. \A i \in 0 .. n : i \in G
    BY <1>1, <1>10, <1>11, AlongNumbers
  <2> QED
    BY <1>1, <2>1
<1>13. ToSet(s) = {s[j] : j \in 1 .. n}
  BY LenProperties DEF ToSet, n
<1> QED
  BY <1>8, <1>12, <1>13

\* A list without items is empty, and nothing is picked from it.
LEMMA NoItems ==
  ASSUME NEW X, NEW s \in Seq(X)
  PROVE  /\ ToSet(s) = {} <=> s = <<>>
         /\ Len(s) = 0 <=> s = <<>>
         /\ ToSet(s) \subseteq X
         /\ \A i \in 1 .. Len(s) : s[i] \in ToSet(s)
         /\ \A x \in ToSet(s) : \E i \in 1 .. Len(s) : x = s[i]
         /\ \A S : s = <<>> => Picked(s, S) = <<>>
<1>1. DOMAIN s = 1 .. Len(s) /\ Len(s) \in Nat /\ \A i \in 1 .. Len(s) : s[i] \in X
  BY LenProperties, ElementOfSeq
<1>2. /\ \A i \in 1 .. Len(s) : s[i] \in ToSet(s)
      /\ \A x \in ToSet(s) : \E i \in 1 .. Len(s) : x = s[i]
  BY <1>1 DEF ToSet
<1>3. ASSUME NEW u \in Seq(X)  PROVE /\ Len(u) = 0 <=> u = <<>>
                                     /\ ToSet(u) = {} <=> u = <<>>
  <2>1. DOMAIN u = 1 .. Len(u) /\ Len(u) \in Nat
    BY LenProperties
  <2>2. Len(u) = 0 <=> u = <<>>
    BY EmptySeq
  <2>3. ToSet(u) = {} => Len(u) = 0
    <3>1. ToSet(u) = {} => 1 \notin DOMAIN u
      BY DEF ToSet
    <3> QED
      BY <2>1, <3>1
  <2>4. Len(u) = 0 => ToSet(u) = {}
    BY <2>1 DEF ToSet
  <2> QED
    BY <2>2, <2>3, <2>4
<1>4. ASSUME NEW S, s = <<>>  PROVE Picked(s, S) = <<>>
  <2>1. Picked(s, S) \in Seq(X) /\ ToSet(Picked(s, S)) = ToSet(s) \cap S
    BY PickedIs
  <2>2. ToSet(s) = {}
    BY <1>3, <1>4
  <2> HIDE <1>4
  <2> DEFINE u == Picked(s, S)
  <2> HIDE DEF u
  <2>3. u \in Seq(X) /\ ToSet(u) = {}
    BY <2>1, <2>2 DEF u
  <2>4. u = <<>>
    BY <1>3, <2>3
  <2> QED
    BY <2>4 DEF u
<1> QED
  BY <1>1, <1>2, <1>3, <1>4

\* Only what is below a path has its node under the path's node.
LEMMA UnderPath ==
  ASSUME NEW t, NEW L, Linked(t, L), NEW p \in Seq(STRING), NEW q \in Seq(STRING),
         EntryAt(t, p) # Invalid, EntryAt(t, q) # Invalid
  PROVE  EntryAt(t, q) \in Under(t, EntryAt(t, p)) <=> IsPrefix(p, q)
<1> DEFINE e == EntryAt(t, p)
           w == Walk(t, q)
           n == Len(q)
           k == Len(p)
<1>1. /\ n \in Nat /\ w[n] # Invalid
      /\ \A i \in 1 .. n : w[i] # Invalid => w[i - 1] \in L /\ w[i] \in t.node[w[i - 1]].sub
      /\ \A i \in 0 .. n : w[i] \in L
  <2>1. /\ n \in Nat
        /\ \A i \in 1 .. n : w[i] # Invalid => w[i - 1] \in L /\ w[i] \in t.node[w[i - 1]].sub
        /\ Matched(t, q) \in 0 .. n /\ \A i \in 0 .. Matched(t, q) : w[i] \in L
        /\ w \in [0 .. n -> L \cup {Invalid}] /\ Way(t, q, w)
    BY WayIs, WalkSteps
  <2>2. w[n] # Invalid
    BY DEF EntryAt
  <2> DEFINE G == {i \in 0 .. n : w[n - i] \in L}
  <2>3. 0 \in G
    BY <2>1, <2>2
  <2>4. ASSUME NEW i \in 1 .. n, i - 1 \in G  PROVE i \in G
    <3>1. n - (i - 1) \in 1 .. n /\ n - (i - 1) - 1 = n - i /\ i \in 0 .. n
      BY <2>1
    <3>2. \A x \in L : x # Invalid
      BY TableAssumption DEF Linked, Entries, Invalid
    <3> HIDE DEF n, w
    <3> QED
      BY <2>1, <2>4, <3>1, <3>2
  <2>5. \A i \in 0 .. n : i \in G
    <3> HIDE DEF G, n, w
    <3> QED
      BY <2>1, <2>3, <2>4, AlongNumbers
  <2>6. \A i \in 0 .. n : n - i \in 0 .. n /\ n - (n - i) = i
    BY <2>1
  <2> HIDE DEF n, w
  <2> QED
    BY <2>1, <2>2, <2>5, <2>6
<1>2. ASSUME w[n] \in Under(t, e)  PROVE IsPrefix(p, q)
  <2>1. e \in L /\ n \in 0 .. Len(q)
    BY <1>1, WayIs DEF EntryAt
  <2>2. PICK i \in 0 .. n : e = w[i]
    <3> HIDE DEF e
    <3> QED
      BY <1>1, <1>2, <2>1, AboveWay
  <2>3. LET a == SubSeq(q, 1, i) IN a \in Seq(STRING) /\ IsPrefix(a, q) /\ EntryAt(t, a) = w[i]
    BY PrefixWay
  <2> QED
    BY <2>2, <2>3, OnePath
<1>3. ASSUME IsPrefix(p, q)  PROVE w[n] \in Under(t, e)
  <2>1. k \in 0 .. n /\ p = SubSeq(q, 1, k)
    <3>1. k \in Nat /\ SubSeq(p, 1, k) = p
      BY LenProperties, SubSeqFull
    <3>2. k <= n /\ SubSeq(p, 1, k) = SubSeq(q, 1, k)
      BY <1>3 DEF IsPrefix
    <3> HIDE DEF k, n
    <3> QED
      BY <1>1, <3>1, <3>2
  <2>2. w[k] = e
    <3>1. EntryAt(t, SubSeq(q, 1, k)) = Walk(t, q)[k]
      <4> HIDE DEF k
      <4> QED
        BY <2>1, PrefixWay DEF n
    <3> QED
      BY <2>1, <3>1
  <2>3. e \in L
    BY <1>1, <2>1, <2>2
  <2>4. e \in Under(t, e) /\ \A x \in Under(t, e) : t.node[x].sub \subseteq Under(t, e)
    <3> HIDE DEF e
    <3> QED
      BY <2>3, UnderIs
  <2> DEFINE G == {i \in 0 .. n : i >= k => w[i] \in Under(t, e)}
  <2> HIDE DEF e, w, n, k
  <2>5. 0 \in G
    BY <1>1, <2>1, <2>2, <2>4
  <2>6. ASSUME NEW i \in 1 .. n, i - 1 \in G  PROVE i \in G
    <3>1. i \in 0 .. n /\ w[i] # Invalid
      BY <1>1, TableAssumption DEF Linked, Entries, Invalid
    <3>2. CASE i = k
      BY <2>2, <2>4, <3>1, <3>2
    <3>3. CASE i < k
      BY <2>1, <3>1, <3>3
    <3>4. CASE i > k
      <4>1. w[i - 1] \in Under(t, e)
        BY <2>1, <2>6, <3>4
      <4>2. w[i] \in t.node[w[i - 1]].sub
        BY <1>1, <3>1
      <4> QED
        BY <2>4, <3>1, <4>1, <4>2
    <3> QED
      BY <2>1, <3>2, <3>3, <3>4
  <2>7. \A i \in 0 .. n : i \in G
    <3> HIDE DEF G
    <3> QED
      BY <1>1, <2>5, <2>6, AlongNumbers
  <2> QED
    BY <1>1, <2>1, <2>7
<1> QED
  BY <1>2, <1>3 DEF EntryAt

-----------------------------------------------------------------------------
(* What the operations leave of a node's data and watches.                 *)

\* The values an owner has in a list of data.
ValuesOf(s, o) == {d.value : d \in {x \in ToSet(s) : x.owner = o}}

\* A node with data of D, one for each owner, and watches of A.
Filled(n, D, A) ==
  IsNode(n) /\ n.data \in Seq(D) /\ Apart(n.data) /\ n.watches \in Seq(A) /\ n.room \in Nat

\* Data and watches are owners' and nobody's.
Contents(D, A) ==
  /\ Garbage \in A
  /\ \A d \in D : d.owner \in A /\ d.value \in Nat /\ d = [owner |-> d.owner, value |-> d.value]

\* However watches are misread, they are a list of owners, as long as before.
LEMMA OverlaidIs ==
  ASSUME NEW A, NEW s \in Seq(A), NEW o \in A, Garbage \in A
  PROVE  Overlaid(s, o) \in Seq(A) /\ (s = <<>> => Overlaid(s, o) = <<>>)
<1> DEFINE u == Overlaid(s, o)
<1>1. DOMAIN s = 1 .. Len(s) /\ Len(s) \in Nat
  BY LenProperties
<1>2. u \in [1 .. Len(s) -> A] /\ DOMAIN u = 1 .. Len(s)
  <2> DEFINE g == Garbage
  <2> HIDE DEF g
  <2>1. \/ u = [i \in 1 .. Len(s) |-> o]
        \/ u = [i \in 1 .. Len(s) |-> g]
    BY <1>1 DEF Overlaid, g
  <2>2. g \in A
    BY DEF g
  <2> HIDE DEF u
  <2> QED
    BY <2>1, <2>2
<1> HIDE DEF u
<1>3. u \in Seq(A)
  BY <1>1, <1>2, SeqDef
<1>4. Len(u) = Len(s)
  BY <1>1, <1>2, <1>3, LenProperties
<1>5. s = <<>> => u = <<>>
  BY <1>3, <1>4, NoItems
<1> QED
  BY <1>3, <1>5 DEF u

\* What setData() leaves of data, room and watches.
Stored(n, owner, v, m) ==
  /\ m.data # <<>> => v <= m.room \/ (n.data # <<>> /\ m.room = n.room)
  /\ n.data # <<>> \/ v <= n.room => m.data # <<>> /\ ValuesOf(m.data, owner) = {v}
  /\ n.data = <<>> /\ ~(v <= n.room) => m.data = <<>>
  /\ n.data = <<>> /\ v <= n.room =>
       m.data = <<[owner |-> owner, value |-> v]>> /\ m.room = n.room
  /\ \A o : o # owner => ValuesOf(m.data, o) = ValuesOf(n.data, o)
  /\ n.watches = <<>> => m.watches = <<>>

\* setData() puts the value in the place of the owner's old one or behind the
\* others, but may lose it where there was none.
LEMMA SetDataStores ==
  ASSUME NEW D, NEW A, Contents(D, A), NEW n, Filled(n, D, A), NEW owner, NEW v,
         [owner |-> owner, value |-> v] \in D
  PROVE  LET m == SetData(n, owner, v).node
         IN  Filled(m, D, A) /\ SameLinks(n, m) /\ Stored(n, owner, v, m)
<1> DEFINE datum == [owner |-> owner, value |-> v]
           s == n.data
           mine == {i \in DOMAIN s : s[i].owner = owner}
           first == CHOOSE i \in mine : \A j \in mine : i <= j
           x1 == IF v <= n.room \/ s # <<>> THEN <<datum>> ELSE s
           y1 == IF v <= n.room THEN n.room ELSE v
           z1 == IF mine # {} THEN n.watches ELSE Overlaid(n.watches, owner)
           x2 == [s EXCEPT ![first] = datum]
           x3 == Append(s, datum)
           m == SetData(n, owner, v).node
           one == s = <<>> \/ (Len(s) = 1 /\ mine # {})
<1>1. /\ IsNode(n) /\ s \in Seq(D) /\ Apart(s) /\ n.watches \in Seq(A) /\ n.room \in Nat
      /\ datum.owner = owner /\ datum.value = v /\ datum \in D /\ owner \in A /\ v \in Nat
      /\ Garbage \in A
  BY DEF Filled, Contents
<1>2. DOMAIN s = 1 .. Len(s) /\ Len(s) \in Nat /\ \A i \in 1 .. Len(s) : s[i] \in D
  BY <1>1, LenProperties, ElementOfSeq
<1>3. ToSet(s) = {s[i] : i \in 1 .. Len(s)}
  BY <1>2 DEF ToSet
<1>4. m = IF one THEN [n EXCEPT !.data = x1, !.room = y1, !.watches = z1]
          ELSE IF mine # {} THEN [n EXCEPT !.data = x2]
          ELSE [n EXCEPT !.data = x3]
  BY DEF SetData
<1>5. /\ Holds(n, [n EXCEPT !.data = x1, !.room = y1, !.watches = z1], x1, y1, z1)
      /\ Holds(n, [n EXCEPT !.data = x2], x2, n.room, n.watches)
      /\ Holds(n, [n EXCEPT !.data = x3], x3, n.room, n.watches)
  <2> HIDE DEF x1, y1, z1, x2, x3
  <2> QED
    BY <1>1, RefilledHolds
<1>6. <<datum>> \in Seq(D) /\ <<datum>> # <<>> /\ ToSet(<<datum>>) = {datum} /\ Apart(<<datum>>)
  <2> HIDE DEF datum
  <2>1. /\ <<datum>> \in Seq(D) /\ Len(<<datum>>) = 1
        /\ DOMAIN <<datum>> = 1 .. 1 /\ <<datum>>[1] = datum
    BY <1>1
  <2>2. \A i : i \in 1 .. 1 <=> i = 1
    OBVIOUS
  <2>3. ToSet(<<datum>>) = {datum}
    BY <2>1, <2>2 DEF ToSet
  <2>4. Apart(<<datum>>)
    BY <2>1 DEF Apart
  <2> QED
    BY <2>1, <2>3, <2>4
<1> HIDE DEF m, datum
<1>7. CASE one
  <2>1. IsNode(m) /\ SameLinks(n, m) /\ m.data = x1 /\ m.room = y1 /\ m.watches = z1
    <3> HIDE DEF x1, y1, z1, one
    <3> QED
      BY <1>4, <1>5, <1>7 DEF Holds
  <2>2. z1 \in Seq(A) /\ (n.watches = <<>> => z1 = <<>>)
    BY <1>1, OverlaidIs
  <2>3. y1 \in Nat /\ v <= y1 /\ (v <= n.room => y1 = n.room)
    BY <1>1
  <2>4. x1 = <<datum>> \/ (x1 = s /\ s = <<>> /\ ~(v <= n.room))
    OBVIOUS
  <2>5. ToSet(<<>>) = {} /\ Apart(<<>>)
    <3>1. DOMAIN <<>> = {} /\ Len(<<>>) = 0
      OBVIOUS
    <3> QED
      BY <3>1 DEF ToSet, Apart
  <2>6. ASSUME NEW o, o # owner, s # <<>>  PROVE ValuesOf(s, o) = {}
    <3>1. Len(s) = 1 /\ mine # {}
      BY <1>7, <2>6
    <3>2. \A x \in ToSet(s) : x = s[1] /\ x.owner = owner
      BY <1>2, <1>3, <3>1
    <3> QED
      BY <2>6, <3>2 DEF ValuesOf
  <2>7. ValuesOf(<<datum>>, owner) = {v} /\ \A o : o # owner => ValuesOf(<<datum>>, o) = {}
    BY <1>1, <1>6 DEF ValuesOf
  <2>8. \A o : ValuesOf(<<>>, o) = {}
    BY <2>5 DEF ValuesOf
  <2>9. Filled(m, D, A)
    BY <1>1, <1>6, <2>1, <2>2, <2>3, <2>4, <2>5 DEF Filled
  <2>10. s # <<>> => x1 = <<datum>>
    OBVIOUS
  <2>11. v <= n.room => x1 = <<datum>>
    OBVIOUS
  <2>16. s = <<>> /\ ~(v <= n.room) => x1 = s
    OBVIOUS
  <2> HIDE DEF x1, y1, z1, one
  <2>12. ASSUME NEW o, o # owner  PROVE ValuesOf(m.data, o) = ValuesOf(s, o)
    <3>1. CASE s = <<>>
      <4>1. x1 = <<datum>> \/ x1 = <<>>
        BY <2>4, <3>1
      <4>2. ValuesOf(x1, o) = {} /\ ValuesOf(s, o) = {}
        BY <2>7, <2>8, <2>12, <3>1, <4>1
      <4> QED
        BY <2>1, <4>2
    <3>2. CASE s # <<>>
      <4>1. ValuesOf(x1, o) = {} /\ ValuesOf(s, o) = {}
        BY <2>6, <2>7, <2>10, <2>12, <3>2
      <4> QED
        BY <2>1, <4>1
    <3> QED
      BY <3>1, <3>2
  <2>14. s # <<>> \/ v <= n.room => x1 # <<>> /\ ValuesOf(x1, owner) = {v}
    BY <1>6, <2>7, <2>10, <2>11
  <2>15. s = <<>> /\ ~(v <= n.room) => x1 = <<>>
    BY <2>4, <2>16
  <2>13. Stored(n, owner, v, m)
    BY <2>1, <2>2, <2>3, <2>11, <2>12, <2>14, <2>15 DEF Stored, datum
  <2> QED
    BY <2>1, <2>9, <2>13 DEF m
<1>8. CASE ~one /\ mine # {}
  <2>1. IsNode(m) /\ SameLinks(n, m) /\ m.data = x2 /\ m.room = n.room /\ m.watches = n.watches
    <3> HIDE DEF x2, mine, one
    <3> QED
      BY <1>4, <1>5, <1>8 DEF Holds
  <2>2. first \in mine
    <3>1. mine \in SUBSET Nat
      BY <1>2
    <3>2. \E i \in mine : \A j \in mine : i <= j
      <4> HIDE DEF mine
      <4> QED
        BY <1>8, <3>1, LeastExists
    <3> QED
      BY <3>2
  <2>3. first \in 1 .. Len(s) /\ s[first].owner = owner
    BY <1>2, <2>2
  <2> HIDE DEF first, mine, one
  <2>4. /\ x2 \in Seq(D) /\ Len(x2) = Len(s) /\ DOMAIN x2 = 1 .. Len(s)
        /\ x2[first] = datum /\ \A i \in 1 .. Len(s) : i # first => x2[i] = s[i]
    <3>1. /\ x2 \in Seq(D) /\ Len(x2) = Len(s)
          /\ \A i \in 1 .. Len(s) : x2[i] = IF i = first THEN datum ELSE s[i]
      BY <1>1, <1>2, <2>3, ExceptSeq
    <3> HIDE DEF x2
    <3> QED
      BY <2>3, <3>1, LenProperties
  <2> HIDE DEF x2
  <2>5. \A i, j \in 1 .. Len(s) : s[i].owner = s[j].owner => i = j
    BY <1>1 DEF Apart
  <2>6. \A i \in 1 .. Len(s) : x2[i].owner = s[i].owner
    BY <1>1, <2>3, <2>4
  <2>7. Apart(x2)
    BY <2>4, <2>5, <2>6 DEF Apart
  <2>8. Filled(m, D, A)
    BY <1>1, <2>1, <2>4, <2>7 DEF Filled
  <2>9. ToSet(x2) = {x2[i] : i \in 1 .. Len(s)}
    BY <2>4 DEF ToSet
  <2>10. \A i \in 1 .. Len(s) : s[i].owner = owner => i = first
    BY <2>3, <2>5
  <2>11. {x \in ToSet(x2) : x.owner = owner} = {datum}
    BY <1>1, <2>3, <2>4, <2>6, <2>9, <2>10
  <2>12. ASSUME NEW o, o # owner
         PROVE  {x \in ToSet(x2) : x.owner = o} = {x \in ToSet(s) : x.owner = o}
    <3>1. \A i \in 1 .. Len(s) : s[i].owner = o \/ x2[i].owner = o => x2[i] = s[i]
      BY <2>3, <2>4, <2>6, <2>12
    <3> QED
      BY <1>3, <2>6, <2>9, <3>1
  <2>13. s # <<>> /\ x2 # <<>>
    <3>1. Len(s) # 0
      BY <1>2, <2>3
    <3> QED
      BY <1>1, <2>4, <3>1, NoItems
  <2>14. ValuesOf(x2, owner) = {v} /\ \A o : o # owner => ValuesOf(x2, o) = ValuesOf(s, o)
    <3>1. ValuesOf(x2, owner) = {d.value : d \in {datum}}
      BY <2>11 DEF ValuesOf
    <3> QED
      BY <1>1, <2>12, <3>1 DEF ValuesOf
  <2>15. Stored(n, owner, v, m)
    BY <2>1, <2>13, <2>14 DEF Stored
  <2> QED
    BY <2>1, <2>8, <2>15 DEF m
<1>9. CASE ~one /\ mine = {}
  <2>1. IsNode(m) /\ SameLinks(n, m) /\ m.data = x3 /\ m.room = n.room /\ m.watches = n.watches
    <3> HIDE DEF x3, mine, one
    <3> QED
      BY <1>4, <1>5, <1>9 DEF Holds
  <2>2. \A i \in 1 .. Len(s) : s[i].owner # datum.owner
    BY <1>1, <1>2, <1>9
  <2>3. /\ x3 \in Seq(D) /\ Len(x3) = Len(s) + 1 /\ ToSet(x3) = ToSet(s) \cup {datum}
        /\ Apart(x3)
    <3> HIDE DEF mine, one
    <3> QED
      BY <1>1, <2>2, AppendIs
  <2>4. s # <<>>
    BY <1>9
  <2> HIDE DEF x3, mine, one
  <2>5. x3 # <<>>
    <3>1. Len(x3) # 0
      BY <1>2, <2>3
    <3> QED
      BY <2>3, <3>1, NoItems
  <2>6. \A x \in ToSet(s) : x.owner # owner
    BY <1>1, <1>3, <2>2
  <2>7. ValuesOf(x3, owner) = {v}
    <3>1. {x \in ToSet(x3) : x.owner = owner} = {datum}
      BY <1>1, <2>3, <2>6
    <3>2. ValuesOf(x3, owner) = {d.value : d \in {datum}}
      BY <3>1 DEF ValuesOf
    <3> QED
      BY <1>1, <3>2
  <2>8. ASSUME NEW o, o # owner  PROVE ValuesOf(x3, o) = ValuesOf(s, o)
    <3>1. {x \in ToSet(x3) : x.owner = o} = {x \in ToSet(s) : x.owner = o}
      BY <1>1, <2>3, <2>8
    <3> QED
      BY <3>1 DEF ValuesOf
  <2>9. Filled(m, D, A)
    BY <1>1, <2>1, <2>3 DEF Filled
  <2>10. Stored(n, owner, v, m)
    BY <2>1, <2>4, <2>5, <2>7, <2>8 DEF Stored
  <2> QED
    BY <2>1, <2>9, <2>10 DEF m
<1> QED
  BY <1>7, <1>8, <1>9

-----------------------------------------------------------------------------

\* The data that a removal leaves at a node.
Staying(n, owner) == {d \in ToSet(n.data) : ~OwnedBy(d, owner, Len(n.data) = 1)}

\* What removeRecur() leaves of one node.
Bared(n, owner, m) ==
  /\ ToSet(m.data) \subseteq Staying(n, owner)
  /\ (\A d \in ToSet(n.data) : d.value <= n.room) => ToSet(m.data) = Staying(n, owner)
  /\ m.data # <<>> => m.room = n.room
  /\ n.watches = <<>> => m.watches = <<>>

\* Removing takes an owner's data and no other's, unless the one datum left finds
\* no room.
LEMMA StrippedLeaves ==
  ASSUME NEW D, NEW A, Contents(D, A), NEW n, Filled(n, D, A), NEW owner
  PROVE  LET m == Stripped(n, owner).node
         IN  Filled(m, D, A) /\ SameLinks(n, m) /\ Bared(n, owner, m)
<1> DEFINE single == Len(n.data) = 1
           left == Picked(n.data, {d \in ToSet(n.data) : ~OwnedBy(d, owner, single)})
           n0 == [n EXCEPT !.data = <<>>]
           a == SetData(n0, left[1].owner, left[1].value).node
           z == IF left # <<>> THEN n.watches
                ELSE Overlaid(n.watches, IF single THEN n.data[1].owner ELSE Garbage)
           b == [n EXCEPT !.data = left, !.watches = z]
           clobbered == single /\ n.data[1].owner # owner
           collapsed == Len(left) = 1 /\ Len(n.data) > 1
           n1 == IF left = n.data THEN n ELSE IF collapsed THEN a ELSE b
           unwatched(x) == /\ x.client = owner.client
                           /\ ~clobbered
                           /\ owner.publisher \in {Everyone, x.publisher}
           s == Picked(n1.watches, {x \in ToSet(n1.watches) : ~unwatched(x)})
           m == Stripped(n, owner).node
           Stay == Staying(n, owner)
           Fits == \A d \in ToSet(n.data) : d.value <= n.room
\* n1 has its data and watches.
           Mid(k) == /\ Filled(k, D, A) /\ SameLinks(n, k)
                     /\ ToSet(k.data) \subseteq Stay
                     /\ Fits => ToSet(k.data) = Stay
                     /\ k.data # <<>> => k.room = n.room
                     /\ n.watches = <<>> => k.watches = <<>>
<1>1. m = [n1 EXCEPT !.watches = s]
  BY DEF Stripped
<1>2. /\ IsNode(n) /\ n.data \in Seq(D) /\ Apart(n.data) /\ n.watches \in Seq(A)
      /\ n.room \in Nat /\ Garbage \in A /\ SameLinks(n, n)
      /\ \A d \in D : d.owner \in A /\ d.value \in Nat /\ d = [owner |-> d.owner, value |-> d.value]
  BY DEF Filled, Contents, SameLinks
<1>3. left \in Seq(D) /\ ToSet(left) = Stay /\ Apart(left)
  <2> DEFINE X == {d \in ToSet(n.data) : ~OwnedBy(d, owner, single)}
  <2>1. Stay = X /\ X \subseteq ToSet(n.data)
    BY DEF Staying
  <2>2. left = Picked(n.data, X)
    OBVIOUS
  <2> HIDE DEF X, left, Stay
  <2>3. /\ Picked(n.data, X) \in Seq(D) /\ ToSet(Picked(n.data, X)) = ToSet(n.data) \cap X
        /\ Apart(Picked(n.data, X))
    BY <1>2, PickedIs
  <2>4. ToSet(n.data) \cap X = Stay
    BY <2>1
  <2> QED
    BY ONLY <2>2, <2>3, <2>4, Zenon
<1>4. \A d \in D, e \in D : d = e => d.owner = e.owner
  OBVIOUS
<1>5. /\ DOMAIN n.data = 1 .. Len(n.data) /\ Len(n.data) \in Nat
      /\ \A i \in 1 .. Len(n.data) : n.data[i] \in D /\ n.data[i] \in ToSet(n.data)
      /\ Len(left) \in Nat /\ \A i \in 1 .. Len(left) : left[i] \in D /\ left[i] \in ToSet(left)
  <2> HIDE DEF left
  <2> QED
    BY <1>2, <1>3, LenProperties, ElementOfSeq, NoItems
<1>6. ASSUME left = n.data  PROVE Mid(n1)
  <2>1. n1 = n
    BY <1>6
  <2>2. Mid(n)
    <3> HIDE DEF left, Stay
    <3> QED
      BY <1>2, <1>3, <1>6
  <2> HIDE DEF Mid, n1
  <2>3. Mid(n1)
    BY <2>1, <2>2
  <2> QED
    BY <2>3
<1>7. ASSUME left # n.data, collapsed  PROVE Mid(n1)
  <2>1. n1 = a
    BY <1>7
  <2>2. IsNode(n0) /\ SameLinks(n, n0) /\ n0.data = <<>> /\ n0.room = n.room
        /\ n0.watches = n.watches
    <3> DEFINE y == <<>>
    <3> HIDE DEF y
    <3>1. Holds(n, [n EXCEPT !.data = y], y, n.room, n.watches)
      BY <1>2, RefilledHolds
    <3> QED
      BY <3>1 DEF Holds, y
  <2>3. Filled(n0, D, A)
    <3>1. <<>> \in Seq(D) /\ Apart(<<>>)
      <4>1. Len(<<>>) = 0
        OBVIOUS
      <4> QED
        BY <4>1 DEF Apart
    <3> HIDE DEF n0
    <3> QED
      BY <1>2, <2>2, <3>1 DEF Filled
  <2> DEFINE d == left[1]
  <2>4. Len(left) = 1 /\ d \in D /\ ToSet(left) = {d}
    <3>1. Len(left) = 1 /\ 1 \in 1 .. Len(left)
      BY <1>7
    <3>2. \A x \in ToSet(left) : \E i \in 1 .. Len(left) : x = left[i]
      <4> HIDE DEF left
      <4> QED
        BY <1>3, NoItems
    <3> HIDE DEF left
    <3>3. \A x \in ToSet(left) : x = d
      BY <3>1, <3>2
    <3> QED
      BY <1>5, <3>1, <3>3
  <2> HIDE DEF n0, left
  <2>5. /\ d.owner \in A /\ d.value \in Nat /\ [owner |-> d.owner, value |-> d.value] = d
        /\ a = SetData(n0, d.owner, d.value).node
    BY <1>2, <2>4
  <2> HIDE DEF a, d, n1
  <2>6. Filled(a, D, A) /\ SameLinks(n0, a) /\ Stored(n0, d.owner, d.value, a)
    BY <2>3, <2>4, <2>5, SetDataStores
  <2>7. SameLinks(n, a)
    BY <2>2, <2>6 DEF SameLinks
  <2>8. /\ d.value <= n.room => a.data = <<d>> /\ a.room = n.room
        /\ ~(d.value <= n.room) => a.data = <<>>
        /\ n.watches = <<>> => a.watches = <<>>
    BY <2>2, <2>5, <2>6 DEF Stored
  <2>9. ToSet(<<d>>) = {d} /\ ToSet(<<>>) = {}
    <3>1. DOMAIN <<d>> = 1 .. 1 /\ <<d>>[1] = d /\ DOMAIN <<>> = {}
      OBVIOUS
    <3>2. \A i : i \in 1 .. 1 <=> i = 1
      OBVIOUS
    <3> QED
      BY <3>1, <3>2 DEF ToSet
  <2>10. d \in ToSet(n.data)
    BY <1>3, <2>4 DEF Staying
  <2> HIDE DEF Stay
  <2>11. ToSet(a.data) \subseteq Stay /\ (Fits => ToSet(a.data) = Stay)
    BY <1>3, <2>4, <2>8, <2>9, <2>10
  <2>12. a.data # <<>> => a.room = n.room
    BY <2>8
  <2>13. Mid(a)
    BY <2>6, <2>7, <2>8, <2>11, <2>12
  <2> HIDE DEF Mid
  <2> QED
    BY <2>1, <2>13
<1>8. ASSUME left # n.data, ~collapsed  PROVE Mid(n1)
  <2>1. n1 = b
    BY <1>8
  <2>2. IsNode(b) /\ SameLinks(n, b) /\ b.data = left /\ b.room = n.room /\ b.watches = z
    <3> HIDE DEF left, z
    <3>1. Holds(n, [n EXCEPT !.data = left, !.watches = z], left, n.room, z)
      BY <1>2, RefilledHolds
    <3> QED
      BY <3>1 DEF Holds
  <2>3. z \in Seq(A) /\ (n.watches = <<>> => z = <<>>)
    <3> DEFINE o == IF single THEN n.data[1].owner ELSE Garbage
    <3>1. o \in A
      <4>1. single => 1 \in 1 .. Len(n.data)
        OBVIOUS
      <4>2. single => n.data[1].owner \in A
        BY <1>2, <1>5, <4>1
      <4> DEFINE g == Garbage
      <4> HIDE DEF g
      <4>3. g \in A
        BY <1>2 DEF g
      <4> QED
        BY <4>2, <4>3 DEF g
    <3>2. z \in {n.watches, Overlaid(n.watches, o)}
      <4> HIDE DEF o, left
      <4> QED
        BY DEF o
    <3> HIDE DEF o, z
    <3>3. Overlaid(n.watches, o) \in Seq(A) /\ (n.watches = <<>> => Overlaid(n.watches, o) = <<>>)
      BY <1>2, <3>1, OverlaidIs
    <3> QED
      BY <1>2, <3>2, <3>3
  <2> HIDE DEF b, z, left, Stay
  <2>4. Filled(b, D, A)
    BY <1>2, <1>3, <2>2, <2>3 DEF Filled
  <2>5. Mid(b)
    BY <1>3, <2>2, <2>3, <2>4
  <2> HIDE DEF Mid, n1
  <2> QED
    BY <2>1, <2>5
<1>9. Mid(n1)
  <2> HIDE DEF Mid, n1, left, collapsed
  <2> QED
    BY <1>6, <1>7, <1>8
<1> HIDE DEF n1, left, single
<1>10. n1.watches \in Seq(A) /\ IsNode(n1)
  BY <1>9 DEF Filled
<1>11. s \in Seq(A) /\ (n1.watches = <<>> => s = <<>>)
  <2> DEFINE X == {x \in ToSet(n1.watches) : ~unwatched(x)}
  <2> HIDE DEF X
  <2>1. s = Picked(n1.watches, X)
    BY DEF X
  <2> HIDE DEF s
  <2> QED
    BY <1>10, <2>1, PickedIs, NoItems
<1> HIDE DEF s, m
<1>12. Holds(n1, m, n1.data, n1.room, s)
  BY <1>1, <1>10, RefilledHolds
<1>13. IsNode(m) /\ SameLinks(n1, m) /\ m.data = n1.data /\ m.room = n1.room /\ m.watches = s
  BY <1>12 DEF Holds
<1>14. Filled(m, D, A)
  BY <1>9, <1>11, <1>13 DEF Filled
<1>15. SameLinks(n, m)
  BY <1>9, <1>13 DEF SameLinks
<1>16. Bared(n, owner, m)
  BY <1>9, <1>11, <1>13 DEF Bared
<1> QED
  BY <1>14, <1>15, <1>16 DEF m

-----------------------------------------------------------------------------
(* What removals leave at the end of a path.                               *)

\* u has at the end of p what t has, with the contents of m; or nothing, when
\* m has no contents.
Turned(t, u, p, m) ==
  LET e == EntryAt(t, p)
  IN  /\ e = Invalid => EntryAt(u, p) = Invalid
      /\ e # Invalid =>
           \/ /\ EntryAt(u, p) = e /\ SameContents(m, u.node[e])
              /\ u.node[e].sub \subseteq t.node[e].sub
           \/ EntryAt(u, p) = Invalid /\ m.data = <<>> /\ m.watches = <<>>

\* What Prune cuts off is w[k] and the nodes above it that have nothing else.
PruneLeaves(t, L, R, w, k, cut, v, z, p) ==
  LET x == EntryAt(t, p)
      y == EntryAt(z, p)
  IN  \/ /\ y = x
         /\ x # Invalid => /\ x \in L \ R /\ SameContents(v.node[x], z.node[x])
                           /\ z.node[x].sub \subseteq t.node[x].sub
      \/ /\ y = Invalid /\ x # Invalid
         /\ \/ x \in R
            \/ cut /\ x = w[k]
            \/ x \in L \ R /\ v.node[x].data = <<>> /\ v.node[x].watches = <<>>

\* The way back from a removal, and the bumps after it.
LEMMA PrunedPath ==
  ASSUME NEW t, NEW L, Sound(t, L), NEW path \in Seq(STRING), Len(path) # 0,
         EntryAt(t, path) # Invalid, NEW R, NEW cut \in BOOLEAN, NEW v,
         Without(t, L, R, Walk(t, path), Len(path), cut, v),
         \A x \in R : t.node[x].sub \subseteq R,
         \A x \in L \ R : t.node[x].sub \subseteq v.node[x].sub \cup R,
         cut => EntryAt(t, path) \in R \/ v.node[EntryAt(t, path)].sub = {},
         NEW z, NEW K, Sound(z, K), K = Kept(L, R, Walk(t, path), Len(path), cut, v),
         z.node = Prune(v, Walk(t, path), Len(path), cut).node,
         NEW p \in Seq(STRING)
  PROVE  PruneLeaves(t, L, R, Walk(t, path), Len(path), cut, v, z, p)
<1> DEFINE w == Walk(t, path)
           k == Len(path)
           gone == Gone(v, w, k, cut)
           W == {w[i] : i \in 1 .. k}
           E == R \cup {w[i] : i \in gone}
<1>1. Linked(t, L) /\ L \subseteq Entries
  BY DEF Sound, Linked
<1>2. /\ k \in Nat /\ k \in 1 .. k /\ \A i \in 0 .. k : w[i] \in L
      /\ \A i \in 1 .. k : w[i] # Invalid => w[i] # Root /\ w[i] \in t.node[w[i - 1]].sub
  <2>1. w[k] # Invalid
    BY DEF EntryAt
  <2>2. k \in Nat \ {0}
    BY LenProperties
  <2> QED
    BY <1>1, <2>1, <2>2, WayIs
<1>3. \A x \in L : x # Invalid
  BY <1>1, TableAssumption DEF Entries, Invalid
<1>4. \A x, y \in L : \A c \in t.node[x].sub : c \in t.node[y].sub => x = y
  BY <1>1 DEF Linked
<1>5. ASSUME NEW i \in 0 .. k, NEW j \in 0 .. k, w[i] = w[j]  PROVE i = j
  <2> DEFINE q == SubSeq(path, 1, i)
             r == SubSeq(path, 1, j)
  <2>1. q \in Seq(STRING) /\ Len(q) = i /\ EntryAt(t, q) = w[i]
    BY <1>1, PrefixWay
  <2>2. r \in Seq(STRING) /\ Len(r) = j /\ EntryAt(t, r) = w[j]
    BY <1>1, PrefixWay
  <2> HIDE DEF q, r, w, k
  <2>3. q = r
    BY <1>1, <1>2, <1>3, <1>5, <2>1, <2>2, OnePath
  <2> QED
    BY <2>1, <2>2, <2>3
<1>6. /\ IsTree(v) /\ R \subseteq L \ {Root}
      /\ \A e \in L \ R : /\ IsNode(v.node[e]) /\ v.node[e].name = t.node[e].name
                          /\ v.node[e].sub \subseteq t.node[e].sub
  BY DEF Without
<1>7. /\ cut => k \in gone
      /\ ~cut => gone = {}
      /\ \A e \in Entries : (\A i \in gone \ {k} : e # w[i]) =>
           IF \E i \in gone : e = w[i - 1]
             THEN z.node[e] = Above(v.node[e], v.node[e].sub \ W)
             ELSE z.node[e] = v.node[e]
  <2>1. k \in Nat \ {0}
    BY <1>2
  <2> HIDE DEF w, k
  <2>2. PruneGives(v, w, k, cut, gone, Prune(v, w, k, cut))
    BY <1>6, <2>1, PruneIs
  <2>3. z.node = Prune(v, w, k, cut).node
    BY DEF w, k
  <2> HIDE DEF gone
  <2> QED
    BY <2>2, <2>3 DEF PruneGives
<1>8. /\ gone \subseteq 1 .. k /\ (gone # {} => cut)
      /\ \A i \in gone : i # k =>
           /\ i + 1 \in gone
           /\ v.node[w[i]].data = <<>> /\ v.node[w[i]].watches = <<>>
           /\ v.node[w[i]].sub \subseteq {w[i + 1]}
  <2> HIDE DEF w, k
  <2>1. gone \subseteq 1 .. k /\ (gone # {} => cut)
    BY DEF Gone
  <2>2. ASSUME NEW i \in gone, i # k
        PROVE  /\ i + 1 \in gone
               /\ v.node[w[i]].data = <<>> /\ v.node[w[i]].watches = <<>>
               /\ v.node[w[i]].sub \subseteq {w[i + 1]}
    <3>1. i \in 1 .. k /\ i + 1 \in 1 .. k /\ i \in i .. k - 1 /\ cut
      BY <1>2, <2>1, <2>2
    <3>2. \A j \in i + 1 .. k - 1 : j \in i .. k - 1
      BY <3>1
    <3> QED
      BY <3>1, <3>2 DEF Gone
  <2> QED
    BY <2>1, <2>2
<1>9. K = (L \ R) \ {w[i] : i \in gone \ {k}}
  BY DEF Kept
<1>10. w[k] = EntryAt(t, path)
  BY DEF EntryAt
<1>16. /\ \A x \in R : t.node[x].sub \subseteq R
       /\ \A x \in L \ R : t.node[x].sub \subseteq v.node[x].sub \cup R
       /\ cut => w[k] \in R \/ v.node[w[k]].sub = {}
  BY <1>10
<1> HIDE DEF w, k, gone, W
<1>11. \A x \in E \cap L : t.node[x].sub \subseteq E
  <2> SUFFICES ASSUME NEW x \in E \cap L PROVE t.node[x].sub \subseteq E
    OBVIOUS
  <2>1. CASE x \in R
    BY <1>16, <2>1
  <2>2. CASE x \notin R
    <3>1. PICK i \in gone : x = w[i]
      BY <2>2
    <3>2. t.node[x].sub \subseteq v.node[x].sub \cup R
      BY <1>16, <2>2
    <3>3. CASE i = k
      <4>1. v.node[x].sub = {}
        BY <1>8, <1>16, <2>2, <3>1, <3>3
      <4> QED
        BY <3>2, <4>1
    <3>4. CASE i # k
      <4>1. v.node[x].sub \subseteq {w[i + 1]} /\ i + 1 \in gone
        BY <1>8, <3>1, <3>4
      <4> QED
        BY <3>2, <4>1
    <3> QED
      BY <3>3, <3>4
  <2> QED
    BY <2>1, <2>2
<1>12. ASSUME NEW e \in K
       PROVE  /\ e \in L \ R
              /\ z.node[e].name = t.node[e].name
              /\ z.node[e].sub \subseteq t.node[e].sub
              /\ t.node[e].sub \subseteq z.node[e].sub \cup E
              /\ SameContents(v.node[e], z.node[e])
  <2>1. e \in L \ R /\ e \in Entries /\ \A i \in gone \ {k} : e # w[i]
    BY <1>1, <1>9
  <2>2. /\ IsNode(v.node[e]) /\ v.node[e].name = t.node[e].name
        /\ v.node[e].sub \subseteq t.node[e].sub
        /\ t.node[e].sub \subseteq v.node[e].sub \cup R
    BY <1>6, <1>16, <2>1
  <2>3. CASE \E i \in gone : e = w[i - 1]
    <3>1. PICK i \in gone : e = w[i - 1]
      BY <2>3
    <3> DEFINE d == v.node[e].sub \ W
    <3>2. z.node[e] = Above(v.node[e], d)
      BY <1>7, <2>1, <2>3
    <3> HIDE DEF d
    <3>3. /\ z.node[e].name = v.node[e].name /\ z.node[e].sub = d
          /\ SameContents(v.node[e], z.node[e])
      BY <2>2, <3>2, Relinked
    <3>4. v.node[e].sub \subseteq d \cup E
      <4> SUFFICES ASSUME NEW c \in v.node[e].sub, c \in W PROVE c \in E
        BY DEF d
      <4>1. PICK j \in 1 .. k : c = w[j]
        BY DEF W
      <4>2. i \in 1 .. k /\ i - 1 \in 0 .. k /\ j - 1 \in 0 .. k /\ j \in 0 .. k
        BY <1>2, <1>8
      <4>3. c \in t.node[e].sub /\ c \in t.node[w[j - 1]].sub /\ w[j - 1] \in L
        BY <1>2, <1>3, <2>2, <4>1, <4>2
      <4>4. w[i - 1] = w[j - 1]
        BY <1>4, <2>1, <3>1, <4>3
      <4>5. i = j
        <5>1. i - 1 = j - 1
          BY <1>5, <4>2, <4>4
        <5> QED
          BY <4>2, <5>1
      <4> QED
        BY <4>1, <4>5
    <3>5. d \subseteq v.node[e].sub
      BY DEF d
    <3>6. R \subseteq E
      OBVIOUS
    <3> HIDE DEF E
    <3>7. t.node[e].sub \subseteq z.node[e].sub \cup E
      BY <2>2, <3>3, <3>4, <3>6
    <3> QED
      BY <2>1, <2>2, <3>3, <3>5, <3>7
  <2>4. CASE ~\E i \in gone : e = w[i - 1]
    <3>1. z.node[e] = v.node[e]
      BY <1>7, <2>1, <2>4
    <3>2. SameContents(v.node[e], z.node[e])
      BY <3>1 DEF SameContents
    <3> QED
      BY <2>1, <2>2, <3>1, <3>2
  <2> QED
    BY <2>3, <2>4
<1> DEFINE x == EntryAt(t, p)
           y == EntryAt(z, p)
<1>13. y = x \/ (y = Invalid /\ x \in E)
  <2> HIDE DEF E
  <2>1. K \subseteq L
    BY <1>12
  <2>2. \A e \in K : /\ z.node[e].name = t.node[e].name
                     /\ z.node[e].sub \subseteq t.node[e].sub
                     /\ t.node[e].sub \subseteq z.node[e].sub \cup E
    BY <1>12
  <2>3. \/ EntryAt(z, p) = EntryAt(t, p)
        \/ EntryAt(z, p) = Invalid /\ EntryAt(t, p) \in E
    BY ONLY Sound(t, L), Sound(z, K), p \in Seq(STRING), <1>11, <2>1, <2>2, Shrunk
  <2> QED
    BY <2>3
<1>14. y # Invalid => y \in K
  <2>1. Linked(z, K)
    BY DEF Sound
  <2>2. Len(p) \in Nat /\ Walk(z, p) \in [0 .. Len(p) -> K \cup {Invalid}]
    BY <2>1, WayIs
  <2> QED
    BY <2>2 DEF EntryAt
<1>15. x \in E => x \in L /\ x # Invalid
  BY <1>2, <1>3, <1>6, <1>8
<1> HIDE DEF x, y
<1>17. CASE y = x
  <2>1. x # Invalid => /\ x \in L \ R /\ SameContents(v.node[x], z.node[x])
                       /\ z.node[x].sub \subseteq t.node[x].sub
    BY <1>12, <1>14, <1>17
  <2> QED
    BY <1>17, <2>1 DEF PruneLeaves, x, y
<1>18. CASE y = Invalid /\ x \in E
  <2>1. CASE x \in R
    BY <1>15, <1>18, <2>1 DEF PruneLeaves, x, y
  <2>2. CASE x \notin R
    <3>1. PICK i \in gone : x = w[i]
      BY <1>18, <2>2
    <3>2. CASE i = k
      <4>1. cut /\ x = w[k]
        BY <1>8, <3>1, <3>2
      <4> QED
        BY <1>15, <1>18, <4>1 DEF PruneLeaves, x, y, w, k
    <3>3. CASE i # k
      <4>1. v.node[x].data = <<>> /\ v.node[x].watches = <<>> /\ x \in L \ R
        BY <1>8, <1>15, <1>18, <2>2, <3>1, <3>3
      <4> QED
        BY <1>15, <1>18, <4>1 DEF PruneLeaves, x, y, w, k
    <3> QED
      BY <3>2, <3>3
  <2> QED
    BY <2>1, <2>2
<1> QED
  BY <1>13, <1>17, <1>18

-----------------------------------------------------------------------------
(* What each operation leaves at the end of a path.                        *)

NodeAt(t, p) == t.node[EntryAt(t, p)]

\* What there is at the end of a path is no other path's, and the root at the
\* end of the empty path only.
LEMMA EntryAtIs ==
  ASSUME NEW t, NEW L, Linked(t, L), NEW p \in Seq(STRING), EntryAt(t, p) # Invalid
  PROVE  /\ EntryAt(t, p) \in L /\ EntryAt(t, p) \in Entries /\ IsNode(NodeAt(t, p))
         /\ p # <<>> => EntryAt(t, p) # Root
         /\ Len(p) = 0 <=> p = <<>>
         /\ p = <<>> => EntryAt(t, p) = Root
<1>1. /\ Len(p) \in Nat /\ Walk(t, p) \in [0 .. Len(p) -> L \cup {Invalid}]
      /\ Walk(t, p)[0] = Root
      /\ \A i \in 1 .. Len(p) : Walk(t, p)[i] # Invalid => Walk(t, p)[i] # Root
  BY WayIs
<1>2. EntryAt(t, p) \in L
  BY <1>1 DEF EntryAt
<1>3. EntryAt(t, p) \in Entries /\ IsNode(NodeAt(t, p))
  BY <1>2 DEF Linked, NodeAt
<1>4. Len(p) = 0 <=> p = <<>>
  BY NoItems
<1>5. p # <<>> => EntryAt(t, p) # Root
  BY <1>1, <1>4 DEF EntryAt
<1>6. p = <<>> => EntryAt(t, p) = Root
  BY <1>1, <1>4 DEF EntryAt
<1> QED
  BY <1>2, <1>3, <1>4, <1>5, <1>6

\* With the same links there are the same entries at the ends of paths.
LEMMA SameWays ==
  ASSUME NEW t, NEW L, Sound(t, L), NEW u, Sound(u, L),
         \A y \in L : SameLinks(t.node[y], u.node[y]), NEW p \in Seq(STRING)
  PROVE  EntryAt(u, p) = EntryAt(t, p)
<1> DEFINE E == {}
<1>5. \A x : x \notin E
  OBVIOUS
<1> HIDE DEF E
<1>1. \A e \in E \cap L : t.node[e].sub \subseteq E
  BY <1>5
<1>2. \A e \in L : /\ u.node[e].name = t.node[e].name
                   /\ u.node[e].sub \subseteq t.node[e].sub
                   /\ t.node[e].sub \subseteq u.node[e].sub \cup E
  BY DEF SameLinks
<1>3. L \subseteq L
  OBVIOUS
<1>4. \/ EntryAt(u, p) = EntryAt(t, p)
      \/ EntryAt(u, p) = Invalid /\ EntryAt(t, p) \in E
  BY ONLY Sound(t, L), Sound(u, L), p \in Seq(STRING), <1>1, <1>2, <1>3, Shrunk
<1> QED
  BY <1>4, <1>5

\* Another node at the end of one path is there for no other path.
LEMMA PutPath ==
  ASSUME NEW t, NEW L, Sound(t, L), NEW path \in Seq(STRING), EntryAt(t, path) # Invalid,
         NEW x, IsNode(x), SameLinks(NodeAt(t, path), x),
         NEW v, IsTree(v), v.node = t.node, v.free = t.free,
         v.nextCreationId = t.nextCreationId,
         \A y \in Entries : v.version[y] >= t.version[y],
         NEW p \in Seq(STRING)
  PROVE  LET u == Put(v, EntryAt(t, path), x)
             m == IF p = path THEN x ELSE NodeAt(t, p)
         IN  /\ Turned(t, u, p, m)
             /\ EntryAt(t, p) # Invalid => SameContents(m, u.node[EntryAt(t, p)])
<1> DEFINE e == EntryAt(t, path)
           u == Put(v, e, x)
           m == IF p = path THEN x ELSE NodeAt(t, p)
           d == EntryAt(t, p)
<1>1. Linked(t, L)
  BY DEF Sound
<1>2. e \in L /\ e \in Entries /\ SameLinks(t.node[e], x)
  BY <1>1, EntryAtIs DEF NodeAt
<1>3. u.node[e] = x /\ \A y \in Entries \ {e} : u.node[y] = t.node[y]
  BY <1>2, PutIs
<1>4. Sound(u, L) /\ \A y \in L : SameLinks(t.node[y], u.node[y])
  <2> HIDE DEF e
  <2> QED
    BY <1>2, PutKeeps
<1> HIDE DEF u
<1>5. EntryAt(u, p) = d
  BY <1>4, SameWays
<1>6. d # Invalid => d \in L /\ d \in Entries
  BY <1>1, EntryAtIs
<1>7. d # Invalid /\ p # path => d # e
  BY <1>1, OnePath
<1>8. d # Invalid => SameContents(m, u.node[d])
  <2>1. CASE p = path
    BY <1>3, <2>1 DEF SameContents
  <2>2. CASE p # path
    BY <1>3, <1>6, <1>7, <2>2 DEF SameContents, NodeAt
  <2> QED
    BY <2>1, <2>2
<1>9. d # Invalid => u.node[d].sub \subseteq t.node[d].sub
  BY <1>4, <1>6 DEF SameLinks
<1> HIDE DEF m
<1>10. Turned(t, u, p, m)
  <2> HIDE DEF d
  <2>1. CASE d = Invalid
    BY <1>5, <2>1 DEF Turned, d
  <2>2. CASE d # Invalid
    BY <1>5, <1>8, <1>9, <2>2 DEF Turned, d
  <2> QED
    BY <2>1, <2>2
<1> QED
  BY <1>8, <1>10 DEF u, m

\* A node for a value or a watch.
IsLeaf(n, x, y, z) == n.data = x /\ n.room = y /\ n.watches = z

\* insert(): what it leaves at the end of each path.
InsertLeaves(t, path, owner, v, u, p) ==
  /\ EntryAt(t, path) # Invalid =>
       Turned(t, u, p, IF p = path THEN SetData(NodeAt(t, path), owner, v).node ELSE NodeAt(t, p))
  /\ EntryAt(t, path) = Invalid => \E leaf :
       /\ IsLeaf(leaf, <<[owner |-> owner, value |-> v]>>, v, <<>>)
       /\ Grows(t, path, leaf, u, p)
       /\ Len(t.free) >= Len(path) - Matched(t, path) => EntryAt(u, path) # Invalid

\* insert() stores the value at its path, and elsewhere at most adds a way there.
LEMMA InsertPath ==
  ASSUME NEW t, NEW L, Sound(t, L), NEW path \in Seq(STRING), NEW owner, NEW v,
         NEW p \in Seq(STRING)
  PROVE  InsertLeaves(t, path, owner, v, Insert(t, path, owner, v).tree, p)
<1> DEFINE w == Walk(t, path)
           e == w[Len(path)]
           s == SetData(t.node[e], owner, v)
           touched == (IF s.moved THEN {e} ELSE {})
                      \cup (IF s.rv THEN {w[i] : i \in 0 .. Len(path) - 1} ELSE {})
           datum == [owner |-> owner, value |-> v]
           leaf == [Blank(NoName, Invalid, 0) EXCEPT !.data = <<datum>>, !.room = v]
           u == Insert(t, path, owner, v).tree
<1>1. Linked(t, L) /\ IsTree(t) /\ e = EntryAt(t, path)
  BY DEF Sound, EntryAt
<1>2. CASE e = Invalid
  <2>1. u = Grown(t, path, leaf).tree
    BY <1>2 DEF Insert
  <2>2. IsNode(leaf) /\ IsLeaf(leaf, <<datum>>, v, <<>>)
    <3> DEFINE d == <<datum>>
               q == NoName
               b == Blank(q, Invalid, 0)
    <3> HIDE DEF q
    <3>1. IsNode(b)
      BY BlankIs DEF q
    <3>2. b.watches = <<>>
      BY DEF Blank
    <3> HIDE DEF d, b
    <3>3. Holds(b, [b EXCEPT !.data = d, !.room = v], d, v, b.watches)
      BY <3>1, RefilledHolds
    <3>4. leaf = [b EXCEPT !.data = d, !.room = v]
      BY DEF b, d, q
    <3> HIDE DEF leaf
    <3> QED
      BY <3>2, <3>3, <3>4 DEF Holds, IsLeaf, d
  <2> HIDE DEF leaf, u
  <2>3. PICK K : L \subseteq K /\ Sound(u, K) /\ Grew(t, L, path, leaf, u, K)
    BY <1>2, <2>1, <2>2, GrownKeeps
  <2>4. /\ Grows(t, path, leaf, u, p)
        /\ Len(t.free) >= Len(path) - Matched(t, path) => EntryAt(u, path) # Invalid
    <3>1. EntryAt(t, path) = Invalid
      BY <1>1, <1>2
    <3> HIDE DEF e, w
    <3> QED
      BY <2>3, <3>1, GrownGives
  <2>5. EntryAt(t, path) = Invalid
    BY <1>1, <1>2
  <2> HIDE DEF e, w
  <2> QED
    BY ONLY <2>2, <2>4, <2>5 DEF InsertLeaves, datum, u
<1>3. CASE e # Invalid
  <2> DEFINE b == Bumped(t, touched)
             n == NodeAt(t, path)
             x == SetData(n, owner, v).node
  <2>1. u = Put(b, e, s.node)
    <3> HIDE DEF s, touched
    <3>1. u = Result(Put(b, e, s.node), touched, s.rv).tree
      BY <1>3 DEF Insert, Put, s, touched
    <3> QED
      BY <3>1 DEF Result
  <2>2. s.node = x /\ t.node[e] = n
    BY <1>1 DEF NodeAt
  <2> HIDE DEF s, touched, n, u, w, e
  <2>3. IsNode(n) /\ EntryAt(t, path) # Invalid
    BY <1>1, <1>3, EntryAtIs DEF n
  <2>4. IsNode(x) /\ SameLinks(n, x)
    BY <2>3, SetDataKeeps
  <2>5. /\ IsTree(b) /\ b.node = t.node /\ b.free = t.free /\ b.nextCreationId = t.nextCreationId
        /\ \A y \in Entries : b.version[y] >= t.version[y]
    BY <1>1, BumpedIs
  <2> HIDE DEF b, x
  <2>6. u = Put(b, EntryAt(t, path), x)
    BY <1>1, <2>1, <2>2
  <2>7. Turned(t, u, p, IF p = path THEN x ELSE NodeAt(t, p))
    BY <2>3, <2>4, <2>5, <2>6, PutPath DEF n
  <2> QED
    BY <2>3, <2>7 DEF InsertLeaves, x, n, u
<1> QED
  BY <1>2, <1>3

\* addWatch(): what it leaves at the end of each path.
AddWatchLeaves(t, path, owner, u, p) ==
  /\ EntryAt(t, path) # Invalid => \E m, y :
       /\ Holds(NodeAt(t, path), m, NodeAt(t, path).data, y,
                Append(NodeAt(t, path).watches, owner))
       /\ NodeAt(t, path).room \in Nat /\ (\A d \in ToSet(NodeAt(t, path).data) : d.value \in Nat)
            /\ NodeAt(t, path).data \in Seq(ToSet(NodeAt(t, path).data)) => y \in Nat
       /\ Turned(t, u, p, IF p = path THEN m ELSE NodeAt(t, p))
  /\ EntryAt(t, path) = Invalid => \E leaf :
       /\ IsLeaf(leaf, <<>>, 0, <<owner>>)
       /\ Grows(t, path, leaf, u, p)
       /\ Len(t.free) >= Len(path) - Matched(t, path) => EntryAt(u, path) # Invalid

\* addWatch() lists the watch at its path, and elsewhere at most adds a way there.
LEMMA AddWatchPath ==
  ASSUME NEW t, NEW L, Sound(t, L), NEW path \in Seq(STRING), NEW owner,
         NEW p \in Seq(STRING)
  PROVE  AddWatchLeaves(t, path, owner, AddWatch(t, path, owner).tree, p)
<1> DEFINE w == Walk(t, path)
           e == w[Len(path)]
           touched == {w[i] : i \in 0 .. Len(path) - 1}
           leaf == [Blank(NoName, Invalid, 0) EXCEPT !.watches = <<owner>>]
           u == AddWatch(t, path, owner).tree
<1>1. Linked(t, L) /\ IsTree(t) /\ e = EntryAt(t, path)
  BY DEF Sound, EntryAt
<1>2. CASE e = Invalid
  <2>1. u = Grown(t, path, leaf).tree
    BY <1>2 DEF AddWatch
  <2>2. IsNode(leaf) /\ IsLeaf(leaf, <<>>, 0, <<owner>>)
    <3> DEFINE d == <<owner>>
               q == NoName
               b == Blank(q, Invalid, 0)
    <3> HIDE DEF q
    <3>1. IsNode(b)
      BY BlankIs DEF q
    <3>2. b.data = <<>> /\ b.room = 0
      BY DEF Blank
    <3> HIDE DEF d, b
    <3>3. Holds(b, [b EXCEPT !.watches = d], b.data, b.room, d)
      BY <3>1, RefilledHolds
    <3>4. leaf = [b EXCEPT !.watches = d]
      BY DEF b, d, q
    <3> HIDE DEF leaf
    <3> QED
      BY <3>2, <3>3, <3>4 DEF Holds, IsLeaf, d
  <2> HIDE DEF leaf, u
  <2>3. PICK K : L \subseteq K /\ Sound(u, K) /\ Grew(t, L, path, leaf, u, K)
    BY <1>2, <2>1, <2>2, GrownKeeps
  <2>4. /\ Grows(t, path, leaf, u, p)
        /\ Len(t.free) >= Len(path) - Matched(t, path) => EntryAt(u, path) # Invalid
    <3>1. EntryAt(t, path) = Invalid
      BY <1>1, <1>2
    <3> HIDE DEF e, w
    <3> QED
      BY <2>3, <3>1, GrownGives
  <2>5. EntryAt(t, path) = Invalid
    BY <1>1, <1>2
  <2> HIDE DEF e, w
  <2> QED
    BY ONLY <2>2, <2>4, <2>5 DEF AddWatchLeaves, u
<1>3. CASE e # Invalid
  <2> DEFINE b == Bumped(t, touched)
             n == NodeAt(t, path)
             z == Append(n.watches, owner)
             y == IF n.watches # <<>> THEN n.room
                  ELSE IF Len(n.data) = 1 THEN n.data[1].value ELSE 0
             x == [n EXCEPT !.watches = z, !.room = y]
  <2>1. u = Put(b, e, x)
    <3> HIDE DEF touched
    <3>1. u = Result(Put(b, e, x), touched, TRUE).tree
      BY <1>1, <1>3 DEF AddWatch, Put, touched, NodeAt
    <3> QED
      BY <3>1 DEF Result
  <2>2. ASSUME n.room \in Nat, \A d \in ToSet(n.data) : d.value \in Nat,
               n.data \in Seq(ToSet(n.data))
        PROVE  y \in Nat
    <3>1. ASSUME Len(n.data) = 1  PROVE n.data[1] \in ToSet(n.data)
      <4>1. 1 \in 1 .. Len(n.data)
        BY <3>1
      <4> HIDE DEF n
      <4> QED
        BY <2>2, <4>1, ElementOfSeq
    <3> HIDE DEF n
    <3> QED
      BY <2>2, <3>1
  <2> HIDE DEF touched, n, u, w, e, z, y
  <2>3. IsNode(n) /\ EntryAt(t, path) # Invalid
    BY <1>1, <1>3, EntryAtIs DEF n
  <2>4. Holds(n, x, n.data, y, z)
    BY <2>3, RefilledHolds
  <2>5. /\ IsTree(b) /\ b.node = t.node /\ b.free = t.free /\ b.nextCreationId = t.nextCreationId
        /\ \A r \in Entries : b.version[r] >= t.version[r]
    BY <1>1, BumpedIs
  <2> HIDE DEF b, x
  <2>6. u = Put(b, EntryAt(t, path), x) /\ IsNode(x) /\ SameLinks(n, x)
    BY <1>1, <2>1, <2>4 DEF Holds
  <2>7. Turned(t, u, p, IF p = path THEN x ELSE NodeAt(t, p))
    BY <2>3, <2>5, <2>6, PutPath DEF n
  <2> HIDE DEF n
  <2>8. z = Append(n.watches, owner)
    BY DEF z
  <2> QED
    <3>1. \E m, r : /\ Holds(n, m, n.data, r, Append(n.watches, owner))
                    /\ n.room \in Nat /\ (\A d \in ToSet(n.data) : d.value \in Nat)
                         /\ n.data \in Seq(ToSet(n.data)) => r \in Nat
                    /\ Turned(t, u, p, IF p = path THEN m ELSE NodeAt(t, p))
      BY ONLY <2>2, <2>4, <2>7, <2>8
    <3> QED
      BY ONLY <2>3, <3>1 DEF AddWatchLeaves, n, u
<1> QED
  BY <1>2, <1>3

\* One watch fewer is a list of the others, or what remWatch() takes for it.
LEMMA WithoutWatchIs ==
  ASSUME NEW A, NEW s \in Seq(A), NEW owner \in ToSet(s)
  PROVE  WithoutWatch(s, owner) \in Seq(A)
<1> DEFINE n == Len(s)
           i == CHOOSE j \in DOMAIN s : s[j] = owner /\ \A l \in 1 .. j - 1 : s[l] # owner
           u == [j \in 1 .. n |-> IF j < i \/ j = n THEN s[j] ELSE s[j + 1]]
<1>1. /\ n \in Nat /\ DOMAIN s = 1 .. n /\ \A j \in 1 .. n : s[j] \in A
  BY LenProperties, ElementOfSeq
<1>2. WithoutWatch(s, owner) = IF n = 1 THEN <<>> ELSE IF n = 2 THEN <<s[1]>> ELSE u
  <2> HIDE DEF n, i
  <2> QED
    BY DEF WithoutWatch, n, i
<1> HIDE DEF i, n
<1>3. u \in Seq(A)
  <2>1. \A j \in 1 .. n : j # n => j + 1 \in 1 .. n
    BY <1>1
  <2>2. u \in [1 .. n -> A]
    BY <1>1, <2>1
  <2> HIDE DEF u
  <2> QED
    BY <1>1, <2>2, SeqDef
<1>4. n = 2 => <<s[1]>> \in Seq(A)
  BY <1>1
<1> QED
  BY <1>2, <1>3, <1>4

\* remWatch(): what it leaves at the end of each path.
RemWatchLeaves(t, path, owner, u, p) ==
  \/ u = t
  \/ /\ EntryAt(t, path) # Invalid /\ owner \in ToSet(NodeAt(t, path).watches)
     /\ \E m : /\ Holds(NodeAt(t, path), m, NodeAt(t, path).data, NodeAt(t, path).room,
                        WithoutWatch(NodeAt(t, path).watches, owner))
               /\ Turned(t, u, p, IF p = path THEN m ELSE NodeAt(t, p))

\* remWatch() changes the watches at its path, and prunes what that leaves empty.
LEMMA RemWatchPath ==
  ASSUME NEW t, NEW L, Sound(t, L), NEW path \in Seq(STRING), NEW owner,
         NEW p \in Seq(STRING)
  PROVE  RemWatchLeaves(t, path, owner, RemWatch(t, path, owner).tree, p)
<1> DEFINE w == Walk(t, path)
           k == Len(path)
           e == w[k]
           n == [t.node[e] EXCEPT !.watches = WithoutWatch(@, owner)]
           t1 == Put(t, e, n)
           cut == ~Valid(n)
           touched == IF cut THEN {w[i] : i \in 0 .. k - 1} ELSE {w[k - 1]}
           none == e = Invalid \/ owner \notin ToSet(t.node[e].watches)
           u == RemWatch(t, path, owner).tree
<1>1. IsTree(t) /\ Linked(t, L) /\ e = EntryAt(t, path)
  BY DEF Sound, EntryAt
<1>2. u = IF none THEN t ELSE IF k = 0 THEN t1 ELSE Bumped(Prune(t1, w, k, cut), touched)
  <2>1. RemWatch(t, path, owner) =
          IF none THEN Result(t, {}, FALSE)
          ELSE IF k = 0 THEN Result(t1, {}, TRUE)
          ELSE Result(Bumped(Prune(t1, w, k, cut), touched), touched, cut)
    BY DEF RemWatch, Put
  <2> HIDE DEF none, t1, w, cut, touched
  <2> QED
    BY <2>1 DEF Result
<1>3. CASE none
  <2> HIDE DEF u
  <2> QED
    BY <1>2, <1>3 DEF RemWatchLeaves, u
<1>4. CASE ~none
  <2> DEFINE m == NodeAt(t, path)
             a == WithoutWatch(m.watches, owner)
             l == IF p = path THEN n ELSE NodeAt(t, p)
             d == EntryAt(t, p)
  <2>1. e # Invalid /\ EntryAt(t, path) # Invalid /\ owner \in ToSet(m.watches)
    BY <1>1, <1>4 DEF NodeAt
  <2>2. e \in L /\ e \in Entries /\ IsNode(m)
    BY <1>1, <2>1, EntryAtIs
  <2>3. Holds(m, n, m.data, m.room, a)
    <3>1. n = [m EXCEPT !.watches = a]
      BY <1>1 DEF NodeAt
    <3> HIDE DEF n, m, a
    <3> QED
      BY <2>2, <3>1, RefilledHolds
  <2> HIDE DEF a
  <2>4. IsNode(n) /\ SameLinks(m, n)
    BY <2>3 DEF Holds
  <2>5. \A y \in Entries : t.version[y] >= t.version[y] /\ t.version[y] \in Nat
    BY <1>1 DEF IsTree
  <2>6. /\ Turned(t, t1, p, l)
        /\ d # Invalid => SameContents(l, t1.node[d])
    <3> HIDE DEF n, m, d
    <3>1. t1 = Put(t, EntryAt(t, path), n)
      BY <1>1
    <3> HIDE DEF t1, e, w
    <3> QED
      BY <1>1, <2>1, <2>4, <2>5, <3>1, PutPath DEF m, d
  <2>7. /\ Sound(t1, L) /\ t1.version = t.version
        /\ \A y \in L : IsNode(t1.node[y]) /\ SameLinks(t.node[y], t1.node[y])
        /\ t1.nextCreationId = t.nextCreationId /\ t1.node[e] = n
    <3>1. SameLinks(t.node[e], n)
      BY <1>1, <2>4 DEF NodeAt
    <3> HIDE DEF n, e, m
    <3> QED
      BY <1>1, <2>2, <2>4, <2>5, <3>1, PutKeeps, PutIs
  <2>8. CASE k = 0
    <3>1. u = t1
      BY <1>2, <1>4, <2>8
    <3> HIDE DEF u, t1, n, m, none
    <3>2. Turned(t, u, p, IF p = path THEN n ELSE NodeAt(t, p))
      BY <2>6, <3>1
    <3> QED
      BY <2>1, <2>3, <3>2 DEF RemWatchLeaves, u, m, a
  <2>9. CASE k # 0
    <3> DEFINE z == Bumped(Prune(t1, w, k, cut), touched)
               K == Kept(L, {}, w, k, cut, t1)
    <3>1. u = z
      BY <1>2, <1>4, <2>9
    <3>2. cut \in BOOLEAN /\ L \ {} = L
      OBVIOUS
    <3>3. cut => n.data = <<>> /\ n.watches = <<>> /\ n.sub = {}
      BY DEF Valid
    <3> HIDE DEF cut, touched, none, u, t1, l, d, n, m
    <3>4. Without(t, L, {}, w, k, cut, t1)
      BY <2>7, <3>2 DEF Without, Sound, SameLinks
    <3>5. PrunedGives(L, {}, w, k, cut, t1, Prune(t1, w, k, cut))
      BY <1>1, <2>1, <2>9, <3>2, <3>4, Pruned
    <3>6. Sound(Prune(t1, w, k, cut), K) /\ IsTree(Prune(t1, w, k, cut))
      BY <3>5 DEF PrunedGives
    <3>7. Sound(z, K) /\ z.node = Prune(t1, w, k, cut).node
      <4> DEFINE v == Prune(t1, w, k, cut)
      <4> HIDE DEF v, K
      <4> QED
        BY <3>6, BumpedSound, BumpedIs DEF v
    <3> HIDE DEF z, K
    <3>8. \A x \in L \ {} : t.node[x].sub \subseteq t1.node[x].sub \cup {}
      BY <2>7 DEF SameLinks
    <3>9. cut => e \in {} \/ t1.node[e].sub = {}
      BY <2>7, <3>3
    <3>10. PruneLeaves(t, L, {}, w, k, cut, t1, z, p)
      <4>1. \A x \in {} : t.node[x].sub \subseteq {}
        OBVIOUS
      <4>2. K = Kept(L, {}, Walk(t, path), Len(path), cut, t1)
        BY DEF K
      <4>3. cut => EntryAt(t, path) \in {} \/ t1.node[EntryAt(t, path)].sub = {}
        BY <1>1, <3>9
      <4> DEFINE R == {}
      <4> HIDE DEF R
      <4>4. /\ Without(t, L, R, Walk(t, path), Len(path), cut, t1)
            /\ \A x \in R : t.node[x].sub \subseteq R
            /\ \A x \in L \ R : t.node[x].sub \subseteq t1.node[x].sub \cup R
            /\ cut => EntryAt(t, path) \in R \/ t1.node[EntryAt(t, path)].sub = {}
            /\ K = Kept(L, R, Walk(t, path), Len(path), cut, t1)
        BY <3>4, <3>8, <4>1, <4>2, <4>3 DEF R
      <4>5. PruneLeaves(t, L, R, Walk(t, path), Len(path), cut, t1, z, p)
        <5>1. Len(path) # 0 /\ z.node = Prune(t1, Walk(t, path), Len(path), cut).node
          BY <2>9, <3>7
        <5> QED
          BY ONLY Sound(t, L), path \in Seq(STRING), p \in Seq(STRING), <2>1, <3>2, <3>7,
                  <4>4, <5>1, PrunedPath
      <4> QED
        BY <4>5 DEF R
    <3>11. Turned(t, z, p, l)
      <4> DEFINE y == EntryAt(z, p)
      <4>1. \/ /\ y = d
               /\ d # Invalid => /\ SameContents(t1.node[d], z.node[d])
                                 /\ z.node[d].sub \subseteq t.node[d].sub
            \/ /\ y = Invalid /\ d # Invalid
               /\ \/ cut /\ d = e
                  \/ t1.node[d].data = <<>> /\ t1.node[d].watches = <<>>
        BY <3>10 DEF PruneLeaves, d
      <4> HIDE DEF y, e
      <4>2. d # Invalid => /\ l.data = t1.node[d].data /\ l.watches = t1.node[d].watches
                           /\ l.room = t1.node[d].room
        BY <2>6 DEF SameContents
      <4>3. d = e /\ cut => t1.node[d].data = <<>> /\ t1.node[d].watches = <<>>
        BY <2>7, <3>3
      <4>4. \/ /\ y = d
               /\ d # Invalid => SameContents(l, z.node[d]) /\ z.node[d].sub \subseteq t.node[d].sub
            \/ y = Invalid /\ d # Invalid /\ l.data = <<>> /\ l.watches = <<>>
        BY <4>1, <4>2, <4>3 DEF SameContents
      <4> QED
        BY <4>4 DEF Turned, y, d
    <3>12. \E x : /\ Holds(m, x, m.data, m.room, a)
                  /\ Turned(t, u, p, IF p = path THEN x ELSE NodeAt(t, p))
      BY ONLY <2>3, <3>1, <3>11 DEF l
    <3> QED
      BY ONLY <2>1, <3>12 DEF RemWatchLeaves, u, m, a
  <2> QED
    BY <2>8, <2>9
<1> QED
  BY <1>3, <1>4

\* remove(): what it leaves at the end of each path.
RemoveItemsLeaves(t, path, owner, u, p) ==
  LET n == Stripped(NodeAt(t, p), owner).node
  IN  /\ EntryAt(t, path) = Invalid => u = t
      /\ EntryAt(t, path) # Invalid =>
           Turned(t, u, p, IF IsPrefix(path, p) THEN n ELSE NodeAt(t, p))
      /\ /\ EntryAt(t, path) # Invalid /\ EntryAt(t, p) # Invalid
         /\ IsPrefix(path, p) /\ p # <<>> /\ NodeAt(t, p).sub = {}
         /\ n.data = <<>> /\ n.watches = <<>>
         => EntryAt(u, p) = Invalid

\* With a node that removeRecur() removes goes what is below it.
LEMMA RemovedBelow ==
  ASSUME NEW t, NEW L, Linked(t, L), NEW e \in L, NEW owner, NEW v, NEW R,
         RemoveLeaves(t, L, e, owner, v, R)
  PROVE  /\ R \subseteq Under(t, e) /\ R \subseteq L
         /\ \A x \in R : t.node[x].sub \subseteq R
         /\ \A x \in R : LET n == Stripped(t.node[x], owner).node
                         IN  n.data = <<>> /\ n.watches = <<>>
         /\ \A x \in Under(t, e) \ {Root} :
              LET n == Stripped(t.node[x], owner).node
              IN  t.node[x].sub = {} /\ n.data = <<>> /\ n.watches = <<>> => x \in R
<1> DEFINE S == Under(t, e)
           Bare(y) == LET n == Stripped(t.node[y], owner).node IN n.data = <<>> /\ n.watches = <<>>
<1>1. R = {x \in S \ {Root} : \A y \in Under(t, x) : Bare(y)}
  BY DEF RemoveLeaves
<1>2. S \subseteq L /\ \A x \in S : t.node[x].sub \subseteq S
  BY UnderIs
<1>3. \A x \in L : /\ x \in Under(t, x)
                   /\ \A y \in Under(t, x) : t.node[y].sub \subseteq Under(t, x)
                   /\ \A C : x \in C /\ (\A y \in C \cap L : t.node[y].sub \subseteq C) =>
                        Under(t, x) \subseteq C
  BY UnderIs
<1>4. \A x \in L : x # Invalid /\ t.node[x].sub \subseteq L
  BY TableAssumption DEF Linked, Entries, Invalid
<1>5. \A x \in L : \A c \in t.node[x].sub : t.node[c].parent = x /\ t.node[Root].parent = Invalid
  BY DEF Linked
<1>6. \A x \in L : \A c \in t.node[x].sub : c # Root
  BY <1>4, <1>5
<1> HIDE DEF S, Bare
<1>7. ASSUME NEW x \in R, NEW c \in t.node[x].sub  PROVE c \in R
  <2>1. x \in S /\ x \in L /\ \A y \in Under(t, x) : Bare(y)
    BY <1>1, <1>2
  <2>2. c \in S /\ c # Root /\ c \in L
    BY <1>2, <1>6, <2>1
  <2>3. c \in Under(t, x) /\ \A y \in Under(t, x) : t.node[y].sub \subseteq Under(t, x)
    BY <1>3, <2>1
  <2>4. Under(t, c) \subseteq Under(t, x)
    BY <1>3, <2>2, <2>3
  <2> QED
    BY <1>1, <2>1, <2>2, <2>4
<1>8. \A x \in R : Bare(x)
  BY <1>1, <1>2, <1>3
<1>9. ASSUME NEW x \in S \ {Root}, t.node[x].sub = {}, Bare(x)  PROVE x \in R
  <2>1. x \in L /\ x \in {x} /\ \A y \in {x} \cap L : t.node[y].sub \subseteq {x}
    BY <1>2, <1>9
  <2>2. Under(t, x) \subseteq {x}
    BY <1>3, <2>1
  <2> QED
    BY <1>1, <1>9, <2>2
<1> QED
  BY <1>1, <1>2, <1>7, <1>8, <1>9 DEF S, Bare

\* A removal strips what is at and below its path, and prunes what that leaves empty.
LEMMA RemoveItemsPath ==
  ASSUME NEW t, NEW L, Sound(t, L), NEW path \in Seq(STRING), NEW owner,
         NEW p \in Seq(STRING)
  PROVE  RemoveItemsLeaves(t, path, owner, RemoveItems(t, path, owner).tree, p)
<1> DEFINE w == Walk(t, path)
           k == Len(path)
           e == w[k]
           r == RemoveUnder(t, e, owner)
           v == r.tree
           R == r.removed
           touched == IF R = {} THEN {} ELSE {w[i] : i \in 0 .. k - 1}
           cut == e \in R
           u == RemoveItems(t, path, owner).tree
<1>1. IsTree(t) /\ Linked(t, L) /\ e = EntryAt(t, path)
  BY DEF Sound, EntryAt
<1>2. u = IF e = Invalid THEN t
          ELSE Bumped(IF k = 0 THEN v ELSE Prune(v, w, k, cut), touched)
  <2>1. RemoveItems(t, path, owner) =
          IF e = Invalid THEN Result(t, {}, FALSE)
          ELSE Result(Bumped(IF k = 0 THEN v ELSE Prune(v, w, k, cut), touched),
                      r.bumped \cup touched, R # {})
    BY DEF RemoveItems
  <2> HIDE DEF v, w, cut, touched, e
  <2> QED
    BY <2>1 DEF Result
<1> HIDE DEF u
<1>3. CASE e = Invalid
  <2>1. u = t
    BY <1>2, <1>3
  <2>2. EntryAt(t, path) = Invalid
    BY <1>1, <1>3
  <2> QED
    BY ONLY <2>1, <2>2 DEF RemoveItemsLeaves, u
<1>4. CASE e # Invalid
  <2>1. e \in L /\ k \in Nat
    BY <1>1, <1>4, WayIs
  <2>2. RemoveGives(t, L, e, v, R) /\ RemoveLeaves(t, L, e, owner, v, R)
    <3> HIDE DEF e
    <3> QED
      BY <2>1, RemoveUnderIs
  <2> DEFINE x == EntryAt(t, p)
             n == Stripped(NodeAt(t, p), owner).node
  <2>3. x # Invalid => (x \in Under(t, e) <=> IsPrefix(path, p))
    <3> HIDE DEF e
    <3> QED
      BY <1>1, <1>4, UnderPath
  <2>4. x # Invalid => x \in L /\ x \in Entries /\ (p # <<>> => x # Root)
    BY <1>1, EntryAtIs
  <2>5. L \subseteq Entries /\ Root \in L
    BY <1>1 DEF Linked
  <2> HIDE DEF w, k, v, R, e, x
  <2>6. /\ R \subseteq Under(t, e) /\ R \subseteq L
        /\ \A y \in R : t.node[y].sub \subseteq R
        /\ x \in R => n.data = <<>> /\ n.watches = <<>>
        /\ /\ x \in Under(t, e) \ {Root} /\ NodeAt(t, p).sub = {}
           /\ n.data = <<>> /\ n.watches = <<>>
           => x \in R
    BY <1>1, <2>1, <2>2, RemovedBelow DEF NodeAt, x
  <2>7. /\ IsTree(v) /\ v.nextCreationId = t.nextCreationId /\ FreeApart(v, L \ R)
        /\ R \subseteq L \ {Root}
        /\ \A y \in L \ R :
             /\ IsNode(v.node[y]) /\ v.node[y].name = t.node[y].name
             /\ v.node[y].parent = t.node[y].parent
             /\ v.node[y].creationId = t.node[y].creationId
             /\ v.node[y].sub \subseteq t.node[y].sub
             /\ \A c \in v.node[y].sub \cap R : c = e
    BY <2>2, <2>6 DEF RemoveGives
  <2>8. /\ \A y \in L \ R : t.node[y].sub \subseteq v.node[y].sub \cup R
        /\ x \in L \ R =>
             SameContents(IF x \in Under(t, e) THEN n ELSE NodeAt(t, p), v.node[x])
    BY <2>2 DEF RemoveLeaves, NodeAt, SameContents, x
  <2>9. ASSUME NEW z, EntryAt(z, p) # x \/ x # Invalid =>
                 \/ /\ EntryAt(z, p) = x /\ x \in L \ R
                    /\ SameContents(v.node[x], z.node[x]) /\ z.node[x].sub \subseteq t.node[x].sub
                 \/ /\ EntryAt(z, p) = Invalid /\ x # Invalid
                    /\ \/ x \in R
                       \/ x \in L \ R /\ v.node[x].data = <<>> /\ v.node[x].watches = <<>>
        PROVE  RemoveItemsLeaves(t, path, owner, z, p)
    <3> DEFINE m == IF IsPrefix(path, p) THEN n ELSE NodeAt(t, p)
    <3>1. x \in L \ R => /\ m.data = v.node[x].data /\ m.watches = v.node[x].watches
                         /\ m.room = v.node[x].room
      <4>1. x \in L \ R => x # Invalid
        BY <2>5, TableAssumption DEF Entries, Invalid
      <4>2. x \in L \ R => SameContents(m, v.node[x])
        BY <2>3, <2>8, <4>1
      <4> QED
        BY <4>2 DEF SameContents
    <3>2. x \in R => m.data = <<>> /\ m.watches = <<>>
      <4>1. x \in R => x # Invalid
        BY <2>5, <2>6, TableAssumption DEF Entries, Invalid
      <4> QED
        BY <2>3, <2>6, <4>1
    <3> HIDE DEF m
    <3>3. Turned(t, z, p, m)
      <4>1. x = Invalid => EntryAt(z, p) = Invalid
        BY <2>9
      <4>2. x # Invalid =>
              \/ /\ EntryAt(z, p) = x /\ SameContents(m, z.node[x])
                 /\ z.node[x].sub \subseteq t.node[x].sub
              \/ EntryAt(z, p) = Invalid /\ m.data = <<>> /\ m.watches = <<>>
        BY <2>9, <3>1, <3>2 DEF SameContents
      <4> QED
        BY ONLY <4>1, <4>2 DEF Turned, x
    <3>4. ASSUME x # Invalid, IsPrefix(path, p), p # <<>>, NodeAt(t, p).sub = {},
                 n.data = <<>>, n.watches = <<>>
          PROVE  EntryAt(z, p) = Invalid
      <4>1. x \in R
        BY <2>3, <2>4, <2>6, <3>4
      <4> QED
        BY <2>9, <3>4, <4>1
    <3>5. EntryAt(t, path) # Invalid
      BY <1>1, <1>4
    <3> QED
      BY ONLY <3>3, <3>4, <3>5 DEF RemoveItemsLeaves, m, n, x
  <2> HIDE DEF n
  <2>10. CASE k # 0
    <3> DEFINE z == Bumped(Prune(v, w, k, cut), touched)
               K == Kept(L, R, w, k, cut, v)
    <3>1. u = z
      BY <1>2, <1>4, <2>10
    <3>2. cut \in BOOLEAN /\ (cut => e \in R)
      OBVIOUS
    <3>3. \A y \in L \ R : \A c \in v.node[y].sub \cap R : cut /\ c = w[k]
      BY <2>7 DEF e
    <3> HIDE DEF cut, touched
    <3>4. Without(t, L, R, w, k, cut, v)
      BY <2>7, <3>3 DEF Without
    <3>5. PrunedGives(L, R, w, k, cut, v, Prune(v, w, k, cut))
      BY <1>1, <1>4, <2>10, <3>2, <3>4, Pruned DEF w, k, e
    <3>6. Sound(Prune(v, w, k, cut), K) /\ IsTree(Prune(v, w, k, cut))
      BY <3>5 DEF PrunedGives
    <3>7. Sound(z, K) /\ z.node = Prune(v, w, k, cut).node
      <4> DEFINE b == Prune(v, w, k, cut)
      <4> HIDE DEF b, K
      <4> QED
        BY <3>6, BumpedSound, BumpedIs DEF b
    <3> HIDE DEF z
    <3>8. PruneLeaves(t, L, R, w, k, cut, v, z, p)
      <4>1. /\ Without(t, L, R, Walk(t, path), Len(path), cut, v)
            /\ \A y \in R : t.node[y].sub \subseteq R
            /\ \A y \in L \ R : t.node[y].sub \subseteq v.node[y].sub \cup R
            /\ cut => EntryAt(t, path) \in R \/ v.node[EntryAt(t, path)].sub = {}
            /\ K = Kept(L, R, Walk(t, path), Len(path), cut, v)
            /\ Len(path) # 0 /\ z.node = Prune(v, Walk(t, path), Len(path), cut).node
            /\ EntryAt(t, path) # Invalid
        BY <1>1, <1>4, <2>6, <2>8, <2>10, <3>2, <3>4, <3>7 DEF w, k
      <4> HIDE DEF K
      <4>2. PruneLeaves(t, L, R, Walk(t, path), Len(path), cut, v, z, p)
        BY ONLY Sound(t, L), path \in Seq(STRING), p \in Seq(STRING), <3>2, <3>7, <4>1,
                PrunedPath
      <4> QED
        BY <4>2 DEF w, k
    <3>9. \/ /\ EntryAt(z, p) = x
             /\ x # Invalid => /\ x \in L \ R /\ SameContents(v.node[x], z.node[x])
                               /\ z.node[x].sub \subseteq t.node[x].sub
          \/ /\ EntryAt(z, p) = Invalid /\ x # Invalid
             /\ \/ x \in R
                \/ cut /\ x = w[k]
                \/ x \in L \ R /\ v.node[x].data = <<>> /\ v.node[x].watches = <<>>
      BY <3>8 DEF PruneLeaves, x
    <3>10. cut /\ x = w[k] => x \in R
      BY <3>2 DEF e
    <3>11. RemoveItemsLeaves(t, path, owner, z, p)
      BY <2>9, <3>9, <3>10
    <3> QED
      BY <3>1, <3>11 DEF u
  <2>11. CASE k = 0
    <3> DEFINE z == Bumped(v, touched)
               K == L \ R
    <3>1. u = z
      BY <1>2, <1>4, <2>11
    <3>2. e = Root
      BY <1>1, <2>11, EntryAtIs, <1>4 DEF k
    <3>3. Sound(v, K)
      <4>1. ASSUME NEW y \in K
            PROVE  v.node[y].sub \subseteq t.node[y].sub \cap K
        <5>1. t.node[y].sub \subseteq L
          BY <1>1 DEF Linked
        <5> QED
          BY <2>7, <3>2, <5>1
      <4>2. \A y \in K : /\ IsNode(v.node[y]) /\ v.node[y].name = t.node[y].name
                         /\ v.node[y].parent = t.node[y].parent
                         /\ v.node[y].creationId = t.node[y].creationId
        BY <2>7
      <4>3. K \in SUBSET L /\ Root \in K /\ FreeApart(v, K)
        BY <2>5, <2>7
      <4> HIDE DEF K
      <4> QED
        BY <2>7, <4>1, <4>2, <4>3, Thinned
    <3>4. Sound(z, K) /\ z.node = v.node
      <4> HIDE DEF K, touched
      <4> QED
        BY <2>7, <3>3, BumpedSound, BumpedIs
    <3> HIDE DEF z, touched, cut
    <3>5. \A y \in K : /\ z.node[y].name = t.node[y].name
                       /\ z.node[y].sub \subseteq t.node[y].sub
                       /\ t.node[y].sub \subseteq z.node[y].sub \cup R
      BY <2>7, <2>8, <3>4
    <3>6. K \subseteq L /\ \A y \in R \cap L : t.node[y].sub \subseteq R
      BY <2>6
    <3>7. \A y : y \in K <=> y \in L \ R
      OBVIOUS
    <3> HIDE DEF K
    <3>8. \/ EntryAt(z, p) = EntryAt(t, p)
          \/ EntryAt(z, p) = Invalid /\ EntryAt(t, p) \in R
      BY ONLY Sound(t, L), p \in Seq(STRING), <3>4, <3>5, <3>6, Shrunk
    <3>9. EntryAt(z, p) # Invalid => EntryAt(z, p) \in K
      <4>1. Linked(z, K)
        BY <3>4 DEF Sound
      <4> QED
        BY <4>1, EntryAtIs
    <3>10. SameContents(v.node[x], z.node[x])
      BY <3>4 DEF SameContents
    <3>11. x # Invalid =>
                 \/ /\ EntryAt(z, p) = x /\ x \in L \ R
                    /\ SameContents(v.node[x], z.node[x]) /\ z.node[x].sub \subseteq t.node[x].sub
                 \/ /\ EntryAt(z, p) = Invalid /\ x # Invalid
                    /\ \/ x \in R
                       \/ x \in L \ R /\ v.node[x].data = <<>> /\ v.node[x].watches = <<>>
      BY <3>5, <3>7, <3>8, <3>9, <3>10 DEF x
    <3>12. x = Invalid => EntryAt(z, p) = x
      BY <2>6, <2>5, <3>8, TableAssumption DEF x, Entries, Invalid
    <3>13. RemoveItemsLeaves(t, path, owner, z, p)
      BY <2>9, <3>11, <3>12
    <3> QED
      BY <3>1, <3>13 DEF u
  <2> QED
    BY <2>10, <2>11
<1> QED
  BY <1>3, <1>4

-----------------------------------------------------------------------------
(* Data and watches at the ends of paths are their publishers'.            *)

\* What the publishers of a path may have there, and whose watches there are.
DataAt(p) ==
  {[owner |-> z[1][1], value |-> z[2]] : z \in {x \in Publish : x[2] = p} \X Values}
Holders == {x[1] : x \in Publish \cup Watch} \cup {Garbage}

NodesFilled(t) ==
  \A p \in Seq(STRING) :
    EntryAt(t, p) # Invalid => Filled(NodeAt(t, p), DataAt(p), Holders)

\* The data and watches that the users may put at a path are contents of it.
LEMMA ContentsOf ==
  ASSUME NEW p
  PROVE  /\ Contents(DataAt(p), Holders)
         /\ \A x \in Publish \cup Watch : x[1] \in Holders
         /\ \A x \in Publish, v \in Values :
              x[2] = p => [owner |-> x[1], value |-> v] \in DataAt(p)
<1> DEFINE g == Garbage
<1>1. \A x \in Publish \cup Watch : x[1] \in Holders
  BY DEF Holders
<1>2. Garbage \in Holders
  BY DEF Holders
<1>3. ASSUME NEW x \in Publish, NEW v \in Values, x[2] = p
      PROVE  [owner |-> x[1], value |-> v] \in DataAt(p)
  <2> DEFINE z == <<x, v>>
  <2>1. z \in {y \in Publish : y[2] = p} \X Values /\ z[1][1] = x[1] /\ z[2] = v
    BY <1>3
  <2> HIDE DEF z
  <2> QED
    BY <2>1 DEF DataAt
<1>4. ASSUME NEW d \in DataAt(p)
      PROVE  /\ d.owner \in Holders /\ d.value \in Nat
             /\ d = [owner |-> d.owner, value |-> d.value]
  <2>1. PICK z \in {y \in Publish : y[2] = p} \X Values : d = [owner |-> z[1][1], value |-> z[2]]
    BY DEF DataAt
  <2>2. z[1] \in Publish /\ z[2] \in Nat
    BY ValuesAssumption
  <2> DEFINE a == z[1][1]
             b == z[2]
  <2>3. a \in Holders /\ b \in Nat /\ d = [owner |-> a, value |-> b]
    BY <1>1, <2>1, <2>2
  <2> HIDE DEF a, b
  <2> QED
    BY <2>3
<1> QED
  BY <1>1, <1>2, <1>3, <1>4 DEF Contents

\* A node that an operation turned is filled, if it was turned into a filled one.
LEMMA FilledTurned ==
  ASSUME NEW t, NEW u, NEW K, Sound(u, K), NEW p \in Seq(STRING), NEW m, NEW D, NEW A,
         Turned(t, u, p, m), EntryAt(t, p) # Invalid => Filled(m, D, A),
         EntryAt(u, p) # Invalid
  PROVE  Filled(NodeAt(u, p), D, A)
<1>1. Linked(u, K)
  BY DEF Sound
<1>2. IsNode(NodeAt(u, p))
  BY <1>1, EntryAtIs
<1>3. Filled(m, D, A) /\ SameContents(m, NodeAt(u, p))
  BY DEF Turned, NodeAt
<1> QED
  BY <1>2, <1>3 DEF Filled, SameContents

\* A node on a new way is filled, if the leaf is.
LEMMA FilledGrows ==
  ASSUME NEW t, NEW u, NEW K, Sound(u, K), NEW p \in Seq(STRING), NEW path, NEW leaf,
         NEW D, NEW A, Grows(t, path, leaf, u, p),
         EntryAt(t, p) # Invalid => Filled(NodeAt(t, p), D, A),
         p = path => /\ leaf.data \in Seq(D) /\ Apart(leaf.data)
                     /\ leaf.watches \in Seq(A) /\ leaf.room \in Nat,
         EntryAt(u, p) # Invalid
  PROVE  Filled(NodeAt(u, p), D, A)
<1> DEFINE n == NodeAt(u, p)
<1>1. Linked(u, K)
  BY DEF Sound
<1>2. IsNode(n)
  BY <1>1, EntryAtIs
<1>3. CASE EntryAt(t, p) # Invalid
  <2>1. SameContents(NodeAt(t, p), n) /\ Filled(NodeAt(t, p), D, A)
    BY <1>3 DEF Grows, NodeAt
  <2> HIDE DEF n
  <2> QED
    BY <1>2, <2>1 DEF Filled, SameContents, n
<1>4. CASE EntryAt(t, p) = Invalid /\ p = path
  <2>1. SameContents(leaf, n)
    BY <1>4 DEF Grows, NodeAt
  <2> HIDE DEF n
  <2> QED
    BY <1>2, <1>4, <2>1 DEF Filled, SameContents, n
<1>5. CASE EntryAt(t, p) = Invalid /\ p # path
  <2> DEFINE q == NoName
             b == Blank(q, Invalid, 0)
  <2>1. SameContents(b, n)
    BY <1>5 DEF Grows, NodeAt
  <2> HIDE DEF q
  <2>2. b.data = <<>> /\ b.watches = <<>> /\ b.room = 0
    BY DEF Blank
  <2> HIDE DEF n, b
  <2>3. n.data = <<>> /\ n.watches = <<>> /\ n.room = 0
    BY <2>1, <2>2 DEF SameContents
  <2>4. n.data \in Seq(D) /\ n.watches \in Seq(A) /\ Len(n.data) = 0
    BY <2>3
  <2>5. Apart(n.data)
    BY <2>4 DEF Apart
  <2> QED
    BY <1>2, <2>3, <2>4, <2>5 DEF Filled, n
<1> QED
  BY <1>3, <1>4, <1>5

\* insert() fills nodes with what the publisher may publish there.
LEMMA InsertFills ==
  ASSUME NEW t, NEW L, Sound(t, L), NodesFilled(t), NEW path \in Seq(STRING), NEW o,
         <<o, path>> \in Publish, NEW v \in Values,
         NEW u, u = Insert(t, path, o, v).tree, NEW K, Sound(u, K)
  PROVE  NodesFilled(u)
<1> SUFFICES ASSUME NEW p \in Seq(STRING), EntryAt(u, p) # Invalid
             PROVE  Filled(NodeAt(u, p), DataAt(p), Holders)
  BY DEF NodesFilled
<1> DEFINE D == DataAt(p)
           A == Holders
           datum == [owner |-> o, value |-> v]
<1>1. InsertLeaves(t, path, o, v, u, p)
  BY InsertPath
<1>2. EntryAt(t, p) # Invalid => Filled(NodeAt(t, p), D, A)
  BY DEF NodesFilled
<1>3. p = path => datum \in D
  <2> DEFINE x == <<o, path>>
  <2>1. x \in Publish /\ x[1] = o /\ x[2] = path
    OBVIOUS
  <2> HIDE DEF x
  <2> QED
    BY <2>1, ContentsOf
<1>4. Contents(D, A) /\ v \in Nat
  BY ContentsOf, ValuesAssumption
<1> HIDE DEF D, A
<1>5. CASE EntryAt(t, path) # Invalid
  <2> DEFINE m == IF p = path THEN SetData(NodeAt(t, path), o, v).node ELSE NodeAt(t, p)
  <2>1. Turned(t, u, p, m)
    BY <1>1, <1>5 DEF InsertLeaves
  <2>2. p = path /\ EntryAt(t, p) # Invalid => Filled(SetData(NodeAt(t, p), o, v).node, D, A)
    BY <1>2, <1>3, <1>4, SetDataStores
  <2>3. EntryAt(t, p) # Invalid => Filled(m, D, A)
    BY <1>2, <2>2
  <2> HIDE DEF m
  <2> QED
    BY <2>1, <2>3, FilledTurned DEF D, A
<1>6. CASE EntryAt(t, path) = Invalid
  <2>1. PICK leaf : IsLeaf(leaf, <<datum>>, v, <<>>) /\ Grows(t, path, leaf, u, p)
    BY <1>1, <1>6 DEF InsertLeaves
  <2>2. leaf.data = <<datum>> /\ leaf.room = v /\ leaf.watches = <<>>
    BY <2>1 DEF IsLeaf
  <2>3. p = path => leaf.data \in Seq(D)
    BY <1>3, <2>2
  <2>4. Apart(leaf.data)
    <3> HIDE DEF datum
    <3>1. Len(leaf.data) = 1
      BY <2>2
    <3> QED
      BY <3>1 DEF Apart
  <2>5. leaf.watches \in Seq(A) /\ leaf.room \in Nat
    BY <1>4, <2>2
  <2>6. p = path => /\ leaf.data \in Seq(D) /\ Apart(leaf.data)
                    /\ leaf.watches \in Seq(A) /\ leaf.room \in Nat
    BY <2>3, <2>4, <2>5
  <2> QED
    BY <1>2, <2>1, <2>6, FilledGrows DEF D, A
<1> QED
  BY <1>5, <1>6

\* addWatch() adds a watch of a watcher.
LEMMA AddWatchFills ==
  ASSUME NEW t, NEW L, Sound(t, L), NodesFilled(t), NEW path \in Seq(STRING),
         NEW o \in Holders, NEW u, u = AddWatch(t, path, o).tree, NEW K, Sound(u, K)
  PROVE  NodesFilled(u)
<1> SUFFICES ASSUME NEW p \in Seq(STRING), EntryAt(u, p) # Invalid
             PROVE  Filled(NodeAt(u, p), DataAt(p), Holders)
  BY DEF NodesFilled
<1> DEFINE D == DataAt(p)
           A == Holders
           n == NodeAt(t, path)
<1>1. AddWatchLeaves(t, path, o, u, p)
  BY AddWatchPath
<1>2. EntryAt(t, p) # Invalid => Filled(NodeAt(t, p), D, A)
  BY DEF NodesFilled
<1>3. Contents(D, A)
  BY ContentsOf
<1>4. o \in A
  OBVIOUS
<1> HIDE DEF D, A
<1>5. CASE EntryAt(t, path) # Invalid
  <2>1. PICK m, y :
          /\ Holds(n, m, n.data, y, Append(n.watches, o))
          /\ n.room \in Nat /\ (\A d \in ToSet(n.data) : d.value \in Nat)
               /\ n.data \in Seq(ToSet(n.data)) => y \in Nat
          /\ Turned(t, u, p, IF p = path THEN m ELSE NodeAt(t, p))
    BY <1>1, <1>5 DEF AddWatchLeaves
  <2> DEFINE x == IF p = path THEN m ELSE NodeAt(t, p)
  <2>2. ASSUME p = path, EntryAt(t, p) # Invalid  PROVE Filled(m, D, A)
    <3>1. Filled(n, D, A)
      BY <1>2, <2>2
    <3> HIDE DEF n
    <3>2. /\ n.data \in Seq(D) /\ Apart(n.data) /\ n.watches \in Seq(A) /\ n.room \in Nat
      BY <3>1 DEF Filled
    <3>3. ToSet(n.data) \subseteq D
      BY <3>2, NoItems
    <3>4. \A d \in ToSet(n.data) : d.value \in Nat
      BY <1>3, <3>3 DEF Contents
    <3>5. n.data \in Seq(ToSet(n.data))
      <4>1. Len(n.data) \in Nat /\ n.data = [i \in 1 .. Len(n.data) |-> n.data[i]]
        BY <3>2, LenProperties
      <4>2. \A i \in 1 .. Len(n.data) : n.data[i] \in ToSet(n.data)
        BY <3>2, NoItems
      <4> DEFINE a == n.data
                 S == ToSet(a)
      <4> HIDE DEF a
      <4>3. Len(a) \in Nat /\ a = [i \in 1 .. Len(a) |-> a[i]]
        BY <4>1 DEF a
      <4>4. \A i \in 1 .. Len(a) : a[i] \in S
        BY <4>2 DEF a
      <4> HIDE DEF S
      <4>5. a \in [1 .. Len(a) -> S]
        BY <4>3, <4>4
      <4> QED
        BY <4>3, <4>5, SeqDef DEF a, S
    <3>6. y \in Nat
      BY <2>1, <3>2, <3>4, <3>5
    <3>7. Append(n.watches, o) \in Seq(A)
      BY <1>4, <3>2, AppendIs
    <3> QED
      BY <2>1, <3>2, <3>6, <3>7 DEF Filled, Holds
  <2>3. EntryAt(t, p) # Invalid => Filled(x, D, A)
    BY <1>2, <2>2
  <2>4. Turned(t, u, p, x)
    BY <2>1
  <2> HIDE DEF x
  <2> QED
    BY <2>3, <2>4, FilledTurned DEF D, A
<1>6. CASE EntryAt(t, path) = Invalid
  <2>1. PICK leaf : IsLeaf(leaf, <<>>, 0, <<o>>) /\ Grows(t, path, leaf, u, p)
    BY <1>1, <1>6 DEF AddWatchLeaves
  <2>2. leaf.data = <<>> /\ leaf.room = 0 /\ leaf.watches = <<o>>
    BY <2>1 DEF IsLeaf
  <2>3. leaf.data \in Seq(D) /\ Len(leaf.data) = 0
    BY <2>2
  <2>4. Apart(leaf.data)
    BY <2>3 DEF Apart
  <2>5. leaf.watches \in Seq(A) /\ leaf.room \in Nat
    BY <1>4, <2>2
  <2> QED
    BY <1>2, <2>1, <2>3, <2>4, <2>5, FilledGrows DEF D, A
<1> QED
  BY <1>5, <1>6

\* remWatch() leaves the other watches, or takes some for others.
LEMMA RemWatchFills ==
  ASSUME NEW t, NEW L, Sound(t, L), NodesFilled(t), NEW path \in Seq(STRING), NEW o,
         NEW u, u = RemWatch(t, path, o).tree, NEW K, Sound(u, K)
  PROVE  NodesFilled(u)
<1> SUFFICES ASSUME NEW p \in Seq(STRING), EntryAt(u, p) # Invalid
             PROVE  Filled(NodeAt(u, p), DataAt(p), Holders)
  BY DEF NodesFilled
<1> DEFINE D == DataAt(p)
           A == Holders
           n == NodeAt(t, path)
<1>1. RemWatchLeaves(t, path, o, u, p)
  BY RemWatchPath
<1>2. EntryAt(t, p) # Invalid => Filled(NodeAt(t, p), D, A)
  BY DEF NodesFilled
<1> HIDE DEF D, A
<1>3. CASE u = t
  BY <1>2, <1>3 DEF D, A
<1>4. CASE u # t
  <2>1. PICK m : /\ Holds(n, m, n.data, n.room, WithoutWatch(n.watches, o))
                 /\ Turned(t, u, p, IF p = path THEN m ELSE NodeAt(t, p))
    BY <1>1, <1>4 DEF RemWatchLeaves
  <2>2. o \in ToSet(n.watches)
    BY <1>1, <1>4 DEF RemWatchLeaves
  <2> DEFINE x == IF p = path THEN m ELSE NodeAt(t, p)
  <2>3. ASSUME p = path, EntryAt(t, p) # Invalid  PROVE Filled(m, D, A)
    <3>1. Filled(n, D, A)
      BY <1>2, <2>3
    <3> HIDE DEF n
    <3>2. /\ n.data \in Seq(D) /\ Apart(n.data) /\ n.watches \in Seq(A) /\ n.room \in Nat
      BY <3>1 DEF Filled
    <3>3. WithoutWatch(n.watches, o) \in Seq(A)
      BY <2>2, <3>2, WithoutWatchIs
    <3> QED
      BY <2>1, <3>2, <3>3 DEF Filled, Holds
  <2>4. EntryAt(t, p) # Invalid => Filled(x, D, A)
    BY <1>2, <2>3
  <2>5. Turned(t, u, p, x)
    BY <2>1
  <2> HIDE DEF x
  <2> QED
    BY <2>4, <2>5, FilledTurned DEF D, A
<1> QED
  BY <1>3, <1>4

\* remove() leaves some of what there was.
LEMMA RemoveItemsFills ==
  ASSUME NEW t, NEW L, Sound(t, L), NodesFilled(t), NEW path \in Seq(STRING), NEW o,
         NEW u, u = RemoveItems(t, path, o).tree, NEW K, Sound(u, K)
  PROVE  NodesFilled(u)
<1> SUFFICES ASSUME NEW p \in Seq(STRING), EntryAt(u, p) # Invalid
             PROVE  Filled(NodeAt(u, p), DataAt(p), Holders)
  BY DEF NodesFilled
<1> DEFINE D == DataAt(p)
           A == Holders
           n == Stripped(NodeAt(t, p), o).node
           x == IF IsPrefix(path, p) THEN n ELSE NodeAt(t, p)
<1>1. RemoveItemsLeaves(t, path, o, u, p)
  BY RemoveItemsPath
<1>2. EntryAt(t, p) # Invalid => Filled(NodeAt(t, p), D, A)
  BY DEF NodesFilled
<1>3. Contents(D, A)
  BY ContentsOf
<1> HIDE DEF D, A
<1>4. CASE EntryAt(t, path) = Invalid
  <2>1. u = t
    BY <1>1, <1>4 DEF RemoveItemsLeaves
  <2> QED
    BY <1>2, <2>1 DEF D, A
<1>5. CASE EntryAt(t, path) # Invalid
  <2>1. Turned(t, u, p, x)
    BY <1>1, <1>5 DEF RemoveItemsLeaves
  <2>2. EntryAt(t, p) # Invalid => Filled(n, D, A)
    BY <1>2, <1>3, StrippedLeaves
  <2>3. EntryAt(t, p) # Invalid => Filled(x, D, A)
    BY <1>2, <2>2
  <2> HIDE DEF x
  <2> QED
    BY <2>1, <2>3, FilledTurned DEF D, A
<1> QED
  BY <1>4, <1>5

\* In a new tree there is the root only, and nothing in it.
LEMMA InitRoot ==
  ASSUME Init, NEW p \in Seq(STRING), EntryAt(tree, p) # Invalid
  PROVE  /\ p = <<>>
         /\ LET n == NodeAt(tree, p)
            IN  IsNode(n) /\ n.data = <<>> /\ n.watches = <<>> /\ n.room = 0
<1> DEFINE q == NoName
           b == Blank(q, Invalid, 0)
           e == EntryAt(tree, p)
<1>1. \A x \in Entries : tree.node[x] = IF x = Root THEN b ELSE Freed
  BY DEF Init, EmptyTree
<1>2. PICK L \in SUBSET Entries : Sound(tree, L)
  BY InitInv DEF Inv
<1>3. Linked(tree, L)
  BY <1>2 DEF Sound
<1>4. e \in Entries /\ IsNode(NodeAt(tree, p)) /\ (p # <<>> => e # Root)
  BY <1>3, EntryAtIs
<1>5. b.data = <<>> /\ b.watches = <<>> /\ b.room = 0
  <2> HIDE DEF q
  <2> QED
    BY DEF Blank
<1> HIDE DEF b
<1>6. e = Root
  <2> DEFINE n == NodeAt(tree, p)
  <2>1. IsNode(n)
    BY <1>4
  <2> HIDE DEF n
  <2>2. "name" \in DOMAIN n
    BY <2>1 DEF IsNode
  <2>3. "name" \notin DOMAIN Freed
    BY DEF Freed
  <2>4. n = tree.node[e]
    BY DEF n, NodeAt
  <2> HIDE DEF e
  <2> QED
    BY <1>1, <1>4, <2>2, <2>3, <2>4
<1>7. NodeAt(tree, p) = b
  BY <1>1, <1>4, <1>6 DEF NodeAt
<1> QED
  BY <1>4, <1>5, <1>6, <1>7

\* The first tree is filled.
LEMMA InitFilled ==
  ASSUME Init
  PROVE  NodesFilled(tree)
<1> SUFFICES ASSUME NEW p \in Seq(STRING), EntryAt(tree, p) # Invalid
             PROVE  Filled(NodeAt(tree, p), DataAt(p), Holders)
  BY DEF NodesFilled
<1> DEFINE n == NodeAt(tree, p)
           D == DataAt(p)
           A == Holders
<1>1. IsNode(n) /\ n.data = <<>> /\ n.watches = <<>> /\ n.room = 0
  BY InitRoot
<1> HIDE DEF n, D, A
<1>2. n.data \in Seq(D) /\ n.watches \in Seq(A) /\ Len(n.data) = 0
  BY <1>1
<1>3. Apart(n.data)
  BY <1>2 DEF Apart
<1> QED
  BY <1>1, <1>2, <1>3 DEF Filled, n, D, A


\* Every step leaves a tree filled with what its publishers may have there.
LEMMA NextFilled ==
  ASSUME Inv, NodesFilled(tree), Next
  PROVE  NodesFilled(tree')
<1>1. PICK L \in SUBSET Entries : Sound(tree, L)
  BY DEF Inv
<1>2. PICK K \in SUBSET Entries : Sound(tree', K)
  BY <1>1, StepKeeps DEF Keeps
<1> DEFINE u == tree'
<1>3. u = tree'
  OBVIOUS
<1> HIDE DEF u
<1>4. ASSUME NEW x \in Publish, NEW v \in Values, SetItem(x[1], x[2], v)
      PROVE  NodesFilled(u)
  <2>1. x[2] \in Seq(STRING) /\ u = Insert(tree, x[2], x[1], v).tree /\ <<x[1], x[2]>> \in Publish
    BY <1>3, <1>4, PathsAssumption DEF SetItem
  <2> QED
    BY <1>1, <1>2, <1>3, <2>1, InsertFills
<1>5. ASSUME NEW x \in Publish \cup Watch, RemItems(x[1], x[2])
      PROVE  NodesFilled(u)
  <2>1. x[2] \in Seq(STRING) /\ u = RemoveItems(tree, x[2], x[1]).tree
    BY <1>3, <1>5, PathsAssumption DEF RemItems
  <2> QED
    BY <1>1, <1>2, <1>3, <2>1, RemoveItemsFills
<1>6. ASSUME NEW x \in Watch, SetWatch(x[1], x[2])
      PROVE  NodesFilled(u)
  <2>1. x[2] \in Seq(STRING) /\ u = AddWatch(tree, x[2], x[1]).tree
    BY <1>3, <1>6, PathsAssumption DEF SetWatch
  <2>2. x[1] \in Holders
    BY ContentsOf
  <2> QED
    BY <1>1, <1>2, <1>3, <2>1, <2>2, AddWatchFills
<1>7. ASSUME NEW x \in Watch, DropWatch(x[1], x[2])
      PROVE  NodesFilled(u)
  <2>1. x[2] \in Seq(STRING) /\ u = RemWatch(tree, x[2], x[1]).tree
    BY <1>3, <1>7, PathsAssumption DEF DropWatch
  <2> QED
    BY <1>1, <1>2, <1>3, <2>1, RemWatchFills
<1>8. ASSUME NEW o \in Owners, Disconnect(o.client)
      PROVE  NodesFilled(u)
  <2> DEFINE r == [client |-> o.client, publisher |-> Everyone]
  <2>1. u = RemoveItems(tree, <<>>, r).tree
    BY <1>3, <1>8 DEF Disconnect
  <2>2. <<>> \in Seq(STRING)
    OBVIOUS
  <2> HIDE DEF r
  <2> QED
    BY <1>1, <1>2, <1>3, <2>1, <2>2, RemoveItemsFills
<1>9. NodesFilled(u)
  BY <1>4, <1>5, <1>6, <1>7, <1>8 DEF Next
<1> QED
  BY <1>3, <1>9

FilledInv == Inv /\ NodesFilled(tree)

\* Every step keeps the nodes filled.
LEMMA FilledNext ==
  ASSUME FilledInv, [Next]_tree
  PROVE  FilledInv'
<1>1. Inv'
  BY NextInv DEF FilledInv
<1>2. NodesFilled(tree')
  <2>1. CASE Next
    BY <2>1, NextFilled DEF FilledInv
  <2>2. CASE UNCHANGED tree
    BY <2>2 DEF FilledInv
  <2> QED
    BY <2>1, <2>2
<1>3. NodesFilled(tree)'
  BY <1>2 DEF NodesFilled, NodeAt, EntryAt
<1> QED
  BY <1>1, <1>3 DEF FilledInv

\* At the end of every path there is one datum at most of each owner that publishes
\* there, and a list of watches, however data and watches are moved in a node's block
\* (setData(), removeRecur(), remWatch()).
THEOREM FilledAlways == Spec => []FilledInv
<1>1. Init => FilledInv
  BY InitInv, InitFilled DEF FilledInv
<1>2. FilledInv /\ [Next]_tree => FilledInv'
  BY FilledNext
<1> QED
  BY <1>1, <1>2, PTL DEF Spec

-----------------------------------------------------------------------------
(* A value that is set is stored.                                          *)

\* Values are published at leaves: not at the root, not above one another and not
\* at a path that is watched or is above one.
LeavesOnly ==
  /\ \A x \in Publish : x[2] # <<>>
  /\ \A x, y \in Publish : IsPrefix(x[2], y[2]) => x[2] = y[2]
  /\ \A x \in Publish, y \in Watch : ~IsPrefix(x[2], y[2])

\* There is a node for a published path only while it has a value.
AtLeaf(t, p) ==
  EntryAt(t, p) # Invalid =>
    NodeAt(t, p).data # <<>> /\ NodeAt(t, p).watches = <<>> /\ NodeAt(t, p).sub = {}
LeavesFilled(t) == \A x \in Publish : AtLeaf(t, x[2])

\* What an owner has published, by what there is at the end of the path.
LEMMA PublishedIs ==
  ASSUME NEW t, NEW o, NEW p
  PROVE  /\ EntryAt(t, p) = Invalid => PublishedAt(t, o, p) = {}
         /\ EntryAt(t, p) # Invalid => PublishedAt(t, o, p) = ValuesOf(NodeAt(t, p).data, o)
<1> DEFINE e == Walk(t, p)[Len(p)]
<1>1. e = EntryAt(t, p)
  BY DEF EntryAt
<1> DEFINE D == IF e = Invalid THEN {} ELSE ToSet(t.node[e].data)
<1>2. PublishedAt(t, o, p) = {d.value : d \in {x \in D : x.owner = o}}
  BY DEF PublishedAt
<1>3. D = IF EntryAt(t, p) = Invalid THEN {} ELSE ToSet(NodeAt(t, p).data)
  BY <1>1 DEF NodeAt
<1> HIDE DEF D, e
<1> QED
  BY <1>2, <1>3 DEF ValuesOf

\* A path is above itself.
LEMMA PrefixItself ==
  ASSUME NEW p \in Seq(STRING)
  PROVE  IsPrefix(p, p)
<1>1. Len(p) \in Nat /\ SubSeq(p, 1, Len(p)) = p
  BY LenProperties, SubSeqFull
<1> QED
  BY <1>1 DEF IsPrefix

\* A node turned into one with data and no watch is still a leaf.
LEMMA LeafTurned ==
  ASSUME NEW t, NEW u, NEW p, NEW m, Turned(t, u, p, m), AtLeaf(t, p),
         EntryAt(t, p) # Invalid /\ EntryAt(u, p) # Invalid => m.data # <<>> /\ m.watches = <<>>
  PROVE  AtLeaf(u, p)
<1> SUFFICES ASSUME EntryAt(u, p) # Invalid
             PROVE  NodeAt(u, p).data # <<>> /\ NodeAt(u, p).watches = <<>> /\ NodeAt(u, p).sub = {}
  BY DEF AtLeaf
<1>1. EntryAt(t, p) # Invalid
  BY DEF Turned
<1>2. EntryAt(u, p) = EntryAt(t, p) /\ SameContents(m, NodeAt(u, p))
      /\ NodeAt(u, p).sub \subseteq NodeAt(t, p).sub
  BY <1>1 DEF Turned, NodeAt
<1>3. NodeAt(t, p).sub = {}
  BY <1>1 DEF AtLeaf
<1> QED
  BY <1>1, <1>2, <1>3 DEF SameContents

\* A way that goes through no leaf leaves it a leaf.
LEMMA LeafGrows ==
  ASSUME NEW t, NEW u, NEW p, NEW path, NEW leaf, Grows(t, path, leaf, u, p), AtLeaf(t, p),
         IsPrefix(p, path) => p = path,
         p = path => leaf.data # <<>> /\ leaf.watches = <<>>
  PROVE  AtLeaf(u, p)
<1> SUFFICES ASSUME EntryAt(u, p) # Invalid
             PROVE  NodeAt(u, p).data # <<>> /\ NodeAt(u, p).watches = <<>> /\ NodeAt(u, p).sub = {}
  BY DEF AtLeaf
<1>1. CASE EntryAt(t, p) # Invalid
  <2>1. SameContents(NodeAt(t, p), NodeAt(u, p)) /\ NodeAt(u, p).sub = NodeAt(t, p).sub
    BY <1>1 DEF Grows, NodeAt
  <2> QED
    BY <1>1, <2>1 DEF AtLeaf, SameContents
<1>2. CASE EntryAt(t, p) = Invalid
  <2>1. SameContents(leaf, NodeAt(u, p)) /\ NodeAt(u, p).sub = {} /\ p = path
    BY <1>2 DEF Grows, NodeAt
  <2> QED
    BY <2>1 DEF SameContents
<1> QED
  BY <1>1, <1>2

\* With a free entry for every new node the value is there afterwards.
SetThere(t, u, o, path, v) ==
  Len(t.free) >= Len(path) - Matched(t, path) => PublishedAt(u, o, path) = {v}

\* At the leaf, insert() finds a datum to replace or makes a node for its own.
LEMMA InsertLeaf ==
  ASSUME LeavesOnly, NEW t, NEW L, Sound(t, L), NodesFilled(t), LeavesFilled(t),
         NEW path \in Seq(STRING), NEW o, <<o, path>> \in Publish, NEW v \in Values,
         NEW u, u = Insert(t, path, o, v).tree
  PROVE  LeavesFilled(u) /\ SetThere(t, u, o, path, v)
<1> DEFINE m == SetData(NodeAt(t, path), o, v).node
           datum == [owner |-> o, value |-> v]
<1>1. \E x \in Publish : x[1] = o /\ x[2] = path
  OBVIOUS
<1>2. /\ EntryAt(t, path) # Invalid => NodeAt(t, path).data # <<>> /\ NodeAt(t, path).watches = <<>>
      /\ \A x \in Publish : IsPrefix(x[2], path) => x[2] = path
  BY <1>1 DEF LeavesFilled, AtLeaf, LeavesOnly
<1>3. EntryAt(t, path) # Invalid =>
        m.data # <<>> /\ m.watches = <<>> /\ ValuesOf(m.data, o) = {v}
  <2> SUFFICES ASSUME EntryAt(t, path) # Invalid
               PROVE  m.data # <<>> /\ m.watches = <<>> /\ ValuesOf(m.data, o) = {v}
    OBVIOUS
  <2> DEFINE D == DataAt(path)
             A == Holders
             n == NodeAt(t, path)
  <2>1. Contents(D, A) /\ datum \in D /\ Filled(n, D, A)
    BY <1>1, ContentsOf DEF NodesFilled
  <2>2. n.data # <<>> /\ n.watches = <<>>
    BY <1>2
  <2> HIDE DEF D, A, n
  <2>3. Stored(n, o, v, SetData(n, o, v).node)
    BY <2>1, SetDataStores
  <2> QED
    BY <2>2, <2>3 DEF Stored, n
<1>4. ASSUME NEW p \in Seq(STRING)
      PROVE  InsertLeaves(t, path, o, v, u, p)
  BY InsertPath
<1> HIDE DEF m
<1>5. ASSUME NEW x \in Publish
      PROVE  AtLeaf(u, x[2])
  <2> DEFINE p == x[2]
  <2>1. p \in Seq(STRING) /\ AtLeaf(t, p) /\ (IsPrefix(p, path) => p = path)
    BY <1>2, PathsAssumption DEF LeavesFilled
  <2> HIDE DEF p
  <2>2. InsertLeaves(t, path, o, v, u, p)
    BY <1>4, <2>1
  <2>3. CASE EntryAt(t, path) # Invalid
    <3> DEFINE l == IF p = path THEN m ELSE NodeAt(t, p)
    <3>1. Turned(t, u, p, l)
      BY <2>2, <2>3 DEF InsertLeaves, m
    <3>2. EntryAt(t, p) # Invalid => l.data # <<>> /\ l.watches = <<>>
      BY <1>3, <2>1, <2>3 DEF AtLeaf
    <3> HIDE DEF l
    <3>3. AtLeaf(u, p)
      BY <2>1, <3>1, <3>2, LeafTurned
    <3> QED
      BY <3>3 DEF p
  <2>4. CASE EntryAt(t, path) = Invalid
    <3>1. PICK leaf : IsLeaf(leaf, <<datum>>, v, <<>>) /\ Grows(t, path, leaf, u, p)
      BY <2>2, <2>4 DEF InsertLeaves
    <3>2. leaf.data # <<>> /\ leaf.watches = <<>>
      BY <3>1 DEF IsLeaf
    <3>3. AtLeaf(u, p)
      BY <2>1, <3>1, <3>2, LeafGrows
    <3> QED
      BY <3>3 DEF p
  <2> QED
    BY <2>3, <2>4
<1>6. ASSUME Len(t.free) >= Len(path) - Matched(t, path)
      PROVE  PublishedAt(u, o, path) = {v}
  <2>1. InsertLeaves(t, path, o, v, u, path)
    BY <1>4
  <2>2. CASE EntryAt(t, path) # Invalid
    <3>1. Turned(t, u, path, m)
      BY <2>1, <2>2 DEF InsertLeaves, m
    <3>2. EntryAt(u, path) # Invalid /\ SameContents(m, NodeAt(u, path))
      BY <1>3, <2>2, <3>1 DEF Turned, NodeAt
    <3> QED
      BY <1>3, <2>2, <3>2, PublishedIs DEF SameContents
  <2>3. CASE EntryAt(t, path) = Invalid
    <3>1. PICK leaf : /\ IsLeaf(leaf, <<datum>>, v, <<>>) /\ Grows(t, path, leaf, u, path)
                      /\ EntryAt(u, path) # Invalid
      BY <1>6, <2>1, <2>3 DEF InsertLeaves
    <3>2. NodeAt(u, path).data = <<datum>>
      BY <2>3, <3>1 DEF Grows, NodeAt, SameContents, IsLeaf
    <3>3. ValuesOf(<<datum>>, o) = {v}
      <4>1. ToSet(<<datum>>) = {datum} /\ datum.owner = o /\ datum.value = v
        BY DEF ToSet
      <4> HIDE DEF datum
      <4> QED
        BY <4>1 DEF ValuesOf
    <3> QED
      BY <3>1, <3>2, <3>3, PublishedIs
  <2> QED
    BY <2>2, <2>3
<1> QED
  BY <1>5, <1>6 DEF LeavesFilled, SetThere

\* Watches come to nodes and go from nodes at and above which nothing is published.
LEMMA WatchLeaf ==
  ASSUME LeavesOnly, NEW t, NEW L, Sound(t, L), LeavesFilled(t),
         NEW path \in Seq(STRING), NEW o, \E y \in Watch : y[2] = path,
         NEW u, u = AddWatch(t, path, o).tree \/ u = RemWatch(t, path, o).tree
  PROVE  LeavesFilled(u)
<1> SUFFICES ASSUME NEW x \in Publish
             PROVE  AtLeaf(u, x[2])
  BY DEF LeavesFilled
<1> DEFINE p == x[2]
<1>1. p \in Seq(STRING) /\ AtLeaf(t, p) /\ ~IsPrefix(p, path)
  BY PathsAssumption DEF LeavesFilled, LeavesOnly
<1> HIDE DEF p
<1>2. p # path
  BY <1>1, PrefixItself
<1>3. EntryAt(t, p) # Invalid => NodeAt(t, p).data # <<>> /\ NodeAt(t, p).watches = <<>>
  BY <1>1 DEF AtLeaf
<1>4. CASE u = AddWatch(t, path, o).tree
  <2>1. AddWatchLeaves(t, path, o, u, p)
    BY <1>1, <1>4, AddWatchPath
  <2>2. CASE EntryAt(t, path) # Invalid
    <3>1. Turned(t, u, p, NodeAt(t, p))
      BY <1>2, <2>1, <2>2 DEF AddWatchLeaves
    <3>2. AtLeaf(u, p)
      BY <1>1, <1>3, <3>1, LeafTurned
    <3> QED
      BY <3>2 DEF p
  <2>3. CASE EntryAt(t, path) = Invalid
    <3>1. PICK leaf : Grows(t, path, leaf, u, p)
      BY <2>1, <2>3 DEF AddWatchLeaves
    <3>2. AtLeaf(u, p)
      BY <1>1, <1>2, <3>1, LeafGrows
    <3> QED
      BY <3>2 DEF p
  <2> QED
    BY <2>2, <2>3
<1>5. CASE u = RemWatch(t, path, o).tree
  <2>1. RemWatchLeaves(t, path, o, u, p)
    BY <1>1, <1>5, RemWatchPath
  <2>2. CASE u = t
    BY <1>1, <2>2 DEF p
  <2>3. CASE u # t
    <3>1. Turned(t, u, p, NodeAt(t, p))
      BY <1>2, <2>1, <2>3 DEF RemWatchLeaves
    <3>2. AtLeaf(u, p)
      BY <1>1, <1>3, <3>1, LeafTurned
    <3> QED
      BY <3>2 DEF p
  <2> QED
    BY <2>2, <2>3
<1> QED
  BY <1>4, <1>5

\* A leaf that a removal leaves without data goes.
LEMMA RemoveLeaf ==
  ASSUME LeavesOnly, NEW t, NEW L, Sound(t, L), NodesFilled(t), LeavesFilled(t),
         NEW path \in Seq(STRING), NEW o, NEW u, u = RemoveItems(t, path, o).tree
  PROVE  LeavesFilled(u)
<1> SUFFICES ASSUME NEW x \in Publish
             PROVE  AtLeaf(u, x[2])
  BY DEF LeavesFilled
<1> DEFINE p == x[2]
           n == NodeAt(t, p)
           m == Stripped(n, o).node
           l == IF IsPrefix(path, p) THEN m ELSE n
<1>1. p \in Seq(STRING) /\ AtLeaf(t, p) /\ p # <<>>
  BY PathsAssumption DEF LeavesFilled, LeavesOnly
<1> HIDE DEF p
<1>2. RemoveItemsLeaves(t, path, o, u, p)
  BY <1>1, RemoveItemsPath
<1>3. CASE EntryAt(t, path) = Invalid
  <2>1. u = t
    BY <1>2, <1>3 DEF RemoveItemsLeaves
  <2> QED
    BY <1>1, <2>1 DEF p
<1>4. CASE EntryAt(t, path) # Invalid
  <2>1. EntryAt(t, p) # Invalid => n.data # <<>> /\ n.watches = <<>> /\ n.sub = {}
    BY <1>1 DEF AtLeaf
  <2>2. EntryAt(t, p) # Invalid => m.watches = <<>>
    <3> DEFINE D == DataAt(p)
               A == Holders
    <3>1. Contents(D, A) /\ (EntryAt(t, p) # Invalid => Filled(n, D, A))
      BY <1>1, ContentsOf DEF NodesFilled
    <3> HIDE DEF D, A, n
    <3>2. EntryAt(t, p) # Invalid => Bared(n, o, Stripped(n, o).node)
      BY <3>1, StrippedLeaves
    <3> QED
      BY <2>1, <3>2 DEF Bared
  <2>3. Turned(t, u, p, l)
    BY <1>2, <1>4 DEF RemoveItemsLeaves
  <2>4. /\ EntryAt(t, p) # Invalid /\ IsPrefix(path, p) /\ n.sub = {}
        /\ m.data = <<>> /\ m.watches = <<>>
        => EntryAt(u, p) = Invalid
    BY <1>1, <1>2, <1>4 DEF RemoveItemsLeaves
  <2>5. EntryAt(t, p) # Invalid /\ EntryAt(u, p) # Invalid => l.data # <<>> /\ l.watches = <<>>
    BY <2>1, <2>2, <2>4
  <2> HIDE DEF l
  <2>6. AtLeaf(u, p)
    BY <1>1, <2>3, <2>5, LeafTurned
  <2> QED
    BY <2>6 DEF p
<1> QED
  BY <1>3, <1>4

\* Every step keeps published leaves filled, and stores the value it sets.
LEMMA NextLeaves ==
  ASSUME LeavesOnly, FilledInv, LeavesFilled(tree), Next
  PROVE  LeavesFilled(tree')
<1>1. PICK L \in SUBSET Entries : Sound(tree, L)
  BY DEF FilledInv, Inv
<1>2. NodesFilled(tree)
  BY DEF FilledInv
<1> DEFINE u == tree'
<1>3. u = tree'
  OBVIOUS
<1> HIDE DEF u
<1>4. ASSUME NEW x \in Publish, NEW v \in Values, SetItem(x[1], x[2], v)
      PROVE  LeavesFilled(u)
  <2>1. x[2] \in Seq(STRING) /\ u = Insert(tree, x[2], x[1], v).tree /\ <<x[1], x[2]>> \in Publish
    BY <1>3, <1>4, PathsAssumption DEF SetItem
  <2> QED
    BY <1>1, <1>2, <2>1, InsertLeaf
<1>5. ASSUME NEW x \in Publish \cup Watch, RemItems(x[1], x[2])
      PROVE  LeavesFilled(u)
  <2>1. x[2] \in Seq(STRING) /\ u = RemoveItems(tree, x[2], x[1]).tree
    BY <1>3, <1>5, PathsAssumption DEF RemItems
  <2> QED
    BY <1>1, <1>2, <2>1, RemoveLeaf
<1>6. ASSUME NEW x \in Watch, SetWatch(x[1], x[2]) \/ DropWatch(x[1], x[2])
      PROVE  LeavesFilled(u)
  <2>1. /\ x[2] \in Seq(STRING)
        /\ u = AddWatch(tree, x[2], x[1]).tree \/ u = RemWatch(tree, x[2], x[1]).tree
    BY <1>3, <1>6, PathsAssumption DEF SetWatch, DropWatch
  <2>2. \E y \in Watch : y[2] = x[2]
    OBVIOUS
  <2> QED
    BY <1>1, <1>2, <2>1, <2>2, WatchLeaf
<1>7. ASSUME NEW o \in Owners, Disconnect(o.client)
      PROVE  LeavesFilled(u)
  <2> DEFINE r == [client |-> o.client, publisher |-> Everyone]
  <2>1. u = RemoveItems(tree, <<>>, r).tree
    BY <1>3, <1>7 DEF Disconnect
  <2>2. <<>> \in Seq(STRING)
    OBVIOUS
  <2> HIDE DEF r
  <2> QED
    BY <1>1, <1>2, <2>1, <2>2, RemoveLeaf
<1>8. LeavesFilled(u)
  BY <1>4, <1>5, <1>6, <1>7 DEF Next
<1> QED
  BY <1>3, <1>8

\* A step that sets a value where there is room stores it.
LEMMA SetStep ==
  ASSUME LeavesOnly, FilledInv, LeavesFilled(tree), NEW x \in Publish, NEW v \in Values,
         SetItem(x[1], x[2], v), Len(tree.free) >= Len(x[2]) - Matched(tree, x[2])
  PROVE  PublishedAt(tree', x[1], x[2]) = {v}
<1>1. PICK L \in SUBSET Entries : Sound(tree, L)
  BY DEF FilledInv, Inv
<1>2. NodesFilled(tree)
  BY DEF FilledInv
<1> DEFINE u == tree'
           t == tree
           o == x[1]
           p == x[2]
<1>3. /\ p \in Seq(STRING) /\ <<o, p>> \in Publish /\ u = Insert(t, p, o, v).tree
      /\ Len(t.free) >= Len(p) - Matched(t, p)
      /\ Sound(t, L) /\ NodesFilled(t) /\ LeavesFilled(t)
  BY <1>1, <1>2, PathsAssumption DEF SetItem
<1> HIDE DEF u, t, o, p
<1>4. SetThere(t, u, o, p, v)
  BY <1>3, InsertLeaf
<1>5. PublishedAt(u, o, p) = {v}
  BY <1>3, <1>4 DEF SetThere
<1> QED
  BY <1>5 DEF u, o, p

\* A value that a publisher sets is there afterwards, where values are at leaves only
\* and there is a free entry for every new node: the datum replaces the owner's own,
\* follows the others' or comes with a new node (setData(), newNode()).
THEOREM SetStored ==
  ASSUME LeavesOnly
  PROVE  Spec => SetIsStored
<1> DEFINE I == FilledInv /\ LeavesFilled(tree)
<1>1. Init => I
  <2> SUFFICES ASSUME Init PROVE I
    OBVIOUS
  <2>1. FilledInv
    BY InitInv, InitFilled DEF FilledInv
  <2>2. ASSUME NEW x \in Publish  PROVE AtLeaf(tree, x[2])
    <3>1. x[2] \in Seq(STRING) /\ x[2] # <<>>
      BY PathsAssumption DEF LeavesOnly
    <3>2. EntryAt(tree, x[2]) = Invalid
      BY <3>1, InitRoot
    <3> QED
      BY <3>2 DEF AtLeaf
  <2> QED
    BY <2>1, <2>2 DEF LeavesFilled
<1>2. I /\ [Next]_tree => I'
  <2> SUFFICES ASSUME I, [Next]_tree PROVE I'
    OBVIOUS
  <2>1. FilledInv'
    BY FilledNext
  <2>2. LeavesFilled(tree')
    <3>1. CASE Next
      BY <3>1, NextLeaves
    <3>2. CASE UNCHANGED tree
      BY <3>2
    <3> QED
      BY <3>1, <3>2
  <2>3. LeavesFilled(tree)'
    BY <2>2 DEF LeavesFilled, AtLeaf, NodeAt, EntryAt
  <2> QED
    BY <2>1, <2>3
<1>3. I /\ [Next]_tree =>
        [\A x \in Publish, v \in Values :
           /\ SetItem(x[1], x[2], v)
           /\ Len(tree.free) >= Len(x[2]) - Matched(tree, x[2])
           => PublishedAt(tree', x[1], x[2]) = {v}]_tree
  BY SetStep
<1> HIDE DEF I
<1> QED
  BY <1>1, <1>2, <1>3, PTL DEF Spec, SetIsStored

-----------------------------------------------------------------------------
(* Values are where their owners published them.                           *)

\* There is a node at every path above one that has a node.
LEMMA PrefixThere ==
  ASSUME NEW t, NEW L, Linked(t, L), NEW q \in Seq(STRING), NEW p \in Seq(STRING),
         IsPrefix(q, p), EntryAt(t, p) # Invalid
  PROVE  EntryAt(t, q) # Invalid
<1> DEFINE w == Walk(t, p)
           k == Len(q)
           n == Len(p)
<1>1. k \in Nat /\ n \in Nat /\ k <= n /\ q = SubSeq(p, 1, k)
  BY LenProperties DEF IsPrefix
<1>2. k \in 0 .. n
  BY <1>1
<1>3. EntryAt(t, q) = w[k]
  <2>1. k \in 0 .. Len(p)
    BY <1>2
  <2>2. EntryAt(t, SubSeq(p, 1, k)) = Walk(t, p)[k]
    <3> HIDE DEF k
    <3> QED
      BY <2>1, PrefixWay
  <2> QED
    BY <1>1, <2>2
<1>4. w[n] # Invalid
  BY DEF EntryAt
<1>5. \A i \in 0 .. n : w[i] \in L
  BY <1>4, WayIs
<1>6. Invalid \notin L
  BY TableAssumption DEF Linked, Entries, Invalid
<1> QED
  BY <1>2, <1>3, <1>5, <1>6

\* What has no data has no value.
LEMMA NoValues ==
  ASSUME NEW o
  PROVE  ValuesOf(<<>>, o) = {}
<1>1. ToSet(<<>>) = {}
  BY DEF ToSet
<1> QED
  BY <1>1 DEF ValuesOf

\* What an owner has at a turned node is what is in its new data.
LEMMA ValuesTurned ==
  ASSUME NEW t, NEW u, NEW p, NEW m, NEW o, Turned(t, u, p, m)
  PROVE  /\ EntryAt(t, p) = Invalid => PublishedAt(u, o, p) = {}
         /\ EntryAt(t, p) # Invalid => PublishedAt(u, o, p) = ValuesOf(m.data, o)
<1>1. CASE EntryAt(u, p) = Invalid
  <2>1. EntryAt(t, p) # Invalid => m.data = <<>>
    <3>1. EntryAt(t, p) # Invalid => EntryAt(u, p) # EntryAt(t, p)
      BY <1>1
    <3> QED
      BY <3>1 DEF Turned
  <2>2. EntryAt(t, p) # Invalid => ValuesOf(m.data, o) = {}
    BY <2>1, NoValues
  <2> QED
    BY <1>1, <2>2, PublishedIs
<1>2. CASE EntryAt(u, p) # Invalid
  <2>1. EntryAt(t, p) # Invalid /\ SameContents(m, NodeAt(u, p))
    BY <1>2 DEF Turned, NodeAt
  <2>2. NodeAt(u, p).data = m.data
    BY <2>1 DEF SameContents
  <2> QED
    BY <1>2, <2>1, <2>2, PublishedIs
<1> QED
  BY <1>1, <1>2

\* A new way brings the value of its leaf, and no other.
LEMMA ValuesGrow ==
  ASSUME NEW t, NEW u, NEW p, NEW path, NEW leaf, NEW o, Grows(t, path, leaf, u, p)
  PROVE  \/ PublishedAt(u, o, p) = PublishedAt(t, o, p)
         \/ p = path /\ EntryAt(t, p) = Invalid /\ PublishedAt(u, o, p) = ValuesOf(leaf.data, o)
<1>1. CASE EntryAt(t, p) # Invalid
  <2>1. EntryAt(u, p) # Invalid /\ NodeAt(u, p).data = NodeAt(t, p).data
    BY <1>1 DEF Grows, NodeAt, SameContents
  <2> QED
    BY <1>1, <2>1, PublishedIs
<1>2. CASE EntryAt(u, p) = Invalid
  BY <1>1, <1>2, PublishedIs
<1>3. CASE EntryAt(t, p) = Invalid /\ EntryAt(u, p) # Invalid /\ p = path
  <2>1. NodeAt(u, p).data = leaf.data
    BY <1>3 DEF Grows, NodeAt, SameContents
  <2>2. PublishedAt(u, o, p) = ValuesOf(leaf.data, o)
    BY <1>3, <2>1, PublishedIs
  <2> QED
    BY <1>3, <2>2
<1>4. CASE EntryAt(t, p) = Invalid /\ EntryAt(u, p) # Invalid /\ p # path
  <2> DEFINE q == NoName
             b == Blank(q, Invalid, 0)
  <2>1. NodeAt(u, p).data = b.data
    BY <1>4 DEF Grows, NodeAt, SameContents
  <2> HIDE DEF q
  <2>2. b.data = <<>>
    BY DEF Blank
  <2> HIDE DEF b
  <2>3. NodeAt(u, p).data = <<>>
    BY <2>1, <2>2
  <2>4. PublishedAt(u, o, p) = {} /\ PublishedAt(t, o, p) = {}
    BY <1>4, <2>3, NoValues, PublishedIs
  <2> QED
    BY <2>4
<1> QED
  BY <1>1, <1>2, <1>3, <1>4

\* What an owner has at a path is what it had.
Unmoved(t, u, o, p) == PublishedAt(u, o, p) = PublishedAt(t, o, p)

\* A node turned without a change of its data moves no value.
LEMMA UnmovedTurned ==
  ASSUME NEW t, NEW u, NEW p, NEW m, NEW a, Turned(t, u, p, m), m.data = NodeAt(t, p).data
  PROVE  Unmoved(t, u, a, p)
<1>1. CASE EntryAt(t, p) = Invalid
  <2>1. PublishedAt(u, a, p) = {} /\ PublishedAt(t, a, p) = {}
    BY <1>1, ValuesTurned, PublishedIs
  <2> QED
    BY <2>1 DEF Unmoved
<1>2. CASE EntryAt(t, p) # Invalid
  <2>1. PublishedAt(u, a, p) = ValuesOf(m.data, a)
    BY <1>2, ValuesTurned
  <2>2. PublishedAt(t, a, p) = ValuesOf(NodeAt(t, p).data, a)
    BY <1>2, PublishedIs
  <2> QED
    BY <2>1, <2>2 DEF Unmoved
<1> QED
  BY <1>1, <1>2

\* A new way moves no value of an owner that its leaf has none of.
LEMMA UnmovedGrows ==
  ASSUME NEW t, NEW u, NEW p, NEW path, NEW leaf, NEW a, Grows(t, path, leaf, u, p),
         p = path => ValuesOf(leaf.data, a) = {}
  PROVE  Unmoved(t, u, a, p)
<1>1. \/ PublishedAt(u, a, p) = PublishedAt(t, a, p)
      \/ p = path /\ EntryAt(t, p) = Invalid /\ PublishedAt(u, a, p) = ValuesOf(leaf.data, a)
  BY ValuesGrow
<1>2. EntryAt(t, p) = Invalid => PublishedAt(t, a, p) = {}
  BY PublishedIs
<1> QED
  BY <1>1, <1>2 DEF Unmoved

\* insert() moves nothing but the owner's value at the path, if that.
InsertMoves(t, u, path, o, v) ==
  /\ Unmoved(t, u, o, path) \/ PublishedAt(u, o, path) = {v}
  /\ \A p \in Seq(STRING) : \A a : p # path \/ a # o => Unmoved(t, u, a, p)

\* insert() moves at most the owner's value at the path.
LEMMA InsertValues ==
  ASSUME NEW t, NEW L, Sound(t, L), NodesFilled(t), NEW path \in Seq(STRING), NEW o,
         <<o, path>> \in Publish, NEW v \in Values, NEW u, u = Insert(t, path, o, v).tree
  PROVE  InsertMoves(t, u, path, o, v)
<1> DEFINE n == NodeAt(t, path)
           m == SetData(n, o, v).node
           datum == [owner |-> o, value |-> v]
<1>1. ASSUME NEW p \in Seq(STRING) PROVE InsertLeaves(t, path, o, v, u, p)
  BY InsertPath
<1>2. CASE EntryAt(t, path) # Invalid
  <2>1. Stored(n, o, v, m) /\ n.room \in Nat /\ v \in Nat
    <3> DEFINE D == DataAt(path)
               A == Holders
               x == <<o, path>>
    <3>1. x \in Publish /\ x[1] = o /\ x[2] = path
      OBVIOUS
    <3>2. Contents(D, A) /\ datum \in D /\ Filled(n, D, A)
      <4> HIDE DEF x
      <4> QED
        BY <1>2, <3>1, ContentsOf DEF NodesFilled
    <3> HIDE DEF D, A, n
    <3> QED
      BY <3>2, SetDataStores, ValuesAssumption DEF Filled
  <2> HIDE DEF n, m
  <2>2. ValuesOf(m.data, o) = {v} \/ ValuesOf(m.data, o) = ValuesOf(n.data, o)
    BY <2>1 DEF Stored
  <2>3. \A a : a # o => ValuesOf(m.data, a) = ValuesOf(n.data, a)
    BY <2>1 DEF Stored
  <2>4. ASSUME NEW a
        PROVE  /\ PublishedAt(u, a, path) = ValuesOf(m.data, a)
               /\ PublishedAt(t, a, path) = ValuesOf(n.data, a)
    <3>1. Turned(t, u, path, m)
      BY <1>1, <1>2 DEF InsertLeaves, m, n
    <3> QED
      BY <1>2, <3>1, ValuesTurned, PublishedIs DEF n
  <2>5. ASSUME NEW p \in Seq(STRING), p # path, NEW a  PROVE Unmoved(t, u, a, p)
    <3>1. InsertLeaves(t, path, o, v, u, p)
      BY <1>1
    <3>2. Turned(t, u, p, NodeAt(t, p))
      BY <1>2, <2>5, <3>1 DEF InsertLeaves
    <3> QED
      BY <3>2, UnmovedTurned
  <2>6. ASSUME NEW a, a # o  PROVE Unmoved(t, u, a, path)
    BY <2>3, <2>4, <2>6 DEF Unmoved
  <2>7. Unmoved(t, u, o, path) \/ PublishedAt(u, o, path) = {v}
    BY <2>2, <2>4 DEF Unmoved
  <2> QED
    BY <2>5, <2>6, <2>7 DEF InsertMoves
<1>3. CASE EntryAt(t, path) = Invalid
  <2>1. /\ ValuesOf(<<datum>>, o) = {v}
        /\ \A a : a # o => ValuesOf(<<datum>>, a) = {}
    <3>1. ToSet(<<datum>>) = {datum} /\ datum.owner = o /\ datum.value = v
      BY DEF ToSet
    <3> HIDE DEF datum
    <3> QED
      BY <3>1 DEF ValuesOf
  <2>2. ASSUME NEW p \in Seq(STRING)
        PROVE  \E leaf : leaf.data = <<datum>> /\ Grows(t, path, leaf, u, p)
    <3>1. InsertLeaves(t, path, o, v, u, p)
      BY <1>1
    <3>2. PICK leaf : IsLeaf(leaf, <<datum>>, v, <<>>) /\ Grows(t, path, leaf, u, p)
      BY <1>3, <3>1 DEF InsertLeaves
    <3>3. leaf.data = <<datum>>
      BY <3>2 DEF IsLeaf
    <3> HIDE DEF datum
    <3> QED
      BY <3>2, <3>3
  <2> HIDE DEF datum
  <2>3. ASSUME NEW p \in Seq(STRING), NEW a, p # path \/ a # o  PROVE Unmoved(t, u, a, p)
    <3>1. PICK leaf : leaf.data = <<datum>> /\ Grows(t, path, leaf, u, p)
      BY <2>2
    <3>2. p = path => ValuesOf(leaf.data, a) = {}
      BY <2>1, <2>3, <3>1
    <3> QED
      BY <3>1, <3>2, UnmovedGrows
  <2>4. Unmoved(t, u, o, path) \/ PublishedAt(u, o, path) = {v}
    <3>1. PICK leaf : leaf.data = <<datum>> /\ Grows(t, path, leaf, u, path)
      BY <2>2
    <3>2. \/ PublishedAt(u, o, path) = PublishedAt(t, o, path)
          \/ PublishedAt(u, o, path) = ValuesOf(leaf.data, o)
      BY <3>1, ValuesGrow
    <3> QED
      BY <2>1, <3>1, <3>2 DEF Unmoved
  <2> QED
    BY <2>3, <2>4 DEF InsertMoves
<1> QED
  BY <1>2, <1>3

\* Watches move no values.
LEMMA WatchValues ==
  ASSUME NEW t, NEW L, Sound(t, L), NEW path \in Seq(STRING), NEW o,
         NEW u, u = AddWatch(t, path, o).tree \/ u = RemWatch(t, path, o).tree,
         NEW p \in Seq(STRING), NEW a
  PROVE  Unmoved(t, u, a, p)
<1> DEFINE n == NodeAt(t, path)
<1>1. CASE u = AddWatch(t, path, o).tree
  <2>1. AddWatchLeaves(t, path, o, u, p)
    BY <1>1, AddWatchPath
  <2>2. CASE EntryAt(t, path) # Invalid
    <3>1. PICK m, y : /\ Holds(n, m, n.data, y, Append(n.watches, o))
                      /\ Turned(t, u, p, IF p = path THEN m ELSE NodeAt(t, p))
      BY <2>1, <2>2 DEF AddWatchLeaves
    <3> DEFINE x == IF p = path THEN m ELSE NodeAt(t, p)
    <3>2. x.data = NodeAt(t, p).data
      BY <3>1 DEF Holds
    <3>3. Turned(t, u, p, x)
      BY <3>1
    <3> HIDE DEF x
    <3> QED
      BY <3>2, <3>3, UnmovedTurned
  <2>3. CASE EntryAt(t, path) = Invalid
    <3>1. PICK leaf : IsLeaf(leaf, <<>>, 0, <<o>>) /\ Grows(t, path, leaf, u, p)
      BY <2>1, <2>3 DEF AddWatchLeaves
    <3>2. leaf.data = <<>>
      BY <3>1 DEF IsLeaf
    <3> QED
      BY <3>1, <3>2, NoValues, UnmovedGrows
  <2> QED
    BY <2>2, <2>3
<1>2. CASE u = RemWatch(t, path, o).tree
  <2>1. RemWatchLeaves(t, path, o, u, p)
    BY <1>2, RemWatchPath
  <2>2. CASE u = t
    BY <2>2 DEF Unmoved
  <2>3. CASE u # t
    <3>1. PICK m : /\ Holds(n, m, n.data, n.room, WithoutWatch(n.watches, o))
                   /\ Turned(t, u, p, IF p = path THEN m ELSE NodeAt(t, p))
      BY <2>1, <2>3 DEF RemWatchLeaves
    <3> DEFINE x == IF p = path THEN m ELSE NodeAt(t, p)
    <3>2. x.data = NodeAt(t, p).data
      BY <3>1 DEF Holds
    <3>3. Turned(t, u, p, x)
      BY <3>1
    <3> HIDE DEF x
    <3> QED
      BY <3>2, <3>3, UnmovedTurned
  <2> QED
    BY <2>2, <2>3
<1> QED
  BY <1>1, <1>2

\* Every value is as long as every other, and no published path is watched.
OneLength == \A v, w \in Values : v = w
UnwatchedValues == \A x \in Publish, y \in Watch : x[2] # y[2]

\* A block with data has room for every value.
Roomy(n) == n.data # <<>> => \A v \in Values : v <= n.room
RoomFits(t) == \A x \in Publish : EntryAt(t, x[2]) # Invalid => Roomy(NodeAt(t, x[2]))

\* A turned node has room, if what it was turned into has.
LEMMA RoomTurned ==
  ASSUME NEW t, NEW u, NEW p, NEW m, Turned(t, u, p, m), EntryAt(t, p) # Invalid => Roomy(m)
  PROVE  EntryAt(u, p) # Invalid => Roomy(NodeAt(u, p))
<1> SUFFICES ASSUME EntryAt(u, p) # Invalid PROVE Roomy(NodeAt(u, p))
  OBVIOUS
<1>1. Roomy(m) /\ SameContents(m, NodeAt(u, p))
  BY DEF Turned, NodeAt
<1> QED
  BY <1>1 DEF Roomy, SameContents

\* A new way has room, if its leaf has.
LEMMA RoomGrows ==
  ASSUME NEW t, NEW u, NEW p, NEW path, NEW leaf, Grows(t, path, leaf, u, p),
         EntryAt(t, p) # Invalid => Roomy(NodeAt(t, p)), p = path => Roomy(leaf)
  PROVE  EntryAt(u, p) # Invalid => Roomy(NodeAt(u, p))
<1> SUFFICES ASSUME EntryAt(u, p) # Invalid PROVE Roomy(NodeAt(u, p))
  OBVIOUS
<1>1. CASE EntryAt(t, p) # Invalid
  <2>1. SameContents(NodeAt(t, p), NodeAt(u, p))
    BY <1>1 DEF Grows, NodeAt
  <2> QED
    BY <1>1, <2>1 DEF Roomy, SameContents
<1>2. CASE EntryAt(t, p) = Invalid /\ p = path
  <2>1. SameContents(leaf, NodeAt(u, p))
    BY <1>2 DEF Grows, NodeAt
  <2> QED
    BY <1>2, <2>1 DEF Roomy, SameContents
<1>3. CASE EntryAt(t, p) = Invalid /\ p # path
  <2> DEFINE q == NoName
             b == Blank(q, Invalid, 0)
  <2>1. NodeAt(u, p).data = b.data
    BY <1>3 DEF Grows, NodeAt, SameContents
  <2> HIDE DEF q
  <2>2. b.data = <<>>
    BY DEF Blank
  <2> QED
    BY <2>1, <2>2 DEF Roomy
<1> QED
  BY <1>1, <1>2, <1>3

\* insert() of values of one length keeps room for every one of them.
LEMMA InsertRoom ==
  ASSUME OneLength, NEW t, NEW L, Sound(t, L), NodesFilled(t), RoomFits(t),
         NEW path \in Seq(STRING), NEW o, <<o, path>> \in Publish, NEW v \in Values,
         NEW u, u = Insert(t, path, o, v).tree
  PROVE  RoomFits(u)
<1> DEFINE n == NodeAt(t, path)
           m == SetData(n, o, v).node
           datum == [owner |-> o, value |-> v]
           y == <<o, path>>
<1>1. y \in Publish /\ y[1] = o /\ y[2] = path
  OBVIOUS
<1> HIDE DEF y
<1>2. EntryAt(t, path) # Invalid => Roomy(m)
  <2> SUFFICES ASSUME EntryAt(t, path) # Invalid PROVE Roomy(m)
    OBVIOUS
  <2> DEFINE D == DataAt(path)
             A == Holders
  <2>1. Contents(D, A) /\ datum \in D /\ Filled(n, D, A) /\ Roomy(n)
    BY <1>1, ContentsOf DEF NodesFilled, RoomFits
  <2> HIDE DEF D, A, n
  <2>2. Stored(n, o, v, m)
    BY <2>1, SetDataStores
  <2> HIDE DEF m
  <2>3. \A w \in Values : w = v
    BY DEF OneLength
  <2> QED
    BY <2>1, <2>2, <2>3 DEF Stored, Roomy
<1> SUFFICES ASSUME NEW x \in Publish
             PROVE  EntryAt(u, x[2]) # Invalid => Roomy(NodeAt(u, x[2]))
  BY DEF RoomFits
<1> DEFINE p == x[2]
<1>3. p \in Seq(STRING) /\ (EntryAt(t, p) # Invalid => Roomy(NodeAt(t, p)))
  BY PathsAssumption DEF RoomFits
<1> HIDE DEF p
<1>4. InsertLeaves(t, path, o, v, u, p)
  BY <1>3, InsertPath
<1>5. CASE EntryAt(t, path) # Invalid
  <2> DEFINE l == IF p = path THEN m ELSE NodeAt(t, p)
  <2>1. Turned(t, u, p, l)
    BY <1>4, <1>5 DEF InsertLeaves
  <2>2. EntryAt(t, p) # Invalid => Roomy(l)
    BY <1>2, <1>3, <1>5
  <2> HIDE DEF l
  <2>3. EntryAt(u, p) # Invalid => Roomy(NodeAt(u, p))
    BY <2>1, <2>2, RoomTurned
  <2> QED
    BY <2>3 DEF p
<1>6. CASE EntryAt(t, path) = Invalid
  <2>1. PICK leaf : IsLeaf(leaf, <<datum>>, v, <<>>) /\ Grows(t, path, leaf, u, p)
    BY <1>4, <1>6 DEF InsertLeaves
  <2>2. Roomy(leaf)
    <3>1. leaf.room = v /\ v \in Nat
      BY <2>1, ValuesAssumption DEF IsLeaf
    <3>2. \A w \in Values : w = v
      BY DEF OneLength
    <3> QED
      BY <3>1, <3>2 DEF Roomy
  <2>3. EntryAt(u, p) # Invalid => Roomy(NodeAt(u, p))
    BY <1>3, <2>1, <2>2, RoomGrows
  <2> QED
    BY <2>3 DEF p
<1> QED
  BY <1>5, <1>6

\* A watch leaves the blocks of the published paths alone.
LEMMA WatchRoom ==
  ASSUME UnwatchedValues, NEW t, NEW L, Sound(t, L), RoomFits(t),
         NEW path \in Seq(STRING), NEW o, \E y \in Watch : y[2] = path,
         NEW u, u = AddWatch(t, path, o).tree \/ u = RemWatch(t, path, o).tree
  PROVE  RoomFits(u)
<1> SUFFICES ASSUME NEW x \in Publish
             PROVE  EntryAt(u, x[2]) # Invalid => Roomy(NodeAt(u, x[2]))
  BY DEF RoomFits
<1> DEFINE p == x[2]
<1>1. p \in Seq(STRING) /\ (EntryAt(t, p) # Invalid => Roomy(NodeAt(t, p))) /\ p # path
  BY PathsAssumption DEF RoomFits, UnwatchedValues
<1> HIDE DEF p
<1>2. CASE u = AddWatch(t, path, o).tree
  <2>1. AddWatchLeaves(t, path, o, u, p)
    BY <1>1, <1>2, AddWatchPath
  <2>2. CASE EntryAt(t, path) # Invalid
    <3>1. Turned(t, u, p, NodeAt(t, p))
      BY <1>1, <2>1, <2>2 DEF AddWatchLeaves
    <3>2. EntryAt(u, p) # Invalid => Roomy(NodeAt(u, p))
      BY <1>1, <3>1, RoomTurned
    <3> QED
      BY <3>2 DEF p
  <2>3. CASE EntryAt(t, path) = Invalid
    <3>1. PICK leaf : Grows(t, path, leaf, u, p)
      BY <2>1, <2>3 DEF AddWatchLeaves
    <3>2. EntryAt(u, p) # Invalid => Roomy(NodeAt(u, p))
      BY <1>1, <3>1, RoomGrows
    <3> QED
      BY <3>2 DEF p
  <2> QED
    BY <2>2, <2>3
<1>3. CASE u = RemWatch(t, path, o).tree
  <2>1. RemWatchLeaves(t, path, o, u, p)
    BY <1>1, <1>3, RemWatchPath
  <2>2. CASE u = t
    BY <1>1, <2>2 DEF p
  <2>3. CASE u # t
    <3>1. Turned(t, u, p, NodeAt(t, p))
      BY <1>1, <2>1, <2>3 DEF RemWatchLeaves
    <3>2. EntryAt(u, p) # Invalid => Roomy(NodeAt(u, p))
      BY <1>1, <3>1, RoomTurned
    <3> QED
      BY <3>2 DEF p
  <2> QED
    BY <2>2, <2>3
<1> QED
  BY <1>2, <1>3

\* A removal takes the values of some owners at and below a path, and no others.
RemoveMoves(t, u, path, S) ==
  \A x \in Publish : PublishedAt(u, x[1], x[2]) =
    IF x[1] \in S /\ IsPrefix(path, x[2]) THEN {} ELSE PublishedAt(t, x[1], x[2])

\* A removal takes the values of the owners it is of, at and below its path.
LEMMA RemoveValues ==
  ASSUME NEW t, NEW L, Sound(t, L), NodesFilled(t), RoomFits(t),
         NEW path \in Seq(STRING), NEW o, NEW u, u = RemoveItems(t, path, o).tree, NEW S,
         \A x \in Publish : \A d \in DataAt(x[2]), s \in BOOLEAN :
           OwnedBy(d, o, s) <=> d.owner \in S
  PROVE  RoomFits(u) /\ RemoveMoves(t, u, path, S)
<1>1. ASSUME NEW x \in Publish
      PROVE  /\ EntryAt(u, x[2]) # Invalid => Roomy(NodeAt(u, x[2]))
             /\ \A a : PublishedAt(u, a, x[2]) =
                  IF a \in S /\ IsPrefix(path, x[2]) THEN {} ELSE PublishedAt(t, a, x[2])
  <2> DEFINE p == x[2]
             n == NodeAt(t, p)
             m == Stripped(n, o).node
             l == IF IsPrefix(path, p) THEN m ELSE n
             D == DataAt(p)
             A == Holders
  <2>1. /\ p \in Seq(STRING) /\ (EntryAt(t, p) # Invalid => Roomy(n))
        /\ \A d \in D, s \in BOOLEAN : OwnedBy(d, o, s) <=> d.owner \in S
    BY PathsAssumption DEF RoomFits
  <2>2. Contents(D, A) /\ \A d \in D : d.value \in Values
    <3>1. Contents(D, A)
      BY ContentsOf
    <3>2. \A d \in D : d.value \in Values
      BY DEF DataAt
    <3> QED
      BY <3>1, <3>2
  <2> HIDE DEF p
  <2>3. RemoveItemsLeaves(t, path, o, u, p)
    BY <2>1, RemoveItemsPath
  <2>4. EntryAt(t, p) # Invalid => Filled(n, D, A)
    BY <2>1 DEF NodesFilled
  <2>5. CASE EntryAt(t, path) = Invalid
    <3>1. u = t
      BY <2>3, <2>5 DEF RemoveItemsLeaves
    <3>2. IsPrefix(path, p) => EntryAt(t, p) = Invalid
      BY <2>1, <2>5, PrefixThere DEF Sound
    <3>3. ASSUME NEW a, IsPrefix(path, p)  PROVE PublishedAt(t, a, p) = {}
      BY <3>2, <3>3, PublishedIs
    <3> HIDE DEF n
    <3> QED
      BY <2>1, <3>1, <3>3 DEF p, n
  <2>6. CASE EntryAt(t, path) # Invalid
    <3> HIDE DEF D, A
    <3>1. Turned(t, u, p, l)
      BY <2>3, <2>6 DEF RemoveItemsLeaves
    <3>2. EntryAt(t, p) # Invalid =>
            /\ ToSet(m.data) = {d \in ToSet(n.data) : d.owner \notin S}
            /\ m.data # <<>> => m.room = n.room
      <4> SUFFICES ASSUME EntryAt(t, p) # Invalid
                   PROVE  /\ ToSet(m.data) = {d \in ToSet(n.data) : d.owner \notin S}
                          /\ m.data # <<>> => m.room = n.room
        OBVIOUS
      <4>1. Filled(n, D, A) /\ Roomy(n)
        BY <2>1, <2>4
      <4> HIDE DEF n
      <4>2. Bared(n, o, m)
        BY <2>2, <4>1, StrippedLeaves
      <4>3. ToSet(n.data) \subseteq D /\ (ToSet(n.data) = {} <=> n.data = <<>>)
        BY <4>1, NoItems DEF Filled
      <4>4. \A d \in ToSet(n.data) : d.value <= n.room
        BY <2>2, <4>1, <4>3 DEF Roomy
      <4> HIDE DEF m
      <4>5. ToSet(m.data) = Staying(n, o)
        BY <4>2, <4>4 DEF Bared
      <4>6. Staying(n, o) = {d \in ToSet(n.data) : d.owner \notin S}
        <5>1. (Len(n.data) = 1) \in BOOLEAN
          OBVIOUS
        <5>2. \A d \in ToSet(n.data) : OwnedBy(d, o, Len(n.data) = 1) <=> d.owner \in S
          BY <2>1, <4>3, <5>1
        <5> QED
          BY <5>2 DEF Staying
      <4> QED
        BY <4>2, <4>5, <4>6 DEF Bared
    <3>3. EntryAt(t, p) # Invalid => Roomy(m)
      <4> SUFFICES ASSUME EntryAt(t, p) # Invalid, m.data # <<>>
                   PROVE  \A v \in Values : v <= m.room
        BY DEF Roomy
      <4>1. n.data # <<>>
        <5>1. m.data \in Seq(D)
          <6> HIDE DEF n
          <6> QED
            BY <2>2, <2>4, StrippedLeaves DEF Filled
        <5>2. ToSet(m.data) # {}
          <6> DEFINE s == m.data
          <6>1. s \in Seq(D) /\ s # <<>>
            BY <5>1
          <6> HIDE DEF s
          <6>2. ToSet(s) = {} <=> s = <<>>
            BY <6>1, NoItems
          <6> QED
            BY <6>1, <6>2 DEF s
        <5> HIDE DEF n, m
        <5>3. ToSet(n.data) # {} /\ n.data \in Seq(D)
          BY <2>4, <3>2, <5>2 DEF Filled
        <5> QED
          BY <5>3, NoItems
      <4> HIDE DEF n, m
      <4> QED
        BY <2>1, <3>2, <4>1 DEF Roomy
    <3>4. EntryAt(t, p) # Invalid => Roomy(l)
      BY <2>1, <3>3
    <3>5. EntryAt(u, p) # Invalid => Roomy(NodeAt(u, p))
      <4> HIDE DEF l
      <4> QED
        BY <3>1, <3>4, RoomTurned
    <3>6. ASSUME NEW a
          PROVE  PublishedAt(u, a, p) =
                   IF a \in S /\ IsPrefix(path, p) THEN {} ELSE PublishedAt(t, a, p)
      <4>1. CASE EntryAt(t, p) = Invalid
        <5> HIDE DEF l
        <5>1. PublishedAt(u, a, p) = {}
          BY <3>1, <4>1, ValuesTurned
        <5>2. PublishedAt(t, a, p) = {}
          BY <4>1, PublishedIs
        <5> QED
          BY <5>1, <5>2
      <4>2. CASE EntryAt(t, p) # Invalid
        <5>1. PublishedAt(u, a, p) = ValuesOf(l.data, a)
          <6> HIDE DEF l
          <6> QED
            BY <3>1, <4>2, ValuesTurned
        <5>2. PublishedAt(t, a, p) = ValuesOf(n.data, a)
          BY <4>2, PublishedIs
        <5> HIDE DEF n, m
        <5>3. ValuesOf(m.data, a) = IF a \in S THEN {} ELSE ValuesOf(n.data, a)
          <6> DEFINE X == ToSet(m.data)
                     Y == ToSet(n.data)
          <6>1. X = {d \in Y : d.owner \notin S}
            BY <3>2, <4>2
          <6> HIDE DEF X, Y
          <6>2. {y \in X : y.owner = a} = IF a \in S THEN {} ELSE {y \in Y : y.owner = a}
            BY <6>1
          <6>3. {d.value : d \in {y \in X : y.owner = a}} =
                  IF a \in S THEN {} ELSE {d.value : d \in {y \in Y : y.owner = a}}
            BY <6>2
          <6> QED
            BY <6>3 DEF ValuesOf, X, Y
        <5> QED
          BY <5>1, <5>2, <5>3
      <4> QED
        BY <4>1, <4>2
    <3> QED
      BY <3>5, <3>6 DEF p
  <2> QED
    BY <2>5, <2>6
<1> QED
  BY <1>1 DEF RoomFits, RemoveMoves

\* No client publishes or watches through two publishers.
OnePublisher ==
  \A x, y \in Publish \cup Watch : x[1].client = y[1].client => x[1] = y[1]

\* The values of a tree, as PublishedValues has them.
ValueIn(V) == IF V = {} THEN 0 ELSE CHOOSE v \in V : TRUE
Seen(t) == [x \in Publish |-> ValueIn(PublishedAt(t, x[1], x[2]))]

\* A step that moves no values.
LEMMA SeenSame ==
  ASSUME NEW t, NEW u, \A x \in Publish : Unmoved(t, u, x[1], x[2])
  PROVE  Seen(u) = Seen(t)
<1>1. \A x \in Publish : PublishedAt(u, x[1], x[2]) = PublishedAt(t, x[1], x[2])
  BY DEF Unmoved
<1> QED
  BY <1>1 DEF Seen

\* insert() leaves the published values, or puts the new one.
LEMMA SeenInsert ==
  ASSUME NEW t, NEW u, NEW path \in Seq(STRING), NEW o, NEW v, <<o, path>> \in Publish,
         InsertMoves(t, u, path, o, v)
  PROVE  Seen(u) = Seen(t) \/ Seen(u) = [Seen(t) EXCEPT ![<<o, path>>] = v]
<1> DEFINE z == <<o, path>>
<1>1. \A x \in Publish : x = <<x[1], x[2]>> /\ x[2] \in Seq(STRING)
  BY PathsAssumption
<1>2. z \in Publish /\ z[1] = o /\ z[2] = path
  OBVIOUS
<1>3. \A x \in Publish : x[1] = o /\ x[2] = path => x = z
  BY <1>1
<1> HIDE DEF z
<1>4. ASSUME NEW x \in Publish, x # z  PROVE Unmoved(t, u, x[1], x[2])
  BY <1>1, <1>3, <1>4 DEF InsertMoves
<1>5. CASE Unmoved(t, u, o, path)
  <2>1. \A x \in Publish : Unmoved(t, u, x[1], x[2])
    BY <1>2, <1>4, <1>5
  <2> QED
    BY <2>1, SeenSame
<1>6. CASE PublishedAt(u, o, path) = {v}
  <2>1. ASSUME NEW x \in Publish, x # z  PROVE Seen(u)[x] = Seen(t)[x]
    BY <1>4, <2>1 DEF Unmoved, Seen
  <2>2. Seen(u)[z] = v
    <3> DEFINE V == PublishedAt(u, z[1], z[2])
    <3>1. V = {v}
      BY <1>2, <1>6
    <3>2. Seen(u)[z] = ValueIn(V)
      BY <1>2 DEF Seen
    <3> HIDE DEF V
    <3> QED
      BY <3>1, <3>2 DEF ValueIn
  <2>3. /\ Seen(u) = [x \in Publish |-> Seen(u)[x]]
        /\ Seen(t) = [x \in Publish |-> Seen(t)[x]]
    BY DEF Seen
  <2> DEFINE f == Seen(t)
             g == Seen(u)
  <2> HIDE DEF f, g
  <2>4. g = [f EXCEPT ![z] = v]
    BY <1>2, <2>1, <2>2, <2>3 DEF f, g
  <2> QED
    BY <2>4 DEF f, g, z
<1> QED
  BY <1>5, <1>6 DEF InsertMoves

\* A removal clears the published values of its owners at and below its path.
LEMMA SeenRemove ==
  ASSUME NEW t, NEW u, NEW path, NEW S, RemoveMoves(t, u, path, S)
  PROVE  Seen(u) = [x \in Publish |-> IF x[1] \in S /\ IsPrefix(path, x[2])
                                        THEN 0 ELSE Seen(t)[x]]
<1>1. ASSUME NEW x \in Publish
      PROVE  Seen(u)[x] = IF x[1] \in S /\ IsPrefix(path, x[2]) THEN 0 ELSE Seen(t)[x]
  <2> DEFINE V == PublishedAt(u, x[1], x[2])
             W == PublishedAt(t, x[1], x[2])
  <2>1. V = IF x[1] \in S /\ IsPrefix(path, x[2]) THEN {} ELSE W
    BY DEF RemoveMoves
  <2>2. Seen(u)[x] = ValueIn(V) /\ Seen(t)[x] = ValueIn(W)
    BY DEF Seen
  <2> HIDE DEF V, W
  <2>3. ValueIn({}) = 0
    BY DEF ValueIn
  <2> QED
    BY <2>1, <2>2, <2>3
<1>2. Seen(u) = [x \in Publish |-> Seen(u)[x]]
  BY DEF Seen
<1> QED
  BY <1>1, <1>2

\* A new tree has no values, and nothing without room.
LEMMA InitSeen ==
  ASSUME Init
  PROVE  RoomFits(tree) /\ Seen(tree) = [x \in Publish |-> 0]
<1>1. ASSUME NEW x \in Publish
      PROVE  /\ EntryAt(tree, x[2]) # Invalid => Roomy(NodeAt(tree, x[2]))
             /\ PublishedAt(tree, x[1], x[2]) = {}
  <2> DEFINE p == x[2]
             a == x[1]
  <2>1. p \in Seq(STRING)
    BY PathsAssumption
  <2> HIDE DEF p, a
  <2>2. CASE EntryAt(tree, p) = Invalid
    <3>1. PublishedAt(tree, a, p) = {}
      BY <2>2, PublishedIs
    <3> QED
      BY <2>2, <3>1 DEF p, a
  <2>3. CASE EntryAt(tree, p) # Invalid
    <3>1. NodeAt(tree, p).data = <<>>
      BY <2>1, <2>3, InitRoot
    <3>2. PublishedAt(tree, a, p) = {} /\ Roomy(NodeAt(tree, p))
      BY <2>3, <3>1, PublishedIs, NoValues DEF Roomy
    <3> QED
      BY <3>2 DEF p, a
  <2> QED
    BY <2>2, <2>3
<1> QED
  BY <1>1 DEF RoomFits, Seen, ValueIn

\* What setting, taking back and leaving do to the values.
Moves(f, g) ==
  \/ g = f
  \/ \E x \in Publish, v \in Values : g = [f EXCEPT ![x] = v]
  \/ \E x \in Publish : \E n \in 0 .. Len(x[2]) :
       g = [y \in Publish |-> IF y[1] = x[1] /\ IsPrefix(SubSeq(x[2], 1, n), y[2])
                                THEN 0 ELSE f[y]]
  \/ \E x \in Publish :
       g = [y \in Publish |-> IF y[1].client = x[1].client THEN 0 ELSE f[y]]

\* A removal by an owner takes back its own values.
LEMMA Withdrawn ==
  ASSUME OnePublisher, NEW t, NEW L, Sound(t, L), NodesFilled(t), RoomFits(t),
         NEW z \in Publish \cup Watch, NEW u, u = RemoveItems(t, z[2], z[1]).tree
  PROVE  RoomFits(u) /\ Moves(Seen(t), Seen(u))
<1> DEFINE o == z[1]
           path == z[2]
           S == {o}
<1>1. path \in Seq(STRING)
  BY PathsAssumption
<1>2. ASSUME NEW x \in Publish, NEW d \in DataAt(x[2]), NEW s \in BOOLEAN
      PROVE  OwnedBy(d, o, s) <=> d.owner \in S
  <2>1. PICK y \in {a \in Publish : a[2] = x[2]} \X Values :
          d = [owner |-> y[1][1], value |-> y[2]]
    BY DEF DataAt
  <2>2. y[1] \in Publish /\ d.owner = y[1][1]
    BY <2>1
  <2>3. d.owner.client = o.client => d.owner = o
    BY <2>2 DEF OnePublisher
  <2> HIDE DEF o
  <2> QED
    BY <2>3 DEF OwnedBy
<1> HIDE DEF S, path
<1>3. RoomFits(u) /\ RemoveMoves(t, u, path, S)
  <2>1. u = RemoveItems(t, path, o).tree
    BY DEF path
  <2> HIDE DEF o
  <2> QED
    BY <1>1, <1>2, <2>1, RemoveValues
<1>4. Seen(u) = [x \in Publish |-> IF x[1] \in S /\ IsPrefix(path, x[2]) THEN 0 ELSE Seen(t)[x]]
  BY <1>3, SeenRemove
<1>5. Seen(t) = [x \in Publish |-> Seen(t)[x]]
  BY DEF Seen
<1> DEFINE f == Seen(t)
           g == Seen(u)
<1>6. /\ g = [x \in Publish |-> IF x[1] = o /\ IsPrefix(path, x[2]) THEN 0 ELSE f[x]]
      /\ f = [x \in Publish |-> f[x]]
  BY <1>4, <1>5 DEF S
<1> HIDE DEF f, g, o
<1>7. CASE \E x \in Publish : x[1] = o /\ IsPrefix(path, x[2])
  <2>1. PICK x \in Publish : x[1] = o /\ IsPrefix(path, x[2])
    BY <1>7
  <2>2. x[2] \in Seq(STRING)
    BY PathsAssumption
  <2>3. Len(path) \in 0 .. Len(x[2]) /\ path = SubSeq(x[2], 1, Len(path))
    BY <1>1, <2>1, <2>2, LenProperties DEF IsPrefix
  <2> DEFINE n == Len(path)
             q == SubSeq(x[2], 1, n)
  <2>4. n \in 0 .. Len(x[2]) /\ q = path
    BY <2>3
  <2> HIDE DEF n, q
  <2>5. g = [y \in Publish |-> IF y[1] = x[1] /\ IsPrefix(q, y[2]) THEN 0 ELSE f[y]]
    BY <1>6, <2>1, <2>4
  <2> QED
    BY <1>3, <2>4, <2>5 DEF Moves, f, g, q
<1>8. CASE ~\E x \in Publish : x[1] = o /\ IsPrefix(path, x[2])
  <2>1. g = [x \in Publish |-> f[x]]
    BY <1>6, <1>8
  <2> QED
    BY <1>3, <1>6, <2>1 DEF Moves, f, g
<1> QED
  BY <1>7, <1>8

\* A client's leaving takes the values of its publishers.
LEMMA Left ==
  ASSUME NEW t, NEW L, Sound(t, L), NodesFilled(t), RoomFits(t), NEW c,
         NEW u, u = RemoveItems(t, <<>>, [client |-> c, publisher |-> Everyone]).tree
  PROVE  RoomFits(u) /\ Moves(Seen(t), Seen(u))
<1> DEFINE o == [client |-> c, publisher |-> Everyone]
           path == <<>>
           S == {a \in {y[1] : y \in Publish} : a.client = c}
<1>1. path \in Seq(STRING)
  OBVIOUS
<1>2. o.client = c /\ o.publisher = Everyone
  OBVIOUS
<1>3. ASSUME NEW x \in Publish, NEW d \in DataAt(x[2]), NEW s \in BOOLEAN
      PROVE  OwnedBy(d, o, s) <=> d.owner \in S
  <2>1. PICK y \in {a \in Publish : a[2] = x[2]} \X Values :
          d = [owner |-> y[1][1], value |-> y[2]]
    BY DEF DataAt
  <2>2. y[1] \in Publish /\ d.owner = y[1][1]
    BY <2>1
  <2>3. d.owner \in S <=> d.owner.client = c
    BY <2>2
  <2> HIDE DEF o, S
  <2>4. d.owner = o => d.owner.client = c
    BY <1>2
  <2> QED
    BY <1>2, <2>3, <2>4 DEF OwnedBy
<1>4. \A x \in Publish : IsPrefix(path, x[2])
  <2> SUFFICES ASSUME NEW x \in Publish PROVE IsPrefix(path, x[2])
    OBVIOUS
  <2> DEFINE q == x[2]
  <2>1. q \in Seq(STRING)
    BY PathsAssumption
  <2> HIDE DEF q
  <2>2. Len(q) \in Nat /\ 0 \in 0 .. Len(q)
    BY <2>1, LenProperties
  <2>3. Len(path) = 0 /\ path = SubSeq(q, 1, 0)
    BY <2>1
  <2>4. IsPrefix(path, q)
    BY <2>2, <2>3 DEF IsPrefix
  <2> QED
    BY <2>4 DEF q
<1>5. \A x \in Publish : x[1] \in S <=> x[1].client = c
  OBVIOUS
<1> HIDE DEF S, path, o
<1>6. u = RemoveItems(t, path, o).tree
  BY DEF path, o
<1>7. RoomFits(u) /\ RemoveMoves(t, u, path, S)
  BY <1>1, <1>3, <1>6, RemoveValues
<1>8. Seen(u) = [x \in Publish |-> IF x[1] \in S /\ IsPrefix(path, x[2]) THEN 0 ELSE Seen(t)[x]]
  BY <1>7, SeenRemove
<1> DEFINE f == Seen(t)
           g == Seen(u)
<1>9. f = [x \in Publish |-> f[x]]
  BY DEF Seen
<1> HIDE DEF f, g
<1>10. g = [x \in Publish |-> IF x[1].client = c THEN 0 ELSE f[x]]
  BY <1>4, <1>5, <1>8 DEF f, g
<1>11. CASE \E x \in Publish : x[1].client = c
  <2>1. PICK x \in Publish : x[1].client = c
    BY <1>11
  <2>2. g = [y \in Publish |-> IF y[1].client = x[1].client THEN 0 ELSE f[y]]
    BY <1>10, <2>1
  <2> QED
    BY <1>7, <2>2 DEF Moves, f, g
<1>12. CASE ~\E x \in Publish : x[1].client = c
  <2>1. g = [x \in Publish |-> f[x]]
    BY <1>10, <1>12
  <2> QED
    BY <1>7, <1>9, <2>1 DEF Moves, f, g
<1> QED
  BY <1>11, <1>12

\* A step of the tree is a step of the values, or leaves them.
LEMMA NextSeen ==
  ASSUME OneLength, OnePublisher, UnwatchedValues, FilledInv, RoomFits(tree), Next
  PROVE  RoomFits(tree') /\ Moves(Seen(tree), Seen(tree'))
<1>1. PICK L \in SUBSET Entries : Sound(tree, L)
  BY DEF FilledInv, Inv
<1>2. NodesFilled(tree)
  BY DEF FilledInv
<1> DEFINE u == tree'
<1>3. u = tree'
  OBVIOUS
<1> HIDE DEF u
<1>4. ASSUME NEW x \in Publish, NEW v \in Values, SetItem(x[1], x[2], v)
      PROVE  RoomFits(u) /\ Moves(Seen(tree), Seen(u))
  <2>1. x[2] \in Seq(STRING) /\ u = Insert(tree, x[2], x[1], v).tree /\ <<x[1], x[2]>> \in Publish
    BY <1>3, <1>4, PathsAssumption DEF SetItem
  <2>2. RoomFits(u)
    BY <1>1, <1>2, <2>1, InsertRoom
  <2>3. InsertMoves(tree, u, x[2], x[1], v)
    BY <1>1, <1>2, <2>1, InsertValues
  <2>4. \/ Seen(u) = Seen(tree)
        \/ Seen(u) = [Seen(tree) EXCEPT ![<<x[1], x[2]>>] = v]
    BY <2>1, <2>3, SeenInsert
  <2>5. x = <<x[1], x[2]>>
    BY PathsAssumption
  <2> QED
    BY <2>2, <2>4, <2>5 DEF Moves
<1>5. ASSUME NEW x \in Publish \cup Watch, RemItems(x[1], x[2])
      PROVE  RoomFits(u) /\ Moves(Seen(tree), Seen(u))
  <2>1. u = RemoveItems(tree, x[2], x[1]).tree
    BY <1>3, <1>5 DEF RemItems
  <2> QED
    BY <1>1, <1>2, <2>1, Withdrawn
<1>6. ASSUME NEW x \in Watch, SetWatch(x[1], x[2]) \/ DropWatch(x[1], x[2])
      PROVE  RoomFits(u) /\ Moves(Seen(tree), Seen(u))
  <2>1. /\ x[2] \in Seq(STRING)
        /\ u = AddWatch(tree, x[2], x[1]).tree \/ u = RemWatch(tree, x[2], x[1]).tree
    BY <1>3, <1>6, PathsAssumption DEF SetWatch, DropWatch
  <2>2. \E y \in Watch : y[2] = x[2]
    OBVIOUS
  <2>3. RoomFits(u)
    BY <1>1, <1>2, <2>1, <2>2, WatchRoom
  <2>4. \A y \in Publish : Unmoved(tree, u, y[1], y[2])
    BY <1>1, <2>1, PathsAssumption, WatchValues
  <2>5. Seen(u) = Seen(tree)
    BY <2>4, SeenSame
  <2> QED
    BY <2>3, <2>5 DEF Moves
<1>7. ASSUME NEW o \in Owners, Disconnect(o.client)
      PROVE  RoomFits(u) /\ Moves(Seen(tree), Seen(u))
  <2> DEFINE c == o.client
  <2>1. u = RemoveItems(tree, <<>>, [client |-> c, publisher |-> Everyone]).tree
    BY <1>3, <1>7 DEF Disconnect
  <2> HIDE DEF c
  <2> QED
    BY <1>1, <1>2, <2>1, Left
<1>8. RoomFits(u) /\ Moves(Seen(tree), Seen(u))
  BY <1>4, <1>5, <1>6, <1>7 DEF Next
<1> QED
  BY <1>3, <1>8

\* Seen through the paths the owners publish, every step is an owner's setting or
\* taking back, a client's leaving or none of them, where all values are equally
\* long, each client has one publisher and no published path is watched: neither the
\* shifting of data in a block nor the cutting of nodes moves another owner's value.
THEOREM ValuesImplemented ==
  ASSUME OneLength, OnePublisher, UnwatchedValues
  PROVE  Spec => ImplementsPublishedValues
<1> DEFINE I == FilledInv /\ RoomFits(tree)
<1>1. Published = Seen(tree)
  BY DEF Published, Seen, ValueIn
<1>2. Init => I /\ Promise!Init
  <2> SUFFICES ASSUME Init PROVE I /\ Promise!Init
    OBVIOUS
  <2>1. FilledInv
    BY InitInv, InitFilled DEF FilledInv
  <2>2. RoomFits(tree) /\ Seen(tree) = [x \in Publish |-> 0]
    BY InitSeen
  <2>3. Promise!Init
    BY <1>1, <2>2 DEF Promise!Init, Promise!None
  <2> QED
    BY <2>1, <2>2, <2>3
<1>3. I /\ [Next]_tree => I' /\ [Promise!Next]_Published
  <2> SUFFICES ASSUME I, [Next]_tree PROVE I' /\ (Promise!Next \/ Published' = Published)
    OBVIOUS
  <2>1. FilledInv'
    BY FilledNext
  <2>2. Published' = Seen(tree')
    BY DEF Published, Seen, ValueIn, PublishedAt
  <2>3. RoomFits(tree') /\ Moves(Published, Published')
    <3>1. CASE Next
      BY <1>1, <2>2, <3>1, NextSeen
    <3>2. CASE UNCHANGED tree
      <4>1. Seen(tree') = Seen(tree)
        BY <3>2
      <4> QED
        BY <1>1, <2>2, <3>2, <4>1 DEF Moves
    <3> QED
      BY <3>1, <3>2
  <2>4. RoomFits(tree)'
    BY <2>3 DEF RoomFits, NodeAt, EntryAt
  <2>5. Promise!Next \/ Published' = Published
    <3>1. CASE \E x \in Publish, v \in Values : Published' = [Published EXCEPT ![x] = v]
      BY <3>1 DEF Promise!Next, Promise!Set
    <3>2. CASE \E x \in Publish : \E n \in 0 .. Len(x[2]) :
                 Published' = [y \in Publish |->
                   IF y[1] = x[1] /\ IsPrefix(SubSeq(x[2], 1, n), y[2]) THEN 0 ELSE Published[y]]
      <4>1. PICK x \in Publish : \E n \in 0 .. Len(x[2]) :
              Published' = [y \in Publish |->
                IF y[1] = x[1] /\ IsPrefix(SubSeq(x[2], 1, n), y[2]) THEN 0 ELSE Published[y]]
        BY <3>2
      <4>2. PICK n \in 0 .. Len(x[2]) :
              Published' = [y \in Publish |->
                IF y[1] = x[1] /\ IsPrefix(SubSeq(x[2], 1, n), y[2]) THEN 0 ELSE Published[y]]
        BY <4>1
      <4> DEFINE q == SubSeq(x[2], 1, n)
      <4>3. \A y \in Publish : Promise!IsPrefix(q, y[2]) <=> IsPrefix(q, y[2])
        BY DEF IsPrefix, Promise!IsPrefix
      <4> HIDE DEF q
      <4>4. Promise!Withdraw(x[1], q)
        BY <4>2, <4>3 DEF Promise!Withdraw, Promise!None, q
      <4> QED
        BY <4>4 DEF Promise!Next, q
    <3>3. CASE \E x \in Publish : Published' = [y \in Publish |->
                 IF y[1].client = x[1].client THEN 0 ELSE Published[y]]
      BY <3>3 DEF Promise!Next, Promise!Leave, Promise!None
    <3> QED
      BY <2>3, <3>1, <3>2, <3>3 DEF Moves
  <2> QED
    BY <2>1, <2>4, <2>5
<1> HIDE DEF I
<1> QED
  BY <1>2, <1>3, PTL DEF Spec, ImplementsPublishedValues, Promise!Spec

-----------------------------------------------------------------------------
(* Who watches a path, and what room is left: for the modules that run     *)
(* these operations.                                                       *)

WatchesThere(t, p) == IF EntryAt(t, p) = Invalid THEN <<>> ELSE NodeAt(t, p).watches
DataThere(t, p) == IF EntryAt(t, p) = Invalid THEN <<>> ELSE NodeAt(t, p).data
SameThere(t, u, p) == WatchesThere(u, p) = WatchesThere(t, p) /\ DataThere(u, p) = DataThere(t, p)

\* What there is where a node was turned, if there was one.
LEMMA ThereTurned ==
  ASSUME NEW t, NEW u, NEW p, NEW m, Turned(t, u, p, m)
  PROVE  /\ EntryAt(t, p) = Invalid => SameThere(t, u, p)
         /\ EntryAt(t, p) # Invalid => WatchesThere(u, p) = m.watches /\ DataThere(u, p) = m.data
<1>1. CASE EntryAt(t, p) = Invalid
  BY <1>1 DEF Turned, SameThere, WatchesThere, DataThere
<1>2. CASE EntryAt(t, p) # Invalid
  <2> DEFINE e == EntryAt(t, p)
  <2>1. \/ EntryAt(u, p) = e /\ SameContents(m, u.node[e])
        \/ EntryAt(u, p) = Invalid /\ m.data = <<>> /\ m.watches = <<>>
    BY <1>2 DEF Turned
  <2> QED
    BY <1>2, <2>1 DEF SameContents, WatchesThere, DataThere, NodeAt
<1> QED
  BY <1>1, <1>2

\* What there is where a way was grown: at its end what the leaf has.
LEMMA ThereGrows ==
  ASSUME NEW t, NEW path, NEW leaf, NEW u, NEW p, Grows(t, path, leaf, u, p),
         EntryAt(t, path) = Invalid
  PROVE  /\ p # path => SameThere(t, u, p)
         /\ p = path /\ EntryAt(u, p) # Invalid =>
              WatchesThere(u, p) = leaf.watches /\ DataThere(u, p) = leaf.data
<1>1. CASE EntryAt(t, p) # Invalid
  <2>1. EntryAt(u, p) = EntryAt(t, p) /\ SameContents(NodeAt(t, p), NodeAt(u, p))
    BY <1>1 DEF Grows, NodeAt
  <2> QED
    BY <1>1, <2>1 DEF SameThere, SameContents, WatchesThere, DataThere
<1>2. CASE EntryAt(t, p) = Invalid /\ EntryAt(u, p) = Invalid
  BY <1>2 DEF SameThere, WatchesThere, DataThere
<1>3. CASE EntryAt(t, p) = Invalid /\ EntryAt(u, p) # Invalid /\ p = path
  BY <1>3 DEF Grows, SameContents, WatchesThere, DataThere, NodeAt
<1>4. CASE EntryAt(t, p) = Invalid /\ EntryAt(u, p) # Invalid /\ p # path
  <2> DEFINE q == NoName
             b == Blank(q, Invalid, 0)
  <2>1. SameContents(b, NodeAt(u, p))
    BY <1>4 DEF Grows, NodeAt
  <2> HIDE DEF q
  <2>2. b.data = <<>> /\ b.watches = <<>>
    BY DEF Blank
  <2> HIDE DEF b
  <2> QED
    BY <1>4, <2>1, <2>2 DEF SameContents, SameThere, WatchesThere, DataThere
<1> QED
  BY <1>1, <1>2, <1>3, <1>4

\* insert() changes no watches but those of the path it stores at: there they are
\* misread, if there are any.
LEMMA InsertThere ==
  ASSUME NEW t, NEW L, Sound(t, L), NodesFilled(t), NEW path \in Seq(STRING), NEW owner, NEW v,
         <<owner, path>> \in Publish, v \in Values, WatchesThere(t, path) = <<>>,
         NEW u, u = Insert(t, path, owner, v).tree, NEW p \in Seq(STRING)
  PROVE  /\ WatchesThere(u, p) = WatchesThere(t, p)
         /\ p # path => DataThere(u, p) = DataThere(t, p)
<1>1. InsertLeaves(t, path, owner, v, u, p)
  BY InsertPath
<1>2. CASE EntryAt(t, path) # Invalid
  <2> DEFINE n == NodeAt(t, path)
             s == SetData(n, owner, v).node
             m == IF p = path THEN s ELSE NodeAt(t, p)
  <2>1. Turned(t, u, p, m)
    BY <1>1, <1>2 DEF InsertLeaves
  <2>2. s.watches = <<>>
    <3>1. n.watches = <<>>
      BY <1>2 DEF WatchesThere
    <3> DEFINE D == DataAt(path)
               A == Holders
               x == <<owner, path>>
               datum == [owner |-> owner, value |-> v]
    <3>2. x \in Publish /\ x[1] = owner /\ x[2] = path
      OBVIOUS
    <3>3. Contents(D, A) /\ datum \in D /\ Filled(n, D, A) /\ v \in Nat
      <4> HIDE DEF x
      <4> QED
        BY <1>2, <3>2, ContentsOf, ValuesAssumption DEF NodesFilled
    <3> HIDE DEF D, A, n
    <3>4. Stored(n, owner, v, s)
      BY <3>3, SetDataStores
    <3> QED
      BY <3>1, <3>4 DEF Stored
  <2> HIDE DEF s, n
  <2>3. EntryAt(t, p) # Invalid =>
          /\ m.watches = NodeAt(t, p).watches
          /\ p # path => m.data = NodeAt(t, p).data
    BY <1>2, <2>2 DEF WatchesThere
  <2> HIDE DEF m
  <2> QED
    BY <2>1, <2>3, ThereTurned DEF SameThere, WatchesThere, DataThere
<1>3. CASE EntryAt(t, path) = Invalid
  <2>1. PICK leaf : /\ IsLeaf(leaf, <<[owner |-> owner, value |-> v]>>, v, <<>>)
                    /\ Grows(t, path, leaf, u, p)
    BY <1>1, <1>3 DEF InsertLeaves
  <2>2. leaf.watches = <<>>
    BY <2>1 DEF IsLeaf
  <2>3. /\ p # path => SameThere(t, u, p)
        /\ p = path /\ EntryAt(u, p) # Invalid => WatchesThere(u, p) = leaf.watches
    BY <1>3, <2>1, ThereGrows
  <2> QED
    BY <1>3, <2>2, <2>3 DEF SameThere, WatchesThere
<1> QED
  BY <1>2, <1>3

\* addWatch() adds a watch to its path, if there is an entry for every new node, and
\* changes nothing elsewhere.
LEMMA AddWatchThere ==
  ASSUME NEW t, NEW L, Sound(t, L), NEW path \in Seq(STRING), NEW owner,
         NEW u, u = AddWatch(t, path, owner).tree, NEW p \in Seq(STRING)
  PROVE  /\ p # path => SameThere(t, u, p)
         /\ p = path /\ WatchesThere(t, p) = <<>> /\ Len(t.free) >= Len(path) =>
              WatchesThere(u, p) = <<owner>> /\ DataThere(u, p) = DataThere(t, p)
<1>1. AddWatchLeaves(t, path, owner, u, p)
  BY AddWatchPath
<1>2. CASE EntryAt(t, path) # Invalid
  <2> DEFINE n == NodeAt(t, path)
  <2>1. PICK m, y : /\ Holds(n, m, n.data, y, Append(n.watches, owner))
                    /\ Turned(t, u, p, IF p = path THEN m ELSE NodeAt(t, p))
    BY <1>1, <1>2 DEF AddWatchLeaves
  <2>2. m.data = n.data /\ m.watches = Append(n.watches, owner)
    BY <2>1 DEF Holds
  <2> DEFINE x == IF p = path THEN m ELSE NodeAt(t, p)
  <2>3. Turned(t, u, p, x)
    BY <2>1
  <2>4. CASE p # path
    BY <2>3, <2>4, ThereTurned DEF SameThere, WatchesThere, DataThere
  <2>5. CASE p = path
    <3>1. WatchesThere(u, p) = Append(n.watches, owner) /\ DataThere(u, p) = n.data
      BY <1>2, <2>2, <2>3, <2>5, ThereTurned
    <3>2. WatchesThere(t, p) = n.watches /\ DataThere(t, p) = n.data
      BY <1>2, <2>5 DEF WatchesThere, DataThere
    <3>3. n.watches = <<>> => Append(n.watches, owner) = <<owner>>
      OBVIOUS
    <3> QED
      BY <2>5, <3>1, <3>2, <3>3
  <2> QED
    BY <2>4, <2>5
<1>3. CASE EntryAt(t, path) = Invalid
  <2>1. PICK leaf : IsLeaf(leaf, <<>>, 0, <<owner>>) /\ Grows(t, path, leaf, u, p)
    BY <1>1, <1>3 DEF AddWatchLeaves
  <2>2. leaf.data = <<>> /\ leaf.watches = <<owner>>
    BY <2>1 DEF IsLeaf
  <2>3. Len(t.free) >= Len(path) => EntryAt(u, path) # Invalid
    <3>1. Matched(t, path) \in 0 .. Len(path) /\ Len(path) \in Nat
      BY WayIs DEF Sound
    <3>2. Len(t.free) >= Len(path) - Matched(t, path) => EntryAt(u, path) # Invalid
      BY <1>1, <1>3 DEF AddWatchLeaves
    <3>3. Len(t.free) \in Nat
      BY LenProperties DEF Sound, IsTree
    <3> QED
      BY <3>1, <3>2, <3>3
  <2>4. /\ p # path => SameThere(t, u, p)
        /\ p = path /\ EntryAt(u, p) # Invalid =>
             WatchesThere(u, p) = leaf.watches /\ DataThere(u, p) = leaf.data
    BY <1>3, <2>1, ThereGrows
  <2> QED
    BY <1>3, <2>2, <2>3, <2>4 DEF DataThere
<1> QED
  BY <1>2, <1>3

\* remWatch() takes the only watch, and changes nothing elsewhere.
LEMMA RemWatchThere ==
  ASSUME NEW t, NEW L, Sound(t, L), NEW path \in Seq(STRING), NEW owner,
         NEW u, u = RemWatch(t, path, owner).tree, NEW p \in Seq(STRING)
  PROVE  /\ p # path => SameThere(t, u, p)
         /\ DataThere(u, p) = DataThere(t, p)
         /\ WatchesThere(t, p) = <<>> => WatchesThere(u, p) = <<>>
         /\ WatchesThere(t, p) \in {<<>>, <<owner>>} => WatchesThere(u, p) \in {<<>>, <<owner>>}
<1>1. RemWatchLeaves(t, path, owner, u, p)
  BY RemWatchPath
<1>2. CASE u = t
  BY <1>2 DEF SameThere
<1>3. CASE u # t
  <2> DEFINE n == NodeAt(t, path)
  <2>1. PICK m : /\ Holds(n, m, n.data, n.room, WithoutWatch(n.watches, owner))
                 /\ Turned(t, u, p, IF p = path THEN m ELSE NodeAt(t, p))
    BY <1>1, <1>3 DEF RemWatchLeaves
  <2>2. EntryAt(t, path) # Invalid
    BY <1>1, <1>3 DEF RemWatchLeaves
  <2>3. m.data = n.data /\ m.watches = WithoutWatch(n.watches, owner)
    BY <2>1 DEF Holds
  <2> DEFINE x == IF p = path THEN m ELSE NodeAt(t, p)
  <2>4. Turned(t, u, p, x)
    BY <2>1
  <2>5. CASE p # path
    BY <2>4, <2>5, ThereTurned DEF SameThere, WatchesThere, DataThere
  <2>6. CASE p = path
    <3>1. WatchesThere(u, p) = WithoutWatch(n.watches, owner) /\ DataThere(u, p) = n.data
      BY <2>2, <2>3, <2>4, <2>6, ThereTurned
    <3>2. WatchesThere(t, p) = n.watches /\ DataThere(t, p) = n.data
      BY <2>2, <2>6 DEF WatchesThere, DataThere
    <3>3. owner \in ToSet(n.watches)
      BY <1>1, <1>3 DEF RemWatchLeaves
    <3>4. n.watches # <<>>
      BY <3>3 DEF ToSet
    <3>5. WithoutWatch(<<owner>>, owner) = <<>>
      <4>1. Len(<<owner>>) = 1
        OBVIOUS
      <4> QED
        BY <4>1 DEF WithoutWatch
    <3> QED
      BY <2>6, <3>1, <3>2, <3>4, <3>5
  <2> QED
    BY <2>5, <2>6
<1> QED
  BY <1>2, <1>3

\* Who owner removes from the watches of a node without data.
Takes(x, owner) == x.client = owner.client /\ owner.publisher \in {Everyone, x.publisher}
Untaken(list, owner) == {x \in ToSet(list) : ~Takes(x, owner)}

\* Of a list of one, it is picked or not.
LEMMA PickedOne ==
  ASSUME NEW x, NEW S
  PROVE  Picked(<<x>>, S) = IF x \in S THEN <<x>> ELSE <<>>
<1> DEFINE X == {x}
           s == <<x>>
           k == Picked(s, S)
<1>1. s \in Seq(X) /\ Len(s) = 1 /\ s[1] = x
  OBVIOUS
<1>2. ToSet(s) = {x}
  BY DEF ToSet
<1>3. Apart(s)
  BY <1>1 DEF Apart
<1>4. k \in Seq(X) /\ ToSet(k) = ToSet(s) \cap S /\ Apart(k)
  <2> HIDE DEF X, s
  <2> QED
    BY <1>1, <1>3, PickedIs
<1> HIDE DEF k
<1>5. Len(k) \in Nat /\ \A i \in 1 .. Len(k) : k[i] = x
  <2>1. \A i \in 1 .. Len(k) : k[i] \in X
    BY <1>4, ElementOfSeq
  <2> QED
    BY <1>4, <2>1, LenProperties
<1>6. Len(k) = 0 \/ Len(k) = 1
  <2>1. ASSUME Len(k) > 1  PROVE FALSE
    <3>1. 1 \in 1 .. Len(k) /\ 2 \in 1 .. Len(k)
      BY <1>5, <2>1
    <3>2. k[1] = k[2]
      BY <1>5, <3>1
    <3>3. k[1].owner = k[2].owner => 1 = 2
      BY <1>4, <3>1 DEF Apart
    <3> QED
      BY <3>2, <3>3
  <2> QED
    BY <1>5, <2>1
<1>7. ToSet(k) = {} <=> k = <<>>
  <2> HIDE DEF X
  <2> QED
    BY <1>4, NoItems
<1>8. Len(k) = 0 <=> k = <<>>
  <2> HIDE DEF X
  <2> QED
    BY <1>4, NoItems
<1>9. Len(k) = 1 => k = <<x>>
  <2> SUFFICES ASSUME Len(k) = 1 PROVE k = <<x>>
    OBVIOUS
  <2>1. k = [i \in 1 .. 1 |-> k[i]]
    BY <1>4, LenProperties
  <2>2. \A i \in 1 .. 1 : k[i] = x
    BY <1>5
  <2>3. k = [i \in 1 .. 1 |-> x]
    BY <2>1, <2>2
  <2> QED
    BY <2>3
<1> QED
  BY <1>2, <1>4, <1>6, <1>7, <1>8, <1>9 DEF k

\* A node without data keeps the watches that are not the owner's.
LEMMA BareStripped ==
  ASSUME NEW D, NEW A, NEW n, Filled(n, D, A), n.data = <<>>, NEW owner
  PROVE  /\ Stripped(n, owner).node.data = <<>>
         /\ Stripped(n, owner).node.watches =
              Picked(n.watches, Untaken(n.watches, owner))
<1> DEFINE m == Stripped(n, owner).node
           S == {x \in ToSet(n.watches) : ~Takes(x, owner)}
           a == Picked(n.watches, S)
<1>1. Len(n.data) = 0 /\ ~(Len(n.data) = 1)
  OBVIOUS
<1>2. \A T : Picked(n.data, T) = n.data
  <2>1. n.data \in Seq({})
    OBVIOUS
  <2> QED
    BY <2>1, NoItems
<1>3. m = [n EXCEPT !.watches = a]
  <2>1. \A x : Takes(x, owner) <=>
          x.client = owner.client /\ ~FALSE /\ owner.publisher \in {Everyone, x.publisher}
    BY DEF Takes
  <2>2. Picked(n.data, {d \in ToSet(n.data) : ~OwnedBy(d, owner, Len(n.data) = 1)}) = n.data
    BY <1>2
  <2>3. Stripped(n, owner).node = [n EXCEPT !.watches = Picked(@, {x \in ToSet(@) :
          ~(x.client = owner.client /\ ~FALSE /\ owner.publisher \in {Everyone, x.publisher})})]
    BY <1>1, <2>2 DEF Stripped
  <2> QED
    BY <2>1, <2>3
<1> HIDE DEF a, m
<1>4. Holds(n, m, n.data, n.room, a)
  BY <1>3, RefilledHolds DEF Filled
<1> QED
  BY <1>4 DEF Holds, a, m, S, Untaken

\* A removal takes the owner's watches below its path and no other's, where there is
\* no data for watches to be misread by.
LEMMA RemoveItemsThere ==
  ASSUME NEW t, NEW L, Sound(t, L), NodesFilled(t), NEW path \in Seq(STRING), NEW owner,
         NEW u, u = RemoveItems(t, path, owner).tree, NEW p \in Seq(STRING)
  PROVE  /\ WatchesThere(t, p) = <<>> => WatchesThere(u, p) = <<>>
         /\ DataThere(t, p) = <<>> => DataThere(u, p) = <<>>
         /\ \A x : WatchesThere(t, p) = <<x>> /\ DataThere(t, p) = <<>> =>
              /\ WatchesThere(u, p) \in {<<>>, <<x>>}
              /\ ~IsPrefix(path, p) \/ ~Takes(x, owner) => WatchesThere(u, p) = <<x>>
<1> DEFINE n == NodeAt(t, p)
           s == Stripped(n, owner).node
           m == IF IsPrefix(path, p) THEN s ELSE n
<1>1. RemoveItemsLeaves(t, path, owner, u, p)
  BY RemoveItemsPath
<1>2. CASE EntryAt(t, path) = Invalid
  <2>1. u = t
    BY <1>1, <1>2 DEF RemoveItemsLeaves
  <2> QED
    BY <2>1
<1>3. CASE EntryAt(t, path) # Invalid
  <2>1. Turned(t, u, p, m)
    BY <1>1, <1>3 DEF RemoveItemsLeaves
  <2>2. CASE EntryAt(t, p) = Invalid
    <3>1. SameThere(t, u, p)
      BY <2>1, <2>2, ThereTurned
    <3> QED
      BY <3>1 DEF SameThere
  <2>3. CASE EntryAt(t, p) # Invalid
    <3> DEFINE D == DataAt(p)
               A == Holders
    <3>1. Contents(D, A) /\ Filled(n, D, A)
      BY <2>3, ContentsOf DEF NodesFilled
    <3>2. Filled(s, D, A) /\ Bared(n, owner, s)
      <4> HIDE DEF D, A, n
      <4> QED
        BY <3>1, StrippedLeaves
    <3>3. WatchesThere(u, p) = m.watches /\ DataThere(u, p) = m.data
      BY <2>1, <2>3, ThereTurned
    <3>4. WatchesThere(t, p) = n.watches /\ DataThere(t, p) = n.data
      BY <2>3 DEF WatchesThere, DataThere
    <3>5. n.data = <<>> =>
            /\ s.data = <<>>
            /\ s.watches = Picked(n.watches, Untaken(n.watches, owner))
      <4>1. \A z : Filled(z, D, A) /\ z.data = <<>> =>
              /\ Stripped(z, owner).node.data = <<>>
              /\ Stripped(z, owner).node.watches =
                   Picked(z.watches, Untaken(z.watches, owner))
        <5> HIDE DEF D, A, n, s
        <5> QED
          BY BareStripped
      <4> HIDE DEF D, A, n
      <4> QED
        BY <3>1, <4>1
    <3>6. n.watches = <<>> => s.watches = <<>>
      BY <3>2 DEF Bared
    <3>7. ASSUME NEW x, n.watches = <<x>>, n.data = <<>>
          PROVE  s.watches \in {<<>>, <<x>>} /\ (~Takes(x, owner) => s.watches = <<x>>)
      <4> DEFINE S == {y \in ToSet(<<x>>) : ~Takes(y, owner)}
      <4>1. s.watches = Picked(<<x>>, S)
        BY <3>5, <3>7 DEF Untaken
      <4>2. ~Takes(x, owner) => x \in S
        BY DEF ToSet
      <4> HIDE DEF S, s
      <4> QED
        BY <4>1, <4>2, PickedOne
    <3> HIDE DEF s, n
    <3>8. ASSUME NEW x, WatchesThere(t, p) = <<x>>, DataThere(t, p) = <<>>
          PROVE  /\ WatchesThere(u, p) \in {<<>>, <<x>>}
                 /\ ~IsPrefix(path, p) \/ ~Takes(x, owner) => WatchesThere(u, p) = <<x>>
      <4>1. n.watches = <<x>> /\ n.data = <<>>
        BY <3>4, <3>8
      <4>2. m.watches = s.watches \/ (m.watches = <<x>> /\ ~IsPrefix(path, p))
        BY <4>1
      <4>3. ~IsPrefix(path, p) => m.watches = <<x>>
        BY <4>1
      <4> HIDE DEF m
      <4> QED
        BY <3>3, <3>7, <4>1, <4>2, <4>3
    <3> QED
      BY <3>3, <3>4, <3>5, <3>6, <3>8
  <2> QED
    BY <2>2, <2>3
<1> QED
  BY <1>2, <1>3

\* Only growing a way takes entries, at most one for each name.
LEMMA GrowingTakes ==
  ASSUME NEW t, NEW L, Sound(t, L), NEW path \in Seq(STRING), NEW owner, NEW v,
         NEW u, u = Insert(t, path, owner, v).tree \/ u = AddWatch(t, path, owner).tree
  PROVE  Len(u.free) >= Len(t.free) - Len(path)
<1>1. IsTree(t) /\ Linked(t, L) /\ t.free \in Seq(Entries \ {Root})
  BY DEF Sound, IsTree
<1>2. Len(t.free) \in Nat /\ Len(path) \in Nat
  BY <1>1, LenProperties
<1>3. CASE EntryAt(t, path) = Invalid
  <2>1. PICK leaf : IsNode(leaf) /\ u = Grown(t, path, leaf).tree
    <3> DEFINE q == NoName
               b == Blank(q, Invalid, 0)
               x == <<[owner |-> owner, value |-> v]>>
               y == <<owner>>
    <3>1. IsNode(b)
      <4> HIDE DEF q
      <4> QED
        BY BlankIs DEF q
    <3>2. IsNode([b EXCEPT !.data = x, !.room = v]) /\ IsNode([b EXCEPT !.watches = y])
      <4> HIDE DEF b, x, y
      <4> QED
        BY <3>1, RefilledHolds DEF Holds
    <3>3. \/ u = Grown(t, path, [b EXCEPT !.data = x, !.room = v]).tree
          \/ u = Grown(t, path, [b EXCEPT !.watches = y]).tree
      BY <1>3 DEF EntryAt, Insert, AddWatch
    <3> HIDE DEF b, x, y
    <3> QED
      BY <3>2, <3>3
  <2>2. Walk(t, path)[Len(path)] = Invalid
    BY <1>3 DEF EntryAt
  <2>3. PICK K, made, c : GrewBy(t, L, path, leaf, u, K, made, c)
    <3>1. PICK K : Grew(t, L, path, leaf, u, K)
      BY <2>1, <2>2, GrownKeeps
    <3> QED
      BY <3>1 DEF Grew
  <2>4. Matched(t, path) \in 0 .. Len(path)
    BY <1>1, WayIs
  <2>5. c \in 0 .. Len(path) - Matched(t, path) /\ Len(u.free) = Len(t.free) - c
    BY <2>3 DEF GrewBy
  <2> QED
    BY <1>2, <2>4, <2>5
<1>4. CASE EntryAt(t, path) # Invalid
  <2>1. PICK e, S, x : e \in Entries /\ u = Put(Bumped(t, S), e, x)
    <3>1. EntryAt(t, path) \in Entries
      BY <1>1, <1>4, EntryAtIs
    <3>2. CASE u = Insert(t, path, owner, v).tree
      <4> DEFINE e == Walk(t, path)[Len(path)]
                 s == SetData(t.node[e], owner, v)
                 touched == (IF s.moved THEN {e} ELSE {})
                            \cup (IF s.rv THEN {Walk(t, path)[i] : i \in 0 .. Len(path) - 1} ELSE {})
      <4>1. u = Put(Bumped(t, touched), e, s.node)
        <5>1. e # Invalid
          BY <1>4 DEF EntryAt
        <5> HIDE DEF s, touched
        <5> QED
          BY <3>2, <5>1 DEF Insert, Put, Result, s, touched
      <4> HIDE DEF s, touched
      <4> QED
        BY <3>1, <4>1 DEF EntryAt
    <3>3. CASE u = AddWatch(t, path, owner).tree
      <4> DEFINE e == Walk(t, path)[Len(path)]
                 n == t.node[e]
                 m == [n EXCEPT !.watches = Append(@, owner),
                                !.room = IF n.watches # <<>> THEN @
                                         ELSE IF Len(n.data) = 1 THEN n.data[1].value
                                         ELSE 0]
                 touched == {Walk(t, path)[i] : i \in 0 .. Len(path) - 1}
      <4>1. u = Put(Bumped(t, touched), e, m)
        BY <1>4, <3>3 DEF EntryAt, AddWatch, Put, Result
      <4> HIDE DEF m, touched
      <4> QED
        BY <3>1, <4>1 DEF EntryAt
    <3> QED
      BY <3>2, <3>3
  <2>2. IsTree(Bumped(t, S)) /\ Bumped(t, S).free = t.free
    BY <1>1, BumpedIs
  <2> DEFINE b == Bumped(t, S)
  <2> HIDE DEF b
  <2>3. u.free = t.free
    BY <2>1, <2>2, PutIs DEF b
  <2> QED
    BY <1>2, <2>3
<1> QED
  BY <1>3, <1>4

\* remWatch() leaves the entries it cuts where they are, a removal hands some back.
LEMMA RemovingTakesNone ==
  ASSUME NEW t, NEW L, Sound(t, L), NEW path \in Seq(STRING), NEW owner,
         NEW u, u = RemWatch(t, path, owner).tree \/ u = RemoveItems(t, path, owner).tree
  PROVE  Len(u.free) >= Len(t.free)
<1>1. IsTree(t) /\ Linked(t, L) /\ t.free \in Seq(Entries \ {Root})
  BY DEF Sound, IsTree
<1>2. Len(t.free) \in Nat /\ Len(path) \in Nat
  BY <1>1, LenProperties
<1>3. ASSUME NEW v, IsTree(v), NEW w, NEW k, k \in Nat \ {0}, NEW cut \in BOOLEAN, NEW S
      PROVE  Bumped(Prune(v, w, k, cut), S).free = v.free
  <2> DEFINE u1 == Prune(v, w, k, cut)
             gone == Gone(v, w, k, cut)
  <2>0. PruneGives(v, w, k, cut, gone, u1)
    BY <1>3, PruneIs
  <2> HIDE DEF u1, gone
  <2>1. IsTree(u1) /\ u1.free = v.free
    BY <2>0 DEF PruneGives
  <2> QED
    BY <2>1, BumpedIs DEF u1
<1>4. CASE EntryAt(t, path) = Invalid
  BY <1>2, <1>4 DEF EntryAt, RemWatch, RemoveItems, Result
<1>5. CASE EntryAt(t, path) # Invalid /\ u = RemWatch(t, path, owner).tree
  <2> DEFINE w == Walk(t, path)
             k == Len(path)
             e == w[k]
             n == [t.node[e] EXCEPT !.watches = WithoutWatch(@, owner)]
             t1 == Put(t, e, n)
             cut == ~Valid(n)
             touched == IF cut THEN {w[i] : i \in 0 .. k - 1} ELSE {w[k - 1]}
             z == Bumped(Prune(t1, w, k, cut), touched)
  <2>1. e \in Entries
    BY <1>1, <1>5, EntryAtIs DEF EntryAt
  <2>2. IsTree(t1) /\ t1.free = t.free
    <3> HIDE DEF n, e
    <3> QED
      BY <1>1, <2>1, PutIs
  <2>3. u = t \/ u = t1 \/ (k # 0 /\ u = z)
    BY <1>5 DEF RemWatch, Result, Put
  <2>4. k # 0 => z.free = t.free
    <3>1. cut \in BOOLEAN
      OBVIOUS
    <3> HIDE DEF t1, w, cut, touched
    <3> QED
      BY <1>2, <1>3, <2>2, <3>1
  <2> HIDE DEF z, t1
  <2> QED
    BY <1>2, <2>2, <2>3, <2>4
<1>6. CASE EntryAt(t, path) # Invalid /\ u = RemoveItems(t, path, owner).tree
  <2> DEFINE w == Walk(t, path)
             k == Len(path)
             e == w[k]
             r == RemoveUnder(t, e, owner)
             touched == IF r.removed = {} THEN {} ELSE {w[i] : i \in 0 .. k - 1}
             cut == e \in r.removed
             z == Bumped(IF k = 0 THEN r.tree ELSE Prune(r.tree, w, k, cut), touched)
  <2>1. e \in L
    BY <1>1, <1>6, EntryAtIs DEF EntryAt
  <2>2. RemoveGives(t, L, e, r.tree, r.removed)
    <3> HIDE DEF e
    <3> QED
      BY <2>1, RemoveUnderIs
  <2>3. IsTree(r.tree) /\ r.removed \in SUBSET L
    <3>1. Under(t, e) \subseteq L
      <4> HIDE DEF e
      <4> QED
        BY <1>1, <2>1, UnderIs
    <3> HIDE DEF r, e
    <3> QED
      BY <2>2, <3>1 DEF RemoveGives
  <2>4. r.tree.free = HandedBack(t, r.removed) \o t.free
    <3> DEFINE S == Under(t, e)
    <3>1. \E R, T, node : r = [tree |-> [Bumped(t, T) EXCEPT !.node = node,
                                          !.free = HandedBack(t, R) \o @],
                               bumped |-> T, removed |-> R]
      BY DEF RemoveUnder
    <3>2. PICK R, T, node : r = [tree |-> [Bumped(t, T) EXCEPT !.node = node,
                                          !.free = HandedBack(t, R) \o @],
                               bumped |-> T, removed |-> R]
      BY <3>1
    <3> HIDE DEF r
    <3> DEFINE b == Bumped(t, T)
               h == HandedBack(t, R)
    <3>3. IsTree(b) /\ b.free = t.free
      BY <1>1, BumpedIs
    <3>4. r.tree = [b EXCEPT !.node = node, !.free = h \o @] /\ r.removed = R
      BY <3>2
    <3> HIDE DEF b, h
    <3>5. b = TreeOf(b.node, b.version, b.free, b.nextCreationId)
      BY <3>3 DEF IsTree, TreeOf
    <3>6. ASSUME NEW a1, NEW a2, NEW a3, NEW a4
          PROVE  [TreeOf(a1, a2, a3, a4) EXCEPT !.node = node, !.free = h \o @].free = h \o a3
      BY DEF TreeOf
    <3>7. [b EXCEPT !.node = node, !.free = h \o @].free = h \o b.free
      BY <3>5, <3>6
    <3> QED
      BY <3>3, <3>4, <3>7 DEF h
  <2>5. Len(r.tree.free) >= Len(t.free)
    <3> DEFINE R == r.removed
               h == HandedBack(t, R)
    <3>1. h \in Seq(R)
      <4> HIDE DEF R
      <4> QED
        BY <1>1, <2>3, HandedBackIs DEF R
    <3>2. Len(h) \in Nat
      BY <3>1, LenProperties
    <3> HIDE DEF h, R, r
    <3>3. Len(h \o t.free) = Len(h) + Len(t.free)
      BY <1>1, <3>1, ConcatProperties
    <3>4. Len(r.tree.free) = Len(h \o t.free)
      BY <2>4 DEF h, R
    <3> QED
      BY <1>2, <3>2, <3>3, <3>4
  <2>6. u = z
    <3>1. e # Invalid
      BY <1>6 DEF EntryAt
    <3> HIDE DEF touched, cut, r
    <3> QED
      BY <1>6, <3>1 DEF RemoveItems, Result, r, touched, cut
  <2>7. z.free = r.tree.free
    <3>1. cut \in BOOLEAN
      OBVIOUS
    <3> HIDE DEF r, w, cut, touched
    <3>2. CASE k = 0
      BY <2>3, <3>2, BumpedIs
    <3>3. CASE k # 0
      BY <1>2, <1>3, <2>3, <3>1, <3>3
    <3> QED
      BY <3>2, <3>3
  <2> HIDE DEF z, r
  <2> QED
    BY <2>5, <2>6, <2>7
<1> QED
  BY <1>4, <1>5, <1>6
=============================================================================
