---------------------- MODULE ContactsMemoryEngineProofs ----------------------
(***************************************************************************)
(* What holds of ContactsMemoryEngine for any contacts, engines and bounds.*)
(*                                                                         *)
(* A batch is a course: what the list has led to after each of its items   *)
(* (Each is the last of them, EachIsCourse).  What each item keeps, the    *)
(* batch keeps (EachReaches, EachKeeps).  Lists of relationships are       *)
(* compared with Among, and a lemma says how Among goes with each change of*)
(* a list (AmongAppend, AmongRemoved).                                     *)
(*                                                                         *)
(* IInv has the types, that the lists of ids and contacts match (Matched), *)
(* and that observers are up to date.  In the middle of a batch they are   *)
(* not: there they know every contact the change set does not name (Shown),*)
(* and the signals at its end bring them up to date (EmitShows).           *)
(*                                                                         *)
(* RelationshipsAgree follows from IInv and Agree, which each item of a    *)
(* batch keeps under one condition, that first contacts are given with the *)
(* manager's URI: with an empty one the code does not find the             *)
(* relationships to remove, as run contacts_empty_uri shows.               *)
(***************************************************************************)
EXTENDS ContactsMemoryEngine, SequenceTheorems, FiniteSetTheorems, WellFoundedInduction,
  TLAPS

\* A set of naturals has a least element.
LEMMA LeastExists ==
  ASSUME NEW S \in SUBSET Nat, S # {}
  PROVE  \E k \in S : \A j \in S : k <= j
<1> DEFINE R == {x \in Nat \X Nat : x[1] < x[2]}
<1>1. OpToRel(<, Nat) = R
  BY Zenon DEF OpToRel
<1>2. IsWellFoundedOn(R, Nat)
  BY <1>1, NatLessThanWellFounded, Zenon
<1>3. PICK k \in S : \A j \in S : <<j, k>> \notin R
  <2> HIDE DEF R
  <2> QED
    BY <1>2, WFMin
<1>4. \A j \in S : j \in Nat /\ k \in Nat /\ ~(j < k)
  BY <1>3
<1> QED
  BY <1>4

\* A set of numbers up to n that has 0 and with each the next has n: the least
\* that is missing would have one before it.
LEMMA AlongNumbers ==
  ASSUME NEW n \in Nat, NEW G, 0 \in G, \A i \in 1 .. n : i - 1 \in G => i \in G
  PROVE  \A i \in 0 .. n : i \in G
<1> DEFINE S == {i \in 0 .. n : i \notin G}
<1> SUFFICES ASSUME S # {} PROVE FALSE
  OBVIOUS
<1>1. PICK m \in S : \A j \in S : m <= j
  <2>1. S \in SUBSET Nat
    OBVIOUS
  <2> HIDE DEF S
  <2> QED
    BY <2>1, LeastExists
<1>2. m \in 1 .. n /\ m - 1 \in 0 .. n
  OBVIOUS
<1>3. m - 1 \notin S
  <2> HIDE DEF S
  <2> QED
    BY <1>1, <1>2
<1> QED
  BY <1>2, <1>3

\* What is done to each item of a list; picking is of a set.
Step(op, S, w, x) ==
  CASE op = "saveContact" -> SaveContact(w, x)
    [] op = "removeContact" -> RemoveContact(w, x)
    [] op = "saveRelationship" -> SaveRelationship(w, x)
    [] op = "removeRelationship" -> RemoveRelationship(w, x)
    [] op = "pick" -> IF x \in S THEN Append(w, x) ELSE w

\* What a list has led to after each item.
Course(op, S, w, list, m, f) ==
  f = [n \in 0 .. m |-> IF n = 0 THEN w ELSE Step(op, S, f[n - 1], list[n])]

\* A course has a next item ...
LEMMA CourseGoesOn ==
  ASSUME NEW op, NEW S, NEW w, NEW list, NEW m \in Nat, m # 0,
         NEW g, Course(op, S, w, list, m - 1, g)
  PROVE  \E f : Course(op, S, w, list, m, f)
<1> DEFINE h(q, i) == IF i = 0 THEN w ELSE Step(op, S, q[i - 1], list[i])
           f == [i \in 0 .. m |-> h(g, i)]
<1>1. \A i \in 0 .. m - 1 : f[i] = g[i]
  BY DEF Course
<1>2. ASSUME NEW i \in 0 .. m, i # 0  PROVE f[i - 1] = g[i - 1]
  <2>1. i - 1 \in 0 .. m - 1
    BY <1>2
  <2> HIDE DEF f
  <2> QED
    BY <1>1, <2>1
<1>3. \A i \in 0 .. m : h(g, i) = h(f, i)
  BY <1>2
<1>4. f = [i \in 0 .. m |-> h(f, i)]
  <2>1. [i \in 0 .. m |-> h(g, i)] = [i \in 0 .. m |-> h(f, i)]
    BY <1>3
  <2> QED
    BY <2>1
<1> HIDE DEF f
<1>5. Course(op, S, w, list, m, f)
  BY <1>4 DEF Course
<1> QED
  BY <1>5

\* ... and so goes through any list.
LEMMA CourseExists ==
  ASSUME NEW op, NEW S, NEW w, NEW list, NEW n \in Nat
  PROVE  \E f : Course(op, S, w, list, n, f)
<1> DEFINE G == {m \in 0 .. n : \E f : Course(op, S, w, list, m, f)}
<1>1. 0 \in G
  <2> DEFINE f == [i \in 0 .. 0 |-> w]
  <2>1. f = [i \in 0 .. 0 |-> IF i = 0 THEN w ELSE Step(op, S, f[i - 1], list[i])]
    OBVIOUS
  <2> HIDE DEF f
  <2>2. Course(op, S, w, list, 0, f)
    BY <2>1 DEF Course
  <2> QED
    BY <2>2
<1>2. ASSUME NEW i \in 1 .. n, i - 1 \in G  PROVE i \in G
  <2>1. PICK g : Course(op, S, w, list, i - 1, g)
    BY <1>2
  <2>2. i \in Nat /\ i # 0 /\ i \in 0 .. n
    OBVIOUS
  <2>3. \E f : Course(op, S, w, list, i, f)
    BY <2>1, <2>2, CourseGoesOn
  <2> QED
    BY <2>2, <2>3
<1>3. \A i \in 0 .. n : i \in G
  <2> HIDE DEF G
  <2> QED
    BY <1>1, <1>2, AlongNumbers
<1>4. n \in G
  <2> HIDE DEF G
  <2> QED
    BY <1>3
<1> QED
  BY <1>4

\* What a course does first and next.
LEMMA CourseSteps ==
  ASSUME NEW op, NEW S, NEW w, NEW list, NEW n \in Nat, NEW f, Course(op, S, w, list, n, f)
  PROVE  /\ f[0] = w
         /\ \A i \in 1 .. n : f[i] = Step(op, S, f[i - 1], list[i])
<1> DEFINE h(i) == IF i = 0 THEN w ELSE Step(op, S, f[i - 1], list[i])
<1>1. \A i \in 0 .. n : f[i] = h(i)
  <2>1. f = [i \in 0 .. n |-> h(i)]
    BY DEF Course
  <2> HIDE DEF h
  <2> QED
    BY <2>1
<1>2. 0 \in 0 .. n /\ \A i \in 1 .. n : i \in 0 .. n /\ i # 0
  OBVIOUS
<1> QED
  BY <1>1, <1>2

\* The batches of the engine are courses.
LEMMA EachIsCourse ==
  ASSUME NEW X, NEW list \in Seq(X), NEW w, NEW S
  PROVE  /\ \E f : /\ Course("saveContact", S, w, list, Len(list), f)
                   /\ Each(SaveContact, w, list) = f[Len(list)]
         /\ \E f : /\ Course("removeContact", S, w, list, Len(list), f)
                   /\ Each(RemoveContact, w, list) = f[Len(list)]
         /\ \E f : /\ Course("saveRelationship", S, w, list, Len(list), f)
                   /\ Each(SaveRelationship, w, list) = f[Len(list)]
         /\ \E f : /\ Course("removeRelationship", S, w, list, Len(list), f)
                   /\ Each(RemoveRelationship, w, list) = f[Len(list)]
<1> DEFINE C(op) == CHOOSE f : Course(op, S, w, list, Len(list), f)
<1>1. Len(list) \in Nat
  OBVIOUS
<1>2. \A op : Course(op, S, w, list, Len(list), C(op))
  <2> SUFFICES ASSUME NEW op PROVE Course(op, S, w, list, Len(list), C(op))
    OBVIOUS
  <2>1. \E f : Course(op, S, w, list, Len(list), f)
    BY <1>1, CourseExists
  <2> QED
    BY <2>1
<1>3. Each(SaveContact, w, list) = C("saveContact")[Len(list)]
  BY DEF Each, Course, Step
<1>4. Each(RemoveContact, w, list) = C("removeContact")[Len(list)]
  BY DEF Each, Course, Step
<1>5. Each(SaveRelationship, w, list) = C("saveRelationship")[Len(list)]
  BY DEF Each, Course, Step
<1>6. Each(RemoveRelationship, w, list) = C("removeRelationship")[Len(list)]
  BY DEF Each, Course, Step
<1> HIDE DEF C
<1> QED
  BY <1>2, <1>3, <1>4, <1>5, <1>6

\* So is picking.
LEMMA AmongIsCourse ==
  ASSUME NEW X, NEW list \in Seq(X), NEW S
  PROVE  \E f : /\ Course("pick", S, <<>>, list, Len(list), f)
                /\ Among(list, S) = f[Len(list)]
<1> DEFINE c == CHOOSE f : Course("pick", S, <<>>, list, Len(list), f)
<1>1. Len(list) \in Nat
  OBVIOUS
<1>2. Course("pick", S, <<>>, list, Len(list), c)
  <2>1. \E f : Course("pick", S, <<>>, list, Len(list), f)
    BY <1>1, CourseExists
  <2> QED
    BY <2>1
<1>3. Among(list, S) = c[Len(list)]
  BY DEF Among, Each, Course, Step
<1> HIDE DEF c
<1> QED
  BY <1>2, <1>3
-----------------------------------------------------------------------------
\* Two lists one behind the other.
LEMMA ConcatIs ==
  ASSUME NEW X, NEW s \in Seq(X), NEW t \in Seq(X)
  PROVE  /\ Len(s) \in Nat /\ Len(t) \in Nat
         /\ s \o t \in Seq(X) /\ Len(s \o t) = Len(s) + Len(t)
         /\ \A i \in 1 .. Len(s) : (s \o t)[i] = s[i] /\ s[i] \in X
         /\ \A i \in 1 .. Len(t) : (s \o t)[Len(s) + i] = t[i] /\ t[i] \in X
<1> DEFINE u == s \o t
<1>1. /\ Len(s) \in Nat /\ Len(t) \in Nat
      /\ u \in Seq(X) /\ Len(u) = Len(s) + Len(t)
      /\ \A i \in 1 .. Len(s) + Len(t) : u[i] = IF i <= Len(s) THEN s[i] ELSE t[i - Len(s)]
  BY ConcatProperties
<1> HIDE DEF u
<1>2. ASSUME NEW i \in 1 .. Len(s)  PROVE u[i] = s[i] /\ s[i] \in X
  <2>1. i \in 1 .. Len(s) + Len(t) /\ i <= Len(s)
    BY <1>1
  <2> QED
    BY <1>1, <2>1, ElementOfSeq
<1>3. ASSUME NEW i \in 1 .. Len(t)  PROVE u[Len(s) + i] = t[i] /\ t[i] \in X
  <2> DEFINE k == Len(s) + i
  <2>1. k \in 1 .. Len(s) + Len(t) /\ ~(k <= Len(s)) /\ k - Len(s) = i
    BY <1>1
  <2> HIDE DEF k
  <2>2. u[k] = t[i]
    BY <1>1, <2>1
  <2> QED
    BY <2>2, ElementOfSeq DEF k
<1> QED
  BY <1>1, <1>2, <1>3 DEF u

\* An item at the end of a list.
LEMMA AppendIs ==
  ASSUME NEW X, NEW s \in Seq(X), NEW x \in X
  PROVE  /\ Append(s, x) \in Seq(X) /\ Len(Append(s, x)) = Len(s) + 1 /\ Len(s) \in Nat
         /\ \A i \in 1 .. Len(s) : Append(s, x)[i] = s[i]
         /\ Append(s, x)[Len(s) + 1] = x
         /\ ToSet(Append(s, x)) = ToSet(s) \cup {x}
<1> DEFINE u == Append(s, x)
<1>1. /\ u \in Seq(X) /\ Len(u) = Len(s) + 1 /\ Len(s) \in Nat
      /\ \A i \in 1 .. Len(s) : u[i] = s[i]
      /\ u[Len(s) + 1] = x
  BY AppendProperties
<1> HIDE DEF u
<1>2. DOMAIN u = 1 .. Len(s) + 1 /\ DOMAIN s = 1 .. Len(s)
  BY <1>1, LenProperties
<1>3. \A i : i \in DOMAIN u <=> i \in DOMAIN s \/ i = Len(s) + 1
  BY <1>1, <1>2
<1>4. ToSet(u) = ToSet(s) \cup {x}
  BY <1>1, <1>2, <1>3 DEF ToSet
<1> QED
  BY <1>1, <1>4 DEF u

-----------------------------------------------------------------------------
\* What is picked from a list is in it and of the kind, and nothing else is.
LEMMA AmongType ==
  ASSUME NEW X, NEW s \in Seq(X), NEW S
  PROVE  Among(s, S) \in Seq(X) /\ ToSet(Among(s, S)) = ToSet(s) \cap S
<1> DEFINE n == Len(s)
<1>1. PICK f : Course("pick", S, <<>>, s, n, f) /\ Among(s, S) = f[n]
  BY AmongIsCourse
<1>2. n \in Nat /\ \A i \in 1 .. n : s[i] \in X
  BY ElementOfSeq
<1>3. /\ f[0] = <<>>
      /\ \A i \in 1 .. n : f[i] = IF s[i] \in S THEN Append(f[i - 1], s[i]) ELSE f[i - 1]
  <2>1. f[0] = <<>> /\ \A i \in 1 .. n : f[i] = Step("pick", S, f[i - 1], s[i])
    BY <1>1, <1>2, CourseSteps
  <2> QED
    BY <2>1 DEF Step
<1> DEFINE G == {i \in 0 .. n : /\ f[i] \in Seq(X)
                                /\ ToSet(f[i]) = {s[j] : j \in 1 .. i} \cap S}
<1>4. 0 \in G
  <2>1. DOMAIN <<>> = {} /\ <<>> \in Seq(X)
    OBVIOUS
  <2>2. ToSet(<<>>) = {}
    BY <2>1 DEF ToSet
  <2>3. {s[j] : j \in 1 .. 0} = {} /\ 0 \in 0 .. n
    BY <1>2
  <2> QED
    BY <1>3, <2>1, <2>2, <2>3
<1>5. ASSUME NEW i \in 1 .. n, i - 1 \in G  PROVE i \in G
  <2> DEFINE g == f[i - 1]
  <2>1. g \in Seq(X) /\ ToSet(g) = {s[j] : j \in 1 .. i - 1} \cap S /\ s[i] \in X
    BY <1>2, <1>5
  <2>2. {s[j] : j \in 1 .. i} = {s[j] : j \in 1 .. i - 1} \cup {s[i]}
    <3>1. \A j : j \in 1 .. i <=> j \in 1 .. i - 1 \/ j = i
      BY <1>2
    <3> QED
      BY <3>1
  <2> HIDE DEF g
  <2>3. CASE s[i] \in S
    <3>1. f[i] = Append(g, s[i])
      BY <1>3, <2>3 DEF g
    <3>2. f[i] \in Seq(X) /\ ToSet(f[i]) = ToSet(g) \cup {s[i]}
      BY <2>1, <3>1, AppendIs
    <3> QED
      BY <1>2, <2>1, <2>2, <2>3, <3>2
  <2>4. CASE s[i] \notin S
    <3>1. f[i] = g
      BY <1>3, <2>4 DEF g
    <3> QED
      BY <1>2, <2>1, <2>2, <2>4, <3>1
  <2> QED
    BY <2>3, <2>4
<1>6. n \in G
  <2> HIDE DEF G
  <2>1. \A i \in 0 .. n : i \in G
    BY <1>2, <1>4, <1>5, AlongNumbers
  <2> QED
    BY <1>2, <2>1
<1>7. ToSet(s) = {s[j] : j \in 1 .. n}
  BY DEF ToSet
<1> QED
  BY <1>1, <1>6, <1>7

\* From an empty list nothing is picked.
LEMMA AmongNone ==
  ASSUME NEW S
  PROVE  Among(<<>>, S) = <<>>
<1> DEFINE o == <<>>
           u == Among(o, S)
<1>1. o \in Seq(Nat)
  OBVIOUS
<1>2. ToSet(o) = {}
  <2>1. DOMAIN o = {}
    OBVIOUS
  <2> HIDE DEF o
  <2> QED
    BY <2>1 DEF ToSet
<1> HIDE DEF o
<1>3. u \in Seq(Nat) /\ ToSet(u) = ToSet(o) \cap S
  BY <1>1, AmongType
<1> HIDE DEF u
<1>4. DOMAIN u = 1 .. Len(u) /\ Len(u) \in Nat
  BY <1>3, LenProperties
<1>5. DOMAIN u = {}
  BY <1>2, <1>3 DEF ToSet
<1>6. Len(u) = 0
  BY <1>4, <1>5
<1>7. u = <<>>
  BY <1>3, <1>6, EmptySeq
<1> QED
  BY <1>7 DEF u, o

\* Appending to the second of two lists is appending to both.
AppendsAlike(a, k, x) == Append(a \o k, x) = a \o Append(k, x)
LEMMA AppendBehind ==
  ASSUME NEW X, NEW a \in Seq(X), NEW k \in Seq(X), NEW x \in X
  PROVE  AppendsAlike(a, k, x)
<1> DEFINE e == <<x>>
           b == a \o k
           c == Append(k, x)
<1>1. e \in Seq(X)
  OBVIOUS
<1>2. (a \o k) \o e = a \o (k \o e)
  <2> HIDE DEF e
  <2> QED
    BY <1>1, ConcatAssociative
<1>3. b \in Seq(X)
  BY ConcatProperties
<1>4. c = k \o e
  BY AppendIsConcat
<1>5. Append(b, x) = b \o e
  <2> HIDE DEF b
  <2> QED
    BY <1>3, AppendIsConcat
<1>6. b \o e = a \o (k \o e)
  BY <1>2
<1> HIDE DEF b, c, e
<1>7. Append(b, x) = a \o c
  BY <1>4, <1>5, <1>6
<1> QED
  BY <1>7 DEF AppendsAlike, b, c

\* Picking from two lists one behind the other is picking from each.
LEMMA AmongConcat ==
  ASSUME NEW X, NEW s \in Seq(X), NEW t \in Seq(X), NEW S
  PROVE  Among(s \o t, S) = Among(s, S) \o Among(t, S)
<1> DEFINE m == Len(s)
           n == Len(t)
           u == s \o t
<1>1. /\ m \in Nat /\ n \in Nat /\ u \in Seq(X) /\ Len(u) = m + n
      /\ \A i \in 1 .. m : u[i] = s[i] /\ s[i] \in X
      /\ \A i \in 1 .. n : u[m + i] = t[i] /\ t[i] \in X
  BY ConcatIs
<1> HIDE DEF u
<1>2. PICK f : Course("pick", S, <<>>, u, m + n, f) /\ Among(u, S) = f[m + n]
  BY <1>1, AmongIsCourse
<1>3. PICK g : Course("pick", S, <<>>, s, m, g) /\ Among(s, S) = g[m]
  BY AmongIsCourse
<1>4. PICK h : Course("pick", S, <<>>, t, n, h) /\ Among(t, S) = h[n]
  BY AmongIsCourse
<1>5. /\ f[0] = <<>>
      /\ \A i \in 1 .. m + n : f[i] = IF u[i] \in S THEN Append(f[i - 1], u[i]) ELSE f[i - 1]
  <2>1. m + n \in Nat
    BY <1>1
  <2>2. f[0] = <<>> /\ \A i \in 1 .. m + n : f[i] = Step("pick", S, f[i - 1], u[i])
    BY <1>2, <2>1, CourseSteps
  <2> QED
    BY <2>2 DEF Step
<1>6. /\ g[0] = <<>>
      /\ \A i \in 1 .. m : g[i] = IF s[i] \in S THEN Append(g[i - 1], s[i]) ELSE g[i - 1]
  <2>1. g[0] = <<>> /\ \A i \in 1 .. m : g[i] = Step("pick", S, g[i - 1], s[i])
    BY <1>1, <1>3, CourseSteps
  <2> QED
    BY <2>1 DEF Step
<1>7. /\ h[0] = <<>>
      /\ \A i \in 1 .. n : h[i] = IF t[i] \in S THEN Append(h[i - 1], t[i]) ELSE h[i - 1]
  <2>1. h[0] = <<>> /\ \A i \in 1 .. n : h[i] = Step("pick", S, h[i - 1], t[i])
    BY <1>1, <1>4, CourseSteps
  <2> QED
    BY <2>1 DEF Step
<1>8. f[m] = g[m]
  <2> DEFINE G == {i \in 0 .. m : f[i] = g[i]}
  <2>1. 0 \in G
    BY <1>1, <1>5, <1>6
  <2>2. ASSUME NEW i \in 1 .. m, i - 1 \in G  PROVE i \in G
    <3>1. i \in 1 .. m + n /\ i \in 0 .. m /\ u[i] = s[i] /\ f[i - 1] = g[i - 1]
      BY <1>1, <2>2
    <3> QED
      BY <1>5, <1>6, <3>1
  <2> HIDE DEF G
  <2>3. \A i \in 0 .. m : i \in G
    BY <1>1, <2>1, <2>2, AlongNumbers
  <2> QED
    BY <1>1, <2>3 DEF G
<1>9. g[m] \in Seq(X)
  BY <1>3, AmongType
<1>13. PICK a \in Seq(X) : a = g[m]
  BY <1>9
<1> DEFINE G == {i \in 0 .. n : h[i] \in Seq(X) /\ f[m + i] = a \o h[i]}
<1>10. 0 \in G
  <2>1. a \in Seq(X) /\ f[m] = a /\ m + 0 = m
    BY <1>1, <1>8, <1>13
  <2>2. a \o <<>> = a
    BY <2>1, ConcatEmptySeq
  <2>3. 0 \in 0 .. n /\ <<>> \in Seq(X)
    BY <1>1
  <2>4. h[0] \in Seq(X)
    BY <1>7, <2>3
  <2>5. f[m + 0] = a \o h[0]
    BY <1>7, <2>1, <2>2
  <2> QED
    BY <2>3, <2>4, <2>5
<1>11. ASSUME NEW i \in 1 .. n, i - 1 \in G  PROVE i \in G
  <2>6. PICK k \in Seq(X) : k = h[i - 1]
    BY <1>11
  <2>7. PICK x \in X : x = t[i]
    BY <1>1
  <2>1. f[m + (i - 1)] = a \o k
    BY <1>11, <2>6
  <2>2. m + i \in 1 .. m + n /\ m + i - 1 = m + (i - 1) /\ u[m + i] = x /\ i \in 0 .. n
    BY <1>1, <2>7
  <2>3. f[m + i] = IF x \in S THEN Append(a \o k, x) ELSE a \o k
    <3> DEFINE j == m + i
    <3>1. j \in 1 .. m + n /\ u[j] = x
      BY <2>2
    <3>2. f[j - 1] = a \o k
      BY <2>1, <2>2
    <3> HIDE DEF j
    <3>3. f[j] = IF x \in S THEN Append(a \o k, x) ELSE a \o k
      BY <1>5, <3>1, <3>2
    <3> QED
      BY <3>3 DEF j
  <2>4. h[i] = IF x \in S THEN Append(k, x) ELSE k
    BY <1>7, <2>6, <2>7
  <2>10. PICK b \in Seq(X) : b = a \o k
    BY ConcatProperties
  <2>8. PICK c \in Seq(X) : c = Append(k, x)
    BY AppendProperties
  <2>5. Append(b, x) = a \o c
    <3>1. AppendsAlike(a, k, x)
      BY AppendBehind
    <3> QED
      BY <2>8, <2>10, <3>1 DEF AppendsAlike
  <2>9. f[m + i] = a \o h[i] /\ h[i] \in Seq(X)
    <3>1. CASE x \in S
      <4>1. f[m + i] = Append(b, x) /\ h[i] = c
        BY <2>3, <2>4, <2>8, <2>10, <3>1
      <4> QED
        BY <2>5, <4>1
    <3>2. CASE x \notin S
      BY <2>3, <2>4, <2>6, <3>2
    <3> QED
      BY <3>1, <3>2
  <2> QED
    BY <2>2, <2>9
<1>12. n \in G
  <2> HIDE DEF G
  <2>1. \A i \in 0 .. n : i \in G
    BY <1>1, <1>10, <1>11, AlongNumbers
  <2> QED
    BY <1>1, <2>1
<1> QED
  BY <1>2, <1>3, <1>4, <1>12, <1>13 DEF u

\* Picking from a list with one more.
LEMMA AmongAppend ==
  ASSUME NEW X, NEW s \in Seq(X), NEW x \in X, NEW S
  PROVE  Among(Append(s, x), S) = IF x \in S THEN Append(Among(s, S), x) ELSE Among(s, S)
<1> DEFINE e == <<x>>
           a == Among(s, S)
<1>1. e \in Seq(X) /\ Len(e) = 1 /\ e[1] = x
  OBVIOUS
<1>2. Among(e, S) = IF x \in S THEN <<x>> ELSE <<>>
  <2> HIDE DEF e
  <2>1. PICK f : Course("pick", S, <<>>, e, 1, f) /\ Among(e, S) = f[1]
    BY <1>1, AmongIsCourse
  <2>2. 1 \in Nat /\ 1 \in 1 .. 1
    OBVIOUS
  <2>3. f[0] = <<>> /\ f[1] = Step("pick", S, f[1 - 1], e[1])
    BY <2>1, <2>2, CourseSteps
  <2>4. f[1] = IF x \in S THEN Append(<<>>, x) ELSE <<>>
    <3>1. f[1] = Step("pick", S, <<>>, x)
      BY <1>1, <2>3
    <3> QED
      BY <3>1 DEF Step
  <2>5. Append(<<>>, x) = <<x>>
    OBVIOUS
  <2> QED
    BY <2>1, <2>4, <2>5
<1>3. a \in Seq(X)
  BY AmongType
<1>4. Append(s, x) = s \o e /\ Append(a, x) = a \o <<x>> /\ a \o <<>> = a
  <2> HIDE DEF a
  <2> QED
    BY <1>3, AppendIsConcat, ConcatEmptySeq
<1> HIDE DEF e
<1>5. Among(s \o e, S) = a \o Among(e, S)
  BY <1>1, AmongConcat
<1> HIDE DEF a
<1> QED
  BY <1>2, <1>4, <1>5 DEF a

\* Taking an item out of a list.
LEMMA RemoveAtIs ==
  ASSUME NEW X, NEW s \in Seq(X), NEW k \in 1 .. Len(s)
  PROVE  /\ RemoveAt(s, k) \in Seq(X)
         /\ Len(RemoveAt(s, k)) = Len(s) - 1
         /\ \A i \in 1 .. k - 1 : RemoveAt(s, k)[i] = s[i]
         /\ \A i \in k .. Len(s) - 1 : RemoveAt(s, k)[i] = s[i + 1]
<1> DEFINE a == SubSeq(s, 1, k - 1)
           b == SubSeq(s, k + 1, Len(s))
<1>1. Len(s) \in Nat /\ k \in Int /\ \A i \in 1 .. Len(s) : s[i] \in X
  BY ElementOfSeq
<1>2. a \in Seq(X) /\ Len(a) = k - 1 /\ \A i \in 1 .. k - 1 : a[i] = s[i]
  <2>1. \A i \in 1 .. k - 1 : s[i] \in X
    BY <1>1
  <2>2. /\ a \in Seq(X) /\ Len(a) = IF 1 <= k - 1 THEN k - 1 - 1 + 1 ELSE 0
        /\ \A i \in 1 .. k - 1 - 1 + 1 : a[i] = s[1 + i - 1]
    BY <1>1, <2>1, SubSeqProperties
  <2> HIDE DEF a
  <2> QED
    BY <1>1, <2>2
<1>3. b \in Seq(X) /\ Len(b) = Len(s) - k /\ \A i \in 1 .. Len(s) - k : b[i] = s[k + i]
  <2>1. \A i \in k + 1 .. Len(s) : s[i] \in X
    BY <1>1
  <2>2. /\ b \in Seq(X) /\ Len(b) = IF k + 1 <= Len(s) THEN Len(s) - (k + 1) + 1 ELSE 0
        /\ \A i \in 1 .. Len(s) - (k + 1) + 1 : b[i] = s[k + 1 + i - 1]
    BY <1>1, <2>1, SubSeqProperties
  <2> HIDE DEF b
  <2>3. \A i \in 1 .. Len(s) - k : i \in 1 .. Len(s) - (k + 1) + 1 /\ k + 1 + i - 1 = k + i
    BY <1>1
  <2> QED
    BY <1>1, <2>2, <2>3
<1> HIDE DEF a, b
<1> DEFINE u == a \o b
<1>4. /\ u \in Seq(X) /\ Len(u) = Len(a) + Len(b)
      /\ \A i \in 1 .. Len(a) : u[i] = a[i]
      /\ \A i \in 1 .. Len(b) : u[Len(a) + i] = b[i]
  <2>1. a \in Seq(X) /\ b \in Seq(X)
    BY <1>2, <1>3
  <2> QED
    BY <2>1, ConcatIs
<1> HIDE DEF u
<1>5. Len(u) = Len(s) - 1 /\ \A i \in 1 .. k - 1 : u[i] = s[i]
  BY <1>1, <1>2, <1>3, <1>4
<1>6. ASSUME NEW i \in k .. Len(s) - 1  PROVE u[i] = s[i + 1]
  <2> DEFINE j == i - (k - 1)
  <2>1. j \in 1 .. Len(s) - k /\ k - 1 + j = i /\ k + j = i + 1
    BY <1>1
  <2> HIDE DEF j
  <2>2. u[i] = b[j] /\ b[j] = s[i + 1]
    BY <1>2, <1>3, <1>4, <2>1
  <2> QED
    BY <2>2
<1>7. RemoveAt(s, k) = u
  BY DEF RemoveAt, u, a, b
<1> QED
  BY <1>4, <1>5, <1>6, <1>7

\* The first of an item's places in a list is where it is taken out; a list without
\* the item is left alone.
LEMMA RemoveFirstIs ==
  ASSUME NEW X, NEW s \in Seq(X), NEW x
  PROVE  /\ x \notin ToSet(s) => RemoveFirst(s, x) = s
         /\ \A k \in 1 .. Len(s) :
              s[k] = x /\ (\A j \in 1 .. k - 1 : s[j] # x) => RemoveFirst(s, x) = RemoveAt(s, k)
<1> DEFINE I == {i \in 1 .. Len(s) : s[i] = x}
<1>1. Len(s) \in Nat /\ DOMAIN s = 1 .. Len(s)
  BY LenProperties
<1>2. x \notin ToSet(s) => RemoveFirst(s, x) = s
  BY <1>1 DEF ToSet, RemoveFirst
<1>3. ASSUME NEW k \in 1 .. Len(s), s[k] = x, \A j \in 1 .. k - 1 : s[j] # x
      PROVE  RemoveFirst(s, x) = RemoveAt(s, k)
  <2>1. k \in I /\ I \in SUBSET Int
    BY <1>1, <1>3
  <2>2. ASSUME NEW i \in I  PROVE k <= i
    <3>1. i \in 1 .. Len(s) /\ s[i] = x
      BY <2>2
    <3>2. i \notin 1 .. k - 1
      BY <1>3, <3>1
    <3> QED
      BY <3>1, <3>2
  <2>3. SelectInSeq(s, LAMBDA v : v = x) = Min(I)
    <3>1. I # {}
      BY <2>1
    <3> QED
      BY <3>1 DEF SelectInSeq
  <2> HIDE DEF I
  <2>4. Min(I) = k
    <3>1. \A i \in I : (\A j \in I : i <= j) => i = k
      BY <2>1, <2>2
    <3> QED
      BY <2>1, <2>2, <3>1 DEF Min
  <2>5. \E i \in 1 .. Len(s) : s[i] = x
    BY <1>3
  <2> QED
    BY <2>3, <2>4, <2>5 DEF RemoveFirst
<1> QED
  BY <1>2, <1>3

\* Every item of a list has a first place.
LEMMA FirstPlace ==
  ASSUME NEW X, NEW s \in Seq(X), NEW x \in ToSet(s)
  PROVE  \E k \in 1 .. Len(s) : s[k] = x /\ \A j \in 1 .. k - 1 : s[j] # x
<1> DEFINE I == {i \in 1 .. Len(s) : s[i] = x}
<1>1. Len(s) \in Nat /\ DOMAIN s = 1 .. Len(s)
  BY LenProperties
<1>2. I # {} /\ I \in SUBSET Nat
  BY <1>1 DEF ToSet
<1>3. PICK k \in I : \A j \in I : k <= j
  <2> HIDE DEF I
  <2> QED
    BY <1>2, LeastExists
<1>4. ASSUME NEW j \in 1 .. k - 1  PROVE s[j] # x
  <2>1. j \in 1 .. Len(s) /\ ~(k <= j)
    BY <1>1
  <2> QED
    BY <1>3, <2>1
<1> QED
  BY <1>4

\* Whatever is taken out of a list, it stays one.
LEMMA RemoveFirstType ==
  ASSUME NEW X, NEW s \in Seq(X), NEW x
  PROVE  RemoveFirst(s, x) \in Seq(X)
<1>1. CASE x \notin ToSet(s)
  BY <1>1, RemoveFirstIs
<1>2. CASE x \in ToSet(s)
  <2>1. PICK k \in 1 .. Len(s) : s[k] = x /\ \A j \in 1 .. k - 1 : s[j] # x
    BY <1>2, FirstPlace
  <2>2. RemoveFirst(s, x) = RemoveAt(s, k)
    BY <2>1, RemoveFirstIs
  <2> QED
    BY <2>2, RemoveAtIs
<1> QED
  BY <1>1, <1>2

\* A list without repetitions loses an item altogether.
LEMMA RemoveFirstInjective ==
  ASSUME NEW X, NEW s \in Seq(X), IsInjective(s), NEW x
  PROVE  /\ IsInjective(RemoveFirst(s, x))
         /\ ToSet(RemoveFirst(s, x)) = ToSet(s) \ {x}
<1> DEFINE n == Len(s)
           u == RemoveFirst(s, x)
<1>1. n \in Nat /\ DOMAIN s = 1 .. n /\ \A i, j \in 1 .. n : s[i] = s[j] => i = j
  BY LenProperties DEF IsInjective
<1>2. CASE x \notin ToSet(s)
  <2>1. u = s
    BY <1>2, RemoveFirstIs
  <2> QED
    BY <1>2, <2>1
<1>3. CASE x \in ToSet(s)
  <2>1. PICK k \in 1 .. n : s[k] = x /\ \A j \in 1 .. k - 1 : s[j] # x
    BY <1>3, FirstPlace
  <2>2. u = RemoveAt(s, k)
    BY <2>1, RemoveFirstIs
  <2>3. /\ u \in Seq(X) /\ Len(u) = n - 1
        /\ \A i \in 1 .. k - 1 : u[i] = s[i]
        /\ \A i \in k .. n - 1 : u[i] = s[i + 1]
    <3>1. k \in 1 .. Len(s)
      OBVIOUS
    <3>2. /\ RemoveAt(s, k) \in Seq(X)
          /\ Len(RemoveAt(s, k)) = Len(s) - 1
          /\ \A i \in 1 .. k - 1 : RemoveAt(s, k)[i] = s[i]
          /\ \A i \in k .. Len(s) - 1 : RemoveAt(s, k)[i] = s[i + 1]
      BY <3>1, RemoveAtIs
    <3> HIDE DEF u
    <3> QED
      BY <2>2, <3>2
  <2> HIDE DEF u
  <2>4. DOMAIN u = 1 .. n - 1
    BY <2>3, LenProperties
  <2> DEFINE at(i) == IF i < k THEN i ELSE i + 1
  <2>5. \A i \in 1 .. n - 1 : at(i) \in 1 .. n /\ at(i) # k /\ u[i] = s[at(i)]
    BY <1>1, <2>1, <2>3
  <2>6. \A i, j \in 1 .. n - 1 : at(i) = at(j) => i = j
    BY <1>1, <2>1
  <2>7. \A i \in 1 .. n : i # k => \E j \in 1 .. n - 1 : at(j) = i
    <3> SUFFICES ASSUME NEW i \in 1 .. n, i # k
                 PROVE  \E j \in 1 .. n - 1 : at(j) = i
      OBVIOUS
    <3>1. CASE i < k
      <4>1. i \in 1 .. n - 1 /\ at(i) = i
        BY <1>1, <2>1, <3>1
      <4> QED
        BY <4>1
    <3>2. CASE i > k
      <4>1. i - 1 \in 1 .. n - 1 /\ at(i - 1) = i
        BY <1>1, <2>1, <3>2
      <4> QED
        BY <4>1
    <3> QED
      BY <1>1, <2>1, <3>1, <3>2
  <2> HIDE DEF at
  <2>8. IsInjective(u)
    BY <1>1, <2>4, <2>5, <2>6 DEF IsInjective
  <2>9. ASSUME NEW y  PROVE y \in ToSet(u) <=> y \in ToSet(s) \ {x}
    <3>1. ASSUME y \in ToSet(u)  PROVE y \in ToSet(s) \ {x}
      <4>1. PICK i \in 1 .. n - 1 : y = u[i]
        BY <2>4, <3>1 DEF ToSet
      <4>2. y = s[at(i)] /\ at(i) \in 1 .. n /\ at(i) # k
        BY <2>5, <4>1
      <4> QED
        BY <1>1, <2>1, <4>2 DEF ToSet
    <3>2. ASSUME y \in ToSet(s) \ {x}  PROVE y \in ToSet(u)
      <4>1. PICK i \in 1 .. n : y = s[i]
        BY <1>1, <3>2 DEF ToSet
      <4>2. i # k
        BY <2>1, <3>2, <4>1
      <4>3. PICK j \in 1 .. n - 1 : at(j) = i
        BY <2>7, <4>2
      <4> QED
        BY <2>4, <2>5, <4>1, <4>3 DEF ToSet
    <3> QED
      BY <3>1, <3>2
  <2>10. ToSet(u) = ToSet(s) \ {x}
    BY <2>9
  <2> QED
    BY <2>8, <2>10 DEF u
<1> QED
  BY <1>2, <1>3

\* Taking out an item between two lists, neither of which has it.
LEMMA RemoveBetween ==
  ASSUME NEW X, NEW a \in Seq(X), NEW b \in Seq(X), NEW x \in X, x \notin ToSet(a)
  PROVE  RemoveFirst(a \o (<<x>> \o b), x) = a \o b
<1> DEFINE e == <<x>>
           m == Len(a)
           n == Len(b)
           c == e \o b
           u == a \o c
           v == RemoveAt(u, m + 1)
           z == a \o b
<1>1. e \in Seq(X) /\ Len(e) = 1 /\ e[1] = x
  OBVIOUS
<1> HIDE DEF e
<1>2. /\ c \in Seq(X) /\ Len(c) = 1 + n /\ n \in Nat
      /\ c[1] = x
      /\ \A i \in 1 .. n : c[1 + i] = b[i]
  <2>1. /\ Len(c) = Len(e) + n /\ n \in Nat /\ c \in Seq(X)
        /\ \A i \in 1 .. Len(e) : c[i] = e[i]
        /\ \A i \in 1 .. n : c[Len(e) + i] = b[i]
    <3>1. e \in Seq(X)
      BY <1>1
    <3> QED
      BY <3>1, ConcatIs
  <2>2. 1 \in 1 .. Len(e)
    BY <1>1
  <2> HIDE DEF c, n
  <2> QED
    BY <1>1, <2>1, <2>2
<1> HIDE DEF c
<1>3. /\ u \in Seq(X) /\ Len(u) = m + Len(c) /\ m \in Nat
      /\ \A i \in 1 .. m : u[i] = a[i]
      /\ \A i \in 1 .. Len(c) : u[m + i] = c[i]
  <2>1. c \in Seq(X)
    BY <1>2
  <2> QED
    BY <2>1, ConcatIs
<1>4. /\ z \in Seq(X) /\ Len(z) = m + n
      /\ \A i \in 1 .. m : z[i] = a[i]
      /\ \A i \in 1 .. n : z[m + i] = b[i]
  BY ConcatIs
<1> HIDE DEF u, z
<1>5. u[m + 1] = x /\ m + 1 \in 1 .. Len(u) /\ Len(u) = m + n + 1
  <2>1. 1 \in 1 .. Len(c)
    BY <1>2
  <2>2. m + 1 \in 1 .. m + (1 + n) /\ m + (1 + n) = m + n + 1
    BY <1>2, <1>3
  <2> QED
    BY <1>2, <1>3, <2>1, <2>2
<1>6. \A j \in 1 .. m + 1 - 1 : u[j] # x
  <2>1. DOMAIN a = 1 .. m
    BY LenProperties
  <2>2. \A j \in 1 .. m : a[j] # x
    BY <2>1 DEF ToSet
  <2>3. m + 1 - 1 = m
    BY <1>3
  <2> QED
    BY <1>3, <2>2, <2>3
<1>7. RemoveFirst(u, x) = v
  <2> DEFINE k == m + 1
  <2>1. u \in Seq(X) /\ k \in 1 .. Len(u) /\ u[k] = x /\ \A j \in 1 .. k - 1 : u[j] # x
    BY <1>3, <1>5, <1>6
  <2> HIDE DEF k
  <2>2. RemoveFirst(u, x) = RemoveAt(u, k)
    BY <2>1, RemoveFirstIs
  <2> QED
    BY <2>2 DEF k
<1>8. /\ v \in Seq(X) /\ Len(v) = Len(u) - 1
      /\ \A i \in 1 .. m + 1 - 1 : v[i] = u[i]
      /\ \A i \in m + 1 .. Len(u) - 1 : v[i] = u[i + 1]
  <2> DEFINE k == m + 1
  <2>1. u \in Seq(X) /\ k \in 1 .. Len(u)
    BY <1>3, <1>5
  <2> HIDE DEF k
  <2>2. /\ RemoveAt(u, k) \in Seq(X) /\ Len(RemoveAt(u, k)) = Len(u) - 1
        /\ \A i \in 1 .. k - 1 : RemoveAt(u, k)[i] = u[i]
        /\ \A i \in k .. Len(u) - 1 : RemoveAt(u, k)[i] = u[i + 1]
    BY <2>1, RemoveAtIs
  <2> QED
    BY <2>2 DEF k
<1> HIDE DEF v
<1>9. Len(v) = m + n
  BY <1>2, <1>3, <1>5, <1>8
<1>10. ASSUME NEW i \in 1 .. m + n  PROVE v[i] = z[i]
  <2>1. CASE i <= m
    <3>1. i \in 1 .. m /\ i \in 1 .. m + 1 - 1
      BY <1>2, <1>3, <2>1
    <3> QED
      BY <1>3, <1>4, <1>8, <3>1
  <2>2. CASE i > m
    <3> DEFINE j == i - m
    <3>1. j \in 1 .. n /\ i = m + j /\ i \in m + 1 .. Len(u) - 1
      BY <1>2, <1>3, <1>5, <2>2
    <3>2. 1 + j \in 1 .. Len(c) /\ i + 1 = m + (1 + j)
      BY <1>2, <1>3, <3>1
    <3> HIDE DEF j
    <3>3. v[i] = u[i + 1] /\ u[i + 1] = c[1 + j] /\ c[1 + j] = b[j] /\ z[i] = b[j]
      BY <1>2, <1>3, <1>4, <1>8, <3>1, <3>2
    <3> QED
      BY <3>3
  <2> QED
    BY <1>2, <1>3, <2>1, <2>2
<1>11. v = z
  BY <1>4, <1>8, <1>9, <1>10, SeqEqual
<1> QED
  BY <1>7, <1>11 DEF u, c, e, z

\* A list around one of its places.
LEMMA AroundPlace ==
  ASSUME NEW X, NEW s \in Seq(X), NEW k \in 1 .. Len(s)
  PROVE  LET a == SubSeq(s, 1, k - 1)
             b == SubSeq(s, k + 1, Len(s))
         IN  /\ a \in Seq(X) /\ b \in Seq(X) /\ s[k] \in X
             /\ s = a \o (<<s[k]>> \o b)
             /\ \A x \in ToSet(a) : \E j \in 1 .. k - 1 : x = s[j]
<1> DEFINE n == Len(s)
           a == SubSeq(s, 1, k - 1)
           b == SubSeq(s, k + 1, n)
<1>1. n \in Nat /\ k \in Int /\ \A i \in 1 .. n : s[i] \in X
  BY ElementOfSeq
<1>2. a \in Seq(X) /\ Len(a) = k - 1 /\ \A i \in 1 .. k - 1 : a[i] = s[i]
  <2>1. \A i \in 1 .. k - 1 : s[i] \in X
    BY <1>1
  <2>2. /\ a \in Seq(X) /\ Len(a) = IF 1 <= k - 1 THEN k - 1 - 1 + 1 ELSE 0
        /\ \A i \in 1 .. k - 1 - 1 + 1 : a[i] = s[1 + i - 1]
    BY <1>1, <2>1, SubSeqProperties
  <2> HIDE DEF a
  <2> QED
    BY <1>1, <2>2
<1>3. b \in Seq(X)
  <2>1. \A i \in k + 1 .. n : s[i] \in X
    BY <1>1
  <2> QED
    BY <1>1, <2>1, SubSeqProperties
<1>4. SubSeq(s, k, n) = <<s[k]>> \o b
  <2>1. n \in k .. n
    BY <1>1
  <2> QED
    BY <2>1, SubSeqRecursiveFirst
<1>5. a \o SubSeq(s, k, n) = s
  <2>1. 1 \in 1 .. n + 1 /\ k - 1 \in 1 - 1 .. n /\ n \in k - 1 .. n /\ k - 1 + 1 = k
    BY <1>1
  <2>2. SubSeq(s, 1, k - 1) \o SubSeq(s, k - 1 + 1, n) = SubSeq(s, 1, n)
    BY <2>1, ConcatAdjacentSubSeq
  <2>3. SubSeq(s, 1, n) = s
    BY SubSeqFull
  <2> QED
    BY <2>1, <2>2, <2>3
<1> HIDE DEF a, b
<1>6. \A x \in ToSet(a) : \E j \in 1 .. k - 1 : x = s[j]
  <2>1. DOMAIN a = 1 .. k - 1
    BY <1>2, LenProperties
  <2> QED
    BY <1>2, <2>1 DEF ToSet
<1>7. /\ a \in Seq(X) /\ b \in Seq(X) /\ s[k] \in X
      /\ s = a \o (<<s[k]>> \o b)
      /\ \A x \in ToSet(a) : \E j \in 1 .. k - 1 : x = s[j]
  BY <1>1, <1>2, <1>3, <1>4, <1>5, <1>6
<1> QED
  BY <1>7 DEF a, b

\* Picking from a list without an item is taking the item out of what was picked.
LEMMA AmongRemoved ==
  ASSUME NEW X, NEW s \in Seq(X), NEW S, NEW x \in ToSet(s)
  PROVE  Among(RemoveFirst(s, x), S) = IF x \in S THEN RemoveFirst(Among(s, S), x) ELSE Among(s, S)
<1>1. PICK k \in 1 .. Len(s) : s[k] = x /\ \A j \in 1 .. k - 1 : s[j] # x
  BY FirstPlace
<1> DEFINE a == SubSeq(s, 1, k - 1)
           b == SubSeq(s, k + 1, Len(s))
           e == <<x>>
           A == Among(a, S)
           B == Among(b, S)
<1>2. /\ a \in Seq(X) /\ b \in Seq(X) /\ x \in X
      /\ s = a \o (e \o b)
      /\ \A y \in ToSet(a) : \E j \in 1 .. k - 1 : y = s[j]
  BY <1>1, AroundPlace
<1>3. RemoveFirst(s, x) = a \o b
  <2>1. RemoveFirst(s, x) = RemoveAt(s, k)
    BY <1>1, RemoveFirstIs
  <2> QED
    BY <2>1 DEF RemoveAt
<1> HIDE DEF a, b
<1>4. x \notin ToSet(a)
  BY <1>1, <1>2
<1>5. e \in Seq(X) /\ e = Append(<<>>, x) /\ <<>> \in Seq(X)
  BY <1>2
<1>6. Among(<<>>, S) = <<>>
  BY AmongNone
<1>7. Among(e, S) = IF x \in S THEN e ELSE <<>>
  <2>0. PICK z \in Seq(X) : z = <<>>
    BY <1>5
  <2>1. Among(Append(z, x), S) = IF x \in S THEN Append(Among(z, S), x) ELSE Among(z, S)
    BY <1>2, AmongAppend
  <2> QED
    BY <1>5, <1>6, <2>0, <2>1
<1> HIDE DEF e
<1>8. A \in Seq(X) /\ B \in Seq(X) /\ x \notin ToSet(A)
  BY <1>2, <1>4, AmongType
<1>9. Among(a \o b, S) = A \o B
  BY <1>2, AmongConcat
<1>10. Among(s, S) = A \o (Among(e, S) \o B)
  <2> DEFINE c == e \o b
  <2>0. a \in Seq(X) /\ b \in Seq(X) /\ e \in Seq(X)
    BY <1>2, <1>5
  <2>1. c \in Seq(X)
    BY <2>0, ConcatProperties
  <2>2. Among(c, S) = Among(e, S) \o B
    <3>1. \A p, t \in Seq(X) : Among(p \o t, S) = Among(p, S) \o Among(t, S)
      BY AmongConcat
    <3> QED
      BY <2>0, <3>1 DEF B
  <2>3. PICK q \in Seq(X) : q = c
    BY <2>1
  <2>4. PICK z \in Seq(X) : z = a
    BY <2>0
  <2>5. Among(z \o q, S) = Among(z, S) \o Among(q, S)
    BY AmongConcat
  <2> QED
    BY <1>2, <2>2, <2>3, <2>4, <2>5
<1> HIDE DEF A, B
<1>11. CASE x \in S
  <2>1. Among(s, S) = A \o (<<x>> \o B)
    BY <1>7, <1>10, <1>11 DEF e
  <2>2. RemoveFirst(A \o (<<x>> \o B), x) = A \o B
    BY <1>2, <1>8, RemoveBetween
  <2> QED
    BY <1>3, <1>9, <1>11, <2>1, <2>2
<1>12. CASE x \notin S
  <2>1. <<>> \o B = B
    BY <1>8, ConcatEmptySeq
  <2>2. Among(s, S) = A \o B
    BY <1>7, <1>10, <1>12, <2>1
  <2> QED
    BY <1>3, <1>9, <1>12, <2>2
<1> QED
  BY <1>11, <1>12

-----------------------------------------------------------------------------
\* The data, what the observers know, the copy held, and a batch at work.
Ids == LocalIds \cup {NoId}
Stored == [type : ContactTypes, relationships : Seq(Relationships)]
Datas ==
  [refCount : Int, sharedEngines : SUBSET Engines, contactIds : Seq(LocalIds),
   contacts : Seq(Stored), relationships : Seq(Relationships),
   ordered : [LocalIds -> Seq(Relationships)], selfContactId : Ids,
   nextContactId : Nat \ {0}]
ViewsOfOne == [contacts : [LocalIds -> Stored \cup {Absent}], selfContactId : Ids]
ChangeSets == [touched : SUBSET LocalIds, removed : SUBSET LocalIds, self : Ids \X Ids]
Copies == [id : LocalIds, contact : Stored] \cup {Nothing}
Works ==
  [data : Datas, views : [Engines -> ViewsOfOne], cs : ChangeSets, held : Copies,
   undefined : BOOLEAN]

\* The lists of ids and contacts match, and the engines are counted.
Matched(data) ==
  /\ Len(data.contacts) = Len(data.contactIds) /\ IsInjective(data.contactIds)
  /\ data.refCount = Cardinality(data.sharedEngines) /\ data.sharedEngines # {}
  /\ \A id \in ToSet(data.contactIds) : id <= data.nextContactId

\* What is stored of an id.
LEMMA ContactIs ==
  ASSUME NEW data \in Datas, Matched(data)
  PROVE  /\ \A k \in 1 .. Len(data.contactIds) :
              /\ data.contactIds[k] \in LocalIds /\ data.contacts[k] \in Stored
              /\ IndexOf(data, data.contactIds[k]) = k
              /\ Contact(data, data.contactIds[k]) = data.contacts[k]
         /\ \A id : id \notin ToSet(data.contactIds) =>
              IndexOf(data, id) = -1 /\ Contact(data, id) = Absent
         /\ \A id : id \in ToSet(data.contactIds) =>
              /\ IndexOf(data, id) \in 1 .. Len(data.contactIds)
              /\ data.contactIds[IndexOf(data, id)] = id
              /\ Contact(data, id) = data.contacts[IndexOf(data, id)]
              /\ Contact(data, id) \in Stored /\ id \in LocalIds
<1> DEFINE ids == data.contactIds
           n == Len(ids)
<1>1. /\ ids \in Seq(LocalIds) /\ data.contacts \in Seq(Stored)
      /\ Len(data.contacts) = n
      /\ IsInjective(ids)
  BY DEF Datas, Matched
<1>2. /\ n \in Nat /\ DOMAIN ids = 1 .. n
      /\ \A i, j \in 1 .. n : ids[i] = ids[j] => i = j
      /\ \A i \in 1 .. n : ids[i] \in LocalIds /\ data.contacts[i] \in Stored
  <2>1. n \in Nat /\ DOMAIN ids = 1 .. n /\ \A i \in 1 .. n : ids[i] \in LocalIds
    BY <1>1, LenProperties, ElementOfSeq
  <2>2. \A i \in 1 .. n : data.contacts[i] \in Stored
    BY <1>1, ElementOfSeq
  <2> QED
    BY <1>1, <2>1, <2>2 DEF IsInjective
<1>3. ASSUME NEW id, id \notin ToSet(ids)
      PROVE  IndexOf(data, id) = -1 /\ Contact(data, id) = Absent
  BY <1>3 DEF IndexOf, Contact, ToSet
<1>4. ASSUME NEW k \in 1 .. n  PROVE IndexOf(data, ids[k]) = k
  <2>1. k \in DOMAIN ids /\ \A i \in DOMAIN ids : ids[i] = ids[k] => i = k
    BY <1>2
  <2>2. (CHOOSE i \in DOMAIN ids : ids[i] = ids[k]) = k
    BY <2>1
  <2> QED
    BY <2>1, <2>2 DEF IndexOf
<1>5. ASSUME NEW k \in 1 .. n  PROVE Contact(data, ids[k]) = data.contacts[k]
  <2>1. k # -1
    BY <1>2
  <2> QED
    BY <1>4, <2>1 DEF Contact
<1>6. \A id : id \in ToSet(ids) => \E k \in 1 .. n : id = ids[k]
  BY <1>2 DEF ToSet
<1> HIDE DEF n, ids
<1>7. \A id : id \in ToSet(ids) =>
              /\ IndexOf(data, id) \in 1 .. n
              /\ ids[IndexOf(data, id)] = id
              /\ Contact(data, id) = data.contacts[IndexOf(data, id)]
              /\ Contact(data, id) \in Stored /\ id \in LocalIds
  BY <1>2, <1>4, <1>5, <1>6
<1> QED
  BY <1>2, <1>3, <1>4, <1>5, <1>7 DEF n, ids

\* The data after steps that change the contacts of ids in T at most.
Adjusted(data, after, T) ==
  /\ after.refCount = data.refCount /\ after.sharedEngines = data.sharedEngines
  /\ after.contactIds = data.contactIds
  /\ after.selfContactId = data.selfContactId
  /\ after.nextContactId = data.nextContactId
  /\ Len(after.contacts) = Len(data.contacts)
  /\ \A k \in 1 .. Len(data.contactIds) :
       data.contactIds[k] \notin T => after.contacts[k] = data.contacts[k]

\* Contacts of other ids are as they were, and none appears or goes.
LEMMA AdjustedContacts ==
  ASSUME NEW data \in Datas, Matched(data), NEW after \in Datas, NEW T,
         Adjusted(data, after, T)
  PROVE  /\ Matched(after)
         /\ \A id : id \notin T => Contact(after, id) = Contact(data, id)
         /\ \A id : Contact(data, id) = Absent => Contact(after, id) = Absent
<1>1. Matched(after)
  BY DEF Matched, Adjusted
<1>2. after.contactIds = data.contactIds
  BY DEF Adjusted
<1>3. ASSUME NEW id, id \notin ToSet(data.contactIds)
      PROVE  Contact(after, id) = Absent /\ Contact(data, id) = Absent
  BY <1>1, <1>2, <1>3, ContactIs
<1>4. ASSUME NEW id, id \in ToSet(data.contactIds)
      PROVE  /\ id \notin T => Contact(after, id) = Contact(data, id)
             /\ Contact(data, id) # Absent
  <2>1. PICK k \in 1 .. Len(data.contactIds) : data.contactIds[k] = id
    BY <1>4, ContactIs
  <2>2. Contact(data, id) = data.contacts[k] /\ data.contacts[k] \in Stored
    BY <2>1, ContactIs
  <2>3. Contact(after, id) = after.contacts[k]
    BY <1>1, <1>2, <2>1, ContactIs
  <2>4. Absent \notin Stored
    BY TypesAssumption DEF Absent, Stored
  <2> QED
    BY <2>1, <2>2, <2>3, <2>4 DEF Adjusted
<1> QED
  BY <1>1, <1>3, <1>4

-----------------------------------------------------------------------------
\* Work that changes relationships only: the contacts it touches may carry other
\* ones, and the rest is left alone.
Relinked(w, v) ==
  /\ v.views = w.views /\ v.held = w.held
  /\ v.cs.removed = w.cs.removed /\ v.cs.self = w.cs.self
  /\ w.cs.touched \subseteq v.cs.touched
  /\ Adjusted(w.data, v.data, v.cs.touched)

\* Working on is the same.
LEMMA RelinkedFurther ==
  ASSUME NEW w, NEW v, NEW u, Relinked(w, v), Relinked(v, u)
  PROVE  Relinked(w, u)
<1> DEFINE n == Len(w.data.contactIds)
<1>1. \A k \in 1 .. n : w.data.contactIds[k] \notin u.cs.touched =>
        u.data.contacts[k] = w.data.contacts[k]
  BY DEF Relinked, Adjusted
<1> QED
  BY <1>1 DEF Relinked, Adjusted

\* Contacts with other relationships are contacts.
LEMMA ContactsWith ==
  ASSUME NEW s \in Seq(Stored), NEW c, DOMAIN c = DOMAIN s,
         \A k \in DOMAIN s : c[k] \in Stored,
         c = [k \in DOMAIN c |-> c[k]]
  PROVE  c \in Seq(Stored) /\ Len(c) = Len(s)
<1>1. Len(s) \in Nat /\ DOMAIN s = 1 .. Len(s)
  BY LenProperties
<1>2. c \in [1 .. Len(s) -> Stored]
  BY <1>1
<1>3. c \in Seq(Stored)
  BY <1>1, <1>2, SeqDef
<1>4. Len(c) \in Nat /\ DOMAIN c = 1 .. Len(c)
  BY <1>3, LenProperties
<1> QED
  BY <1>1, <1>3, <1>4

\* removeRelationship() in particular.
LEMMA RemoveRelationshipRelinks ==
  ASSUME NEW w \in Works, Matched(w.data), NEW r \in Relationships
  PROVE  RemoveRelationship(w, r) \in Works /\ Relinked(w, RemoveRelationship(w, r))
<1> DEFINE data == w.data
           v == RemoveRelationship(w, r)
           i == IndexOf(data, r.first.id)
           j == IF r.second.uri = Own THEN IndexOf(data, r.second.id) ELSE -1
           o == [data.ordered EXCEPT ![r.first.id] = RemoveFirst(@, r),
                                     ![r.second.id] = RemoveFirst(@, r)]
           c == [k \in DOMAIN data.contacts |->
                  IF k = j THEN [data.contacts[k] EXCEPT !.relationships = o[r.second.id]]
                  ELSE IF k = i THEN [data.contacts[k] EXCEPT !.relationships = o[r.first.id]]
                  ELSE data.contacts[k]]
<1>1. CASE r \notin ToSet(data.relationships)
  <2>1. v = w
    BY <1>1 DEF RemoveRelationship
  <2> QED
    BY <2>1 DEF Relinked, Adjusted
<1>2. CASE r \in ToSet(data.relationships)
  <2>1. /\ data \in Datas /\ w.cs \in ChangeSets
        /\ r.first.id \in LocalIds /\ r.second.id \in LocalIds
    BY DEF Works, Relationships
  <2>2. o \in [LocalIds -> Seq(Relationships)]
    <3> DEFINE a == RemoveFirst(data.ordered[r.first.id], r)
               p == [data.ordered EXCEPT ![r.first.id] = a]
               b == RemoveFirst(p[r.second.id], r)
    <3>1. data.ordered \in [LocalIds -> Seq(Relationships)]
      BY <2>1 DEF Datas
    <3>2. a \in Seq(Relationships)
      <4>1. data.ordered[r.first.id] \in Seq(Relationships)
        BY <2>1, <3>1
      <4> QED
        BY <4>1, RemoveFirstType
    <3> HIDE DEF a
    <3>3. p \in [LocalIds -> Seq(Relationships)]
      BY <2>1, <3>1, <3>2
    <3> HIDE DEF p
    <3>4. b \in Seq(Relationships)
      <4>1. p[r.second.id] \in Seq(Relationships)
        BY <2>1, <3>3
      <4> QED
        BY <4>1, RemoveFirstType
    <3>5. o = [p EXCEPT ![r.second.id] = b]
      BY DEF p, a
    <3> HIDE DEF b
    <3> QED
      BY <2>1, <3>3, <3>4, <3>5
  <2>3. RemoveFirst(data.relationships, r) \in Seq(Relationships)
    BY <2>1, RemoveFirstType DEF Datas
  <2> DEFINE q == RemoveFirst(data.relationships, r)
  <2>4. v = [w EXCEPT !.data.relationships = q, !.data.ordered = o, !.data.contacts = c,
                      !.cs = Touched(@, {r.first.id, r.second.id})]
    BY <1>2 DEF RemoveRelationship
  <2> HIDE DEF q, o, v
  <2>5. data.contacts \in Seq(Stored) /\ DOMAIN data.contacts = 1 .. Len(data.contactIds)
    <3>1. data.contacts \in Seq(Stored)
      BY <2>1 DEF Datas
    <3> QED
      BY <3>1, LenProperties DEF Matched
  <2>6. \A k \in DOMAIN data.contacts : data.contacts[k] \in Stored
    BY <2>1, <2>5, ContactIs
  <2>7. \A k \in DOMAIN data.contacts : c[k] \in Stored
    <3>1. o[r.first.id] \in Seq(Relationships) /\ o[r.second.id] \in Seq(Relationships)
      BY <2>1, <2>2
    <3> QED
      BY <2>6, <3>1 DEF Stored
  <2>8. \A k \in DOMAIN data.contacts :
          data.contactIds[k] \notin {r.first.id, r.second.id} => c[k] = data.contacts[k]
    <3>1. \A k \in 1 .. Len(data.contactIds) :
            data.contactIds[k] \notin {r.first.id, r.second.id} => k # i /\ k # j
      <4>0. \A id : IndexOf(data, id) = -1
                    \/ data.contactIds[IndexOf(data, id)] = id
        BY <2>1, ContactIs
      <4>1. \A k \in 1 .. Len(data.contactIds) : k # -1
        OBVIOUS
      <4> QED
        BY <4>0, <4>1
    <3> HIDE DEF i, j
    <3> QED
      BY <2>5, <3>1
  <2>9. c \in Seq(Stored) /\ Len(c) = Len(data.contacts)
    <3>1. DOMAIN c = DOMAIN data.contacts /\ c = [k \in DOMAIN c |-> c[k]]
      OBVIOUS
    <3> HIDE DEF c
    <3> QED
      BY <2>5, <2>7, <3>1, ContactsWith
  <2> HIDE DEF c
  <2>10. v \in Works
    BY <2>1, <2>2, <2>3, <2>4, <2>9 DEF q, Works, Datas, ChangeSets, Touched
  <2>11. Relinked(w, v)
    BY <2>1, <2>4, <2>5, <2>8, <2>9 DEF Works, Datas, ChangeSets, Touched, Relinked, Adjusted
  <2> QED
    BY <2>10, <2>11 DEF v
<1> QED
  BY <1>1, <1>2

-----------------------------------------------------------------------------
\* The relationship that is stored, if any.
Named(r) == [r EXCEPT !.second.uri = IF @ = "" THEN Own ELSE @]

\* It is between ids, the first of which is here; the second too if it is local.
LEMMA AcceptedIs ==
  ASSUME NEW data \in Datas, Matched(data), NEW r \in Relationships
  PROVE  /\ Named(r) \in Relationships
         /\ Named(r).first = r.first /\ Named(r).second.id = r.second.id
         /\ Accepted(data, r) = <<>>
            \/ /\ Accepted(data, r) = <<Named(r)>> /\ Accepted(data, r)[1] = Named(r)
               /\ r.first.uri \in {"", Own} /\ r.first.id \in ToSet(data.contactIds)
               /\ Named(r) \notin ToSet(data.relationships)
               /\ Named(r).second.uri = Own =>
                    r.second.id \in ToSet(data.contactIds) /\ r.second.id # r.first.id
<1>1. /\ Named(r) \in Relationships
      /\ Named(r).first = r.first /\ Named(r).second.id = r.second.id
  <2>1. Own \in SecondUris
    BY UrisAssumption
  <2> QED
    BY <2>1 DEF Relationships, Named
<1>2. \A id : IndexOf(data, id) # -1 => id \in ToSet(data.contactIds)
  BY ContactIs
<1>3. CASE Accepted(data, r) # <<>>
  <2>1. /\ Accepted(data, r) = <<Named(r)>>
        /\ r.first.uri \in {"", Own} /\ IndexOf(data, r.first.id) # -1
        /\ ~(/\ Named(r).second.uri = Own
             /\ IndexOf(data, r.second.id) = -1 \/ r.second.id = r.first.id)
        /\ Named(r) \notin ToSet(data.relationships)
    BY <1>3 DEF Accepted, Named
  <2> DEFINE n == Named(r)
  <2>2. <<n>>[1] = n
    OBVIOUS
  <2> HIDE DEF n
  <2>3. Accepted(data, r)[1] = Named(r)
    BY <2>1, <2>2 DEF n
  <2> QED
    BY <1>1, <1>2, <2>1, <2>3
<1> QED
  BY <1>1, <1>3

\* What is stored with a relationship.
LEMMA RelatedIs ==
  ASSUME NEW data \in Datas, Matched(data), NEW r \in Relationships
  PROVE  LET v == Related(data, r, IndexOf(data, r.first.id), IndexOf(data, r.second.id))
         IN  v \in Datas /\ Adjusted(data, v, {r.first.id, r.second.id})
<1> DEFINE i == IndexOf(data, r.first.id)
           j == IndexOf(data, r.second.id)
           first == Append(data.ordered[r.first.id], r)
           second == Append(data.ordered[r.second.id], r)
           v == Related(data, r, i, j)
           q == Append(data.relationships, r)
           o == [data.ordered EXCEPT ![r.first.id] = first, ![r.second.id] = second]
           c == [k \in DOMAIN data.contacts |->
                  IF k = j THEN [data.contacts[k] EXCEPT !.relationships = second]
                  ELSE IF k = i THEN [data.contacts[k] EXCEPT !.relationships = first]
                  ELSE data.contacts[k]]
<1>1. v = [data EXCEPT !.relationships = q, !.ordered = o, !.contacts = c]
  BY DEF Related
<1>2. r.first.id \in LocalIds /\ r.second.id \in LocalIds
  BY DEF Relationships
<1>3. first \in Seq(Relationships) /\ second \in Seq(Relationships)
  <2>1. data.ordered[r.first.id] \in Seq(Relationships)
        /\ data.ordered[r.second.id] \in Seq(Relationships)
    BY <1>2 DEF Datas
  <2> QED
    BY <2>1, AppendIs
<1>4. q \in Seq(Relationships)
  <2>1. data.relationships \in Seq(Relationships)
    BY DEF Datas
  <2> QED
    BY <2>1, AppendIs
<1> HIDE DEF first, second, q, v
<1>5. o \in [LocalIds -> Seq(Relationships)]
  <2>1. data.ordered \in [LocalIds -> Seq(Relationships)]
    BY DEF Datas
  <2> QED
    BY <1>2, <1>3, <2>1
<1> HIDE DEF o
<1>6. data.contacts \in Seq(Stored) /\ DOMAIN data.contacts = 1 .. Len(data.contactIds)
  <2>1. data.contacts \in Seq(Stored)
    BY DEF Datas
  <2> QED
    BY <2>1, LenProperties DEF Matched
<1>7. \A k \in DOMAIN data.contacts : data.contacts[k] \in Stored
  BY <1>6, ContactIs
<1>8. \A k \in DOMAIN data.contacts : c[k] \in Stored
  BY <1>3, <1>7 DEF Stored
<1>9. \A k \in DOMAIN data.contacts :
        data.contactIds[k] \notin {r.first.id, r.second.id} => c[k] = data.contacts[k]
  <2>1. \A k \in 1 .. Len(data.contactIds) :
          data.contactIds[k] \notin {r.first.id, r.second.id} => k # i /\ k # j
    <3>1. \A id : IndexOf(data, id) = -1 \/ data.contactIds[IndexOf(data, id)] = id
      BY ContactIs
    <3>2. \A k \in 1 .. Len(data.contactIds) : k # -1
      OBVIOUS
    <3> QED
      BY <3>1, <3>2
  <2> HIDE DEF i, j
  <2> QED
    BY <1>6, <2>1
<1>10. c \in Seq(Stored) /\ Len(c) = Len(data.contacts)
  <2>1. DOMAIN c = DOMAIN data.contacts /\ c = [k \in DOMAIN c |-> c[k]]
    OBVIOUS
  <2> HIDE DEF c
  <2> QED
    BY <1>6, <1>8, <2>1, ContactsWith
<1> HIDE DEF c
<1>11. v \in Datas
  BY <1>1, <1>4, <1>5, <1>10 DEF Datas
<1>12. Adjusted(data, v, {r.first.id, r.second.id})
  BY <1>1, <1>6, <1>9, <1>10 DEF Datas, Adjusted
<1> QED
  BY <1>11, <1>12 DEF v

\* saveRelationship() in particular.
LEMMA SaveRelationshipRelinks ==
  ASSUME NEW w \in Works, Matched(w.data), NEW r \in Relationships
  PROVE  SaveRelationship(w, r) \in Works /\ Relinked(w, SaveRelationship(w, r))
<1> DEFINE v == SaveRelationship(w, r)
           A == Accepted(w.data, r)
           n == Named(r)
           i == IndexOf(w.data, r.first.id)
           j == IndexOf(w.data, r.second.id)
           data == Related(w.data, n, i, j)
<1>1. w.data \in Datas /\ w.cs \in ChangeSets
  BY DEF Works
<1>2. CASE A = <<>> \/ w.undefined
  <2>1. v = w
    BY <1>2 DEF SaveRelationship
  <2> QED
    BY <2>1 DEF Relinked, Adjusted
<1>3. CASE A # <<>> /\ ~w.undefined /\ j = -1
  <2>1. v = [w EXCEPT !.undefined = TRUE]
    BY <1>3 DEF SaveRelationship
  <2> HIDE DEF v
  <2> QED
    BY <2>1 DEF Works, Relinked, Adjusted, v
<1>4. CASE A # <<>> /\ ~w.undefined /\ j # -1
  <2>1. A[1] = n /\ n \in Relationships /\ n.first = r.first /\ n.second.id = r.second.id
    BY <1>1, <1>4, AcceptedIs
  <2>2. v = [w EXCEPT !.data = data, !.cs = Touched(@, {r.first.id, r.second.id})]
    BY <1>4, <2>1 DEF SaveRelationship
  <2>3. data \in Datas /\ Adjusted(w.data, data, {r.first.id, r.second.id})
    <3> HIDE DEF n
    <3>1. data = Related(w.data, n, IndexOf(w.data, n.first.id), IndexOf(w.data, n.second.id))
      BY <2>1
    <3> QED
      BY <1>1, <2>1, <3>1, RelatedIs
  <2> HIDE DEF data, v
  <2>4. r.first.id \in LocalIds /\ r.second.id \in LocalIds
    BY DEF Relationships
  <2>5. v \in Works
    BY <1>1, <2>2, <2>3, <2>4 DEF Works, ChangeSets, Touched
  <2>6. Relinked(w, v)
    BY <1>1, <2>2, <2>3 DEF Works, ChangeSets, Touched, Relinked, Adjusted
  <2> QED
    BY <2>5, <2>6 DEF v
<1> QED
  BY <1>2, <1>3, <1>4

-----------------------------------------------------------------------------
\* Where each item of a list leads from one set to the next, the batch leads to
\* the last.
LEMMA EachReaches ==
  ASSUME NEW X, NEW list \in Seq(X), NEW w, NEW G, w \in G[0]
  PROVE  /\ (\A i \in 1 .. Len(list) : \A v \in G[i - 1] : SaveContact(v, list[i]) \in G[i])
              => Each(SaveContact, w, list) \in G[Len(list)]
         /\ (\A i \in 1 .. Len(list) : \A v \in G[i - 1] : RemoveContact(v, list[i]) \in G[i])
              => Each(RemoveContact, w, list) \in G[Len(list)]
         /\ (\A i \in 1 .. Len(list) : \A v \in G[i - 1] :
               SaveRelationship(v, list[i]) \in G[i])
              => Each(SaveRelationship, w, list) \in G[Len(list)]
         /\ (\A i \in 1 .. Len(list) : \A v \in G[i - 1] :
               RemoveRelationship(v, list[i]) \in G[i])
              => Each(RemoveRelationship, w, list) \in G[Len(list)]
<1> DEFINE n == Len(list)
<1>0. PICK S : S = {}
  OBVIOUS
<1>1. n \in Nat
  OBVIOUS
<1> HIDE DEF n
<1>2. ASSUME NEW f, f[0] = w, \A i \in 1 .. n : f[i - 1] \in G[i - 1] => f[i] \in G[i]
      PROVE  f[n] \in G[n]
  <2> DEFINE H == {i \in 0 .. n : f[i] \in G[i]}
  <2>1. 0 \in H
    BY <1>1, <1>2
  <2>2. ASSUME NEW i \in 1 .. n, i - 1 \in H  PROVE i \in H
    <3>1. i \in 0 .. n
      BY <1>1
    <3> QED
      BY <1>2, <2>2, <3>1
  <2> HIDE DEF H
  <2>3. \A i \in 0 .. n : i \in H
    BY <1>1, <2>1, <2>2, AlongNumbers
  <2> QED
    BY <1>1, <2>3 DEF H
<1>3. PICK f : Course("saveContact", S, w, list, n, f) /\ Each(SaveContact, w, list) = f[n]
  BY EachIsCourse DEF n
<1>4. PICK g : Course("removeContact", S, w, list, n, g)
               /\ Each(RemoveContact, w, list) = g[n]
  BY EachIsCourse DEF n
<1>5. PICK h : Course("saveRelationship", S, w, list, n, h)
               /\ Each(SaveRelationship, w, list) = h[n]
  BY EachIsCourse DEF n
<1>6. PICK q : Course("removeRelationship", S, w, list, n, q)
               /\ Each(RemoveRelationship, w, list) = q[n]
  BY EachIsCourse DEF n
<1>7. f[0] = w /\ \A i \in 1 .. n : f[i] = Step("saveContact", S, f[i - 1], list[i])
  <2>1. f[0] = w
    BY <1>1, <1>3, CourseSteps
  <2>2. ASSUME NEW i \in 1 .. n  PROVE f[i] = Step("saveContact", S, f[i - 1], list[i])
    BY <1>1, <1>3, CourseSteps
  <2> QED
    BY <2>1, <2>2
<1>8. g[0] = w /\ \A i \in 1 .. n : g[i] = Step("removeContact", S, g[i - 1], list[i])
  <2>1. g[0] = w
    BY <1>1, <1>4, CourseSteps
  <2>2. ASSUME NEW i \in 1 .. n  PROVE g[i] = Step("removeContact", S, g[i - 1], list[i])
    BY <1>1, <1>4, CourseSteps
  <2> QED
    BY <2>1, <2>2
<1>9. h[0] = w /\ \A i \in 1 .. n : h[i] = Step("saveRelationship", S, h[i - 1], list[i])
  <2>1. h[0] = w
    BY <1>1, <1>5, CourseSteps
  <2>2. ASSUME NEW i \in 1 .. n  PROVE h[i] = Step("saveRelationship", S, h[i - 1], list[i])
    BY <1>1, <1>5, CourseSteps
  <2> QED
    BY <2>1, <2>2
<1>10. q[0] = w /\ \A i \in 1 .. n : q[i] = Step("removeRelationship", S, q[i - 1], list[i])
  <2>1. q[0] = w
    BY <1>1, <1>6, CourseSteps
  <2>2. ASSUME NEW i \in 1 .. n  PROVE q[i] = Step("removeRelationship", S, q[i - 1], list[i])
    BY <1>1, <1>6, CourseSteps
  <2> QED
    BY <2>1, <2>2
<1>11. \A v, x : /\ Step("saveContact", S, v, x) = SaveContact(v, x)
                 /\ Step("removeContact", S, v, x) = RemoveContact(v, x)
                 /\ Step("saveRelationship", S, v, x) = SaveRelationship(v, x)
                 /\ Step("removeRelationship", S, v, x) = RemoveRelationship(v, x)
  BY DEF Step
<1>12. ASSUME \A i \in 1 .. n : \A v \in G[i - 1] : SaveContact(v, list[i]) \in G[i]
       PROVE  f[n] \in G[n]
  <2>1. \A i \in 1 .. n : f[i - 1] \in G[i - 1] => f[i] \in G[i]
    BY <1>7, <1>11, <1>12
  <2> QED
    BY <1>2, <1>7, <2>1
<1>13. ASSUME \A i \in 1 .. n : \A v \in G[i - 1] : RemoveContact(v, list[i]) \in G[i]
       PROVE  g[n] \in G[n]
  <2>1. \A i \in 1 .. n : g[i - 1] \in G[i - 1] => g[i] \in G[i]
    BY <1>8, <1>11, <1>13
  <2> QED
    BY <1>2, <1>8, <2>1
<1>14. ASSUME \A i \in 1 .. n : \A v \in G[i - 1] : SaveRelationship(v, list[i]) \in G[i]
       PROVE  h[n] \in G[n]
  <2>1. \A i \in 1 .. n : h[i - 1] \in G[i - 1] => h[i] \in G[i]
    BY <1>9, <1>11, <1>14
  <2> QED
    BY <1>2, <1>9, <2>1
<1>15. ASSUME \A i \in 1 .. n : \A v \in G[i - 1] : RemoveRelationship(v, list[i]) \in G[i]
       PROVE  q[n] \in G[n]
  <2>1. \A i \in 1 .. n : q[i - 1] \in G[i - 1] => q[i] \in G[i]
    BY <1>10, <1>11, <1>15
  <2> QED
    BY <1>2, <1>10, <2>1
<1> QED
  BY <1>3, <1>4, <1>5, <1>6, <1>12, <1>13, <1>14, <1>15 DEF n

\* Where each item keeps within a set, so does the batch.
LEMMA EachKeeps ==
  ASSUME NEW X, NEW list \in Seq(X), NEW K, NEW w \in K
  PROVE  /\ (\A v \in K, x \in X : SaveContact(v, x) \in K) => Each(SaveContact, w, list) \in K
         /\ (\A v \in K, x \in X : RemoveContact(v, x) \in K)
              => Each(RemoveContact, w, list) \in K
         /\ (\A v \in K, x \in X : SaveRelationship(v, x) \in K)
              => Each(SaveRelationship, w, list) \in K
         /\ (\A v \in K, x \in X : RemoveRelationship(v, x) \in K)
              => Each(RemoveRelationship, w, list) \in K
<1> DEFINE n == Len(list)
           G == [i \in 0 .. n |-> K]
<1>1. n \in Nat /\ \A i \in 1 .. n : list[i] \in X
  BY ElementOfSeq
<1>2. w \in G[0] /\ G[n] = K /\ \A i \in 1 .. n : G[i - 1] = K /\ G[i] = K
  BY <1>1
<1> HIDE DEF G
<1>3. /\ (\A i \in 1 .. n : \A v \in G[i - 1] : SaveContact(v, list[i]) \in G[i])
              => Each(SaveContact, w, list) \in G[n]
      /\ (\A i \in 1 .. n : \A v \in G[i - 1] : RemoveContact(v, list[i]) \in G[i])
              => Each(RemoveContact, w, list) \in G[n]
      /\ (\A i \in 1 .. n : \A v \in G[i - 1] : SaveRelationship(v, list[i]) \in G[i])
              => Each(SaveRelationship, w, list) \in G[n]
      /\ (\A i \in 1 .. n : \A v \in G[i - 1] : RemoveRelationship(v, list[i]) \in G[i])
              => Each(RemoveRelationship, w, list) \in G[n]
  BY <1>2, EachReaches
<1> HIDE DEF n
<1> QED
  BY <1>1, <1>2, <1>3

\* A batch on relationships relinks as each of its items does.
LEMMA BatchRelinks ==
  ASSUME NEW w \in Works, Matched(w.data), NEW list \in Seq(Relationships)
  PROVE  /\ Each(SaveRelationship, w, list) \in Works
         /\ Relinked(w, Each(SaveRelationship, w, list))
         /\ Each(RemoveRelationship, w, list) \in Works
         /\ Relinked(w, Each(RemoveRelationship, w, list))
<1> DEFINE K == {v \in Works : Relinked(w, v)}
<1>1. w \in K
  BY DEF Relinked, Adjusted
<1>2. ASSUME NEW v \in K, NEW r \in Relationships
      PROVE  SaveRelationship(v, r) \in K /\ RemoveRelationship(v, r) \in K
  <2>1. v \in Works /\ Relinked(w, v)
    OBVIOUS
  <2>2. Matched(v.data)
    <3>1. w.data \in Datas /\ v.data \in Datas
          /\ Adjusted(w.data, v.data, v.cs.touched)
      BY <2>1 DEF Works, Relinked
    <3> QED
      BY <3>1, AdjustedContacts
  <2>3. /\ SaveRelationship(v, r) \in Works /\ Relinked(v, SaveRelationship(v, r))
        /\ RemoveRelationship(v, r) \in Works /\ Relinked(v, RemoveRelationship(v, r))
    BY <2>1, <2>2, SaveRelationshipRelinks, RemoveRelationshipRelinks
  <2>4. Relinked(w, SaveRelationship(v, r)) /\ Relinked(w, RemoveRelationship(v, r))
    BY <2>1, <2>3, RelinkedFurther
  <2> QED
    BY <2>3, <2>4
<1>3. Each(SaveRelationship, w, list) \in K /\ Each(RemoveRelationship, w, list) \in K
  <2> HIDE DEF K
  <2> QED
    BY <1>1, <1>2, EachKeeps
<1> QED
  BY <1>3
-----------------------------------------------------------------------------
\* Every observer knows every contact as it is stored, but for the ones that will
\* be named by the signals of this batch and those that are gone, and the self
\* contact, unless a signal will name it.
Shown(w, gone, self) ==
  /\ \A id \in gone : Contact(w.data, id) = Absent
  /\ self[1] # self[2] => w.data.selfContactId = self[2]
  /\ \A e \in w.data.sharedEngines :
       /\ \A id \in LocalIds : id \notin w.cs.touched /\ id \notin gone =>
            w.views[e].contacts[id] = Contact(w.data, id)
       /\ self[1] = self[2] => w.views[e].selfContactId = w.data.selfContactId

\* Relinking touches all it changes.
LEMMA RelinkedShown ==
  ASSUME NEW w \in Works, Matched(w.data), NEW v \in Works, Relinked(w, v),
         NEW gone, NEW self, Shown(w, gone, self)
  PROVE  Shown(v, gone, self) /\ Matched(v.data)
<1>1. /\ w.data \in Datas /\ v.data \in Datas /\ Adjusted(w.data, v.data, v.cs.touched)
      /\ v.views = w.views /\ w.cs.touched \subseteq v.cs.touched
  BY DEF Works, Relinked
<1>2. /\ Matched(v.data)
      /\ \A id : id \notin v.cs.touched => Contact(v.data, id) = Contact(w.data, id)
      /\ \A id : Contact(w.data, id) = Absent => Contact(v.data, id) = Absent
  BY <1>1, AdjustedContacts
<1>3. v.data.sharedEngines = w.data.sharedEngines
      /\ v.data.selfContactId = w.data.selfContactId
  BY <1>1 DEF Adjusted
<1> QED
  BY <1>1, <1>2, <1>3 DEF Shown

\* The signals of a batch leave nothing but what others are to name; those of a
\* whole call leave nothing.
LEMMA EmitShows ==
  ASSUME NEW w \in Works, Matched(w.data)
  PROVE  LET v == EmitSharedSignals(w)
         IN  /\ v \in Works /\ v.data = w.data /\ v.held = w.held
             /\ v.undefined = w.undefined /\ v.cs = NoChanges
             /\ \A gone, self :
                  /\ Shown(w, gone, self)
                  /\ w.cs.removed = {} /\ w.cs.self = <<NoId, NoId>>
                  => Shown(v, gone, self)
             /\ Shown(w, w.cs.removed, w.cs.self) => Shown(v, {}, <<NoId, NoId>>)
<1> DEFINE v == EmitSharedSignals(w)
           o(e) == Observed(w.views[e], w.data, w.cs)
<1>1. /\ w.data \in Datas /\ w.cs \in ChangeSets /\ w.views \in [Engines -> ViewsOfOne]
      /\ w.held \in Copies /\ w.undefined \in BOOLEAN
      /\ w.data.sharedEngines \subseteq Engines
  BY DEF Works, Datas
<1>2. /\ v.data = w.data /\ v.held = w.held /\ v.undefined = w.undefined
      /\ v.cs = NoChanges
      /\ v.views = [e \in Engines |-> IF e \in w.data.sharedEngines THEN o(e) ELSE w.views[e]]
      /\ v = [data |-> w.data, views |-> v.views, cs |-> NoChanges, held |-> w.held,
              undefined |-> w.undefined]
  <2> DEFINE vs == [e \in Engines |-> IF e \in w.data.sharedEngines THEN o(e) ELSE w.views[e]]
  <2>1. v = [w EXCEPT !.views = vs, !.cs = NoChanges]
    BY DEF EmitSharedSignals
  <2> HIDE DEF vs, v
  <2>2. /\ v.data = w.data /\ v.held = w.held /\ v.undefined = w.undefined
        /\ v.cs = NoChanges /\ v.views = vs
        /\ v = [data |-> w.data, views |-> v.views, cs |-> NoChanges, held |-> w.held,
                undefined |-> w.undefined]
    BY <2>1 DEF Works
  <2> QED
    BY <2>2 DEF vs
<1> HIDE DEF v
<1>3. NoChanges \in ChangeSets
  BY DEF NoChanges, ChangeSets, Ids
<1>4. ASSUME NEW e \in Engines
      PROVE  /\ o(e) \in ViewsOfOne
             /\ \A id \in LocalIds : o(e).contacts[id] =
                  IF id \in w.cs.touched THEN Contact(w.data, id)
                  ELSE IF id \in w.cs.removed THEN Absent
                  ELSE w.views[e].contacts[id]
             /\ o(e).selfContactId = IF w.cs.self[1] # w.cs.self[2] THEN w.cs.self[2]
                                     ELSE w.views[e].selfContactId
  <2>1. \A id \in LocalIds : Contact(w.data, id) \in Stored \cup {Absent}
    BY <1>1, ContactIs
  <2>2. w.views[e] \in ViewsOfOne
    BY <1>1
  <2>3. w.cs.self[2] \in Ids
    BY <1>1 DEF ChangeSets
  <2> QED
    BY <2>1, <2>2, <2>3 DEF Observed, ViewsOfOne
<1> HIDE DEF o
<1>5. v \in Works
  <2>1. v.views \in [Engines -> ViewsOfOne]
    BY <1>1, <1>2, <1>4
  <2> DEFINE vs == v.views
  <2>2. v = [data |-> w.data, views |-> vs, cs |-> NoChanges, held |-> w.held,
              undefined |-> w.undefined] /\ vs \in [Engines -> ViewsOfOne]
    BY <1>2, <2>1
  <2> HIDE DEF vs
  <2> QED
    BY <1>1, <1>3, <2>2 DEF Works
<1>6. \A e \in w.data.sharedEngines : v.views[e] = o(e) /\ e \in Engines
  BY <1>1, <1>2
<1>7. ASSUME NEW gone, NEW self, Shown(w, gone, self),
             w.cs.removed = {}, w.cs.self = <<NoId, NoId>>
      PROVE  Shown(v, gone, self)
  BY <1>2, <1>4, <1>6, <1>7 DEF Shown
<1>8. ASSUME Shown(w, w.cs.removed, w.cs.self)  PROVE Shown(v, {}, <<NoId, NoId>>)
  BY <1>2, <1>4, <1>6, <1>8 DEF Shown
<1> QED
  BY <1>2, <1>5, <1>7, <1>8 DEF v

-----------------------------------------------------------------------------
\* A contact with a new id.
LEMMA ContactAdded ==
  ASSUME NEW data \in Datas, Matched(data), NEW new \in Stored, NextId(data) \in LocalIds,
         NEW after,
         after = [data EXCEPT !.contacts = Append(@, new),
                              !.contactIds = Append(@, NextId(data)),
                              !.nextContactId = @ + 1]
  PROVE  /\ after \in Datas /\ Matched(after)
         /\ \A x : x # NextId(data) => Contact(after, x) = Contact(data, x)
<1> DEFINE ids == data.contactIds
           cs == data.contacts
           id == data.nextContactId + 1
           n == Len(ids)
           idsN == Append(ids, id)
           csN == Append(cs, new)
<1>1. /\ ids \in Seq(LocalIds) /\ cs \in Seq(Stored) /\ Len(cs) = n /\ n \in Nat
      /\ data.nextContactId \in Nat \ {0}
      /\ \A x \in ToSet(ids) : x \in LocalIds /\ x <= data.nextContactId
      /\ IsInjective(ids) /\ DOMAIN ids = 1 .. n
  <2>1. ids \in Seq(LocalIds) /\ cs \in Seq(Stored) /\ data.nextContactId \in Nat \ {0}
    BY DEF Datas
  <2>2. \A x \in ToSet(ids) : x \in LocalIds
    BY ContactIs
  <2> QED
    BY <2>1, <2>2, LenProperties DEF Matched
<1>2. id \in LocalIds /\ id \notin ToSet(ids)
  <2>1. LocalIds \subseteq Int
    BY DEF LocalIds
  <2>2. \A x \in ToSet(ids) : x # id
    BY <1>1, <2>1
  <2> QED
    BY <2>2 DEF NextId
<1> HIDE DEF id
<1>3. /\ idsN \in Seq(LocalIds) /\ Len(idsN) = n + 1 /\ DOMAIN idsN = 1 .. n + 1
      /\ \A k \in 1 .. n : idsN[k] = ids[k]
      /\ idsN[n + 1] = id
      /\ ToSet(idsN) = ToSet(ids) \cup {id}
  <2>1. /\ Append(ids, id) \in Seq(LocalIds) /\ Len(Append(ids, id)) = Len(ids) + 1
        /\ \A k \in 1 .. Len(ids) : Append(ids, id)[k] = ids[k]
        /\ Append(ids, id)[Len(ids) + 1] = id
        /\ ToSet(Append(ids, id)) = ToSet(ids) \cup {id}
    BY <1>1, <1>2, AppendIs
  <2> HIDE DEF idsN
  <2>2. DOMAIN idsN = 1 .. Len(idsN)
    BY <2>1, LenProperties DEF idsN
  <2> QED
    BY <2>1, <2>2 DEF idsN
<1>4. /\ csN \in Seq(Stored) /\ Len(csN) = n + 1
      /\ \A k \in 1 .. n : csN[k] = cs[k]
  BY <1>1, AppendIs
<1> HIDE DEF idsN, csN
<1>5. after = [data EXCEPT !.contacts = csN, !.contactIds = idsN, !.nextContactId = id]
  BY DEF idsN, csN, id, NextId
<1>6. after \in Datas
  <2>1. /\ data \in Datas /\ csN \in Seq(Stored) /\ idsN \in Seq(LocalIds)
        /\ id \in Nat \ {0}
    BY <1>1, <1>3, <1>4 DEF id
  <2> QED
    BY ONLY <1>5, <2>1 DEF Datas
<1>7. /\ after.contacts = csN /\ after.contactIds = idsN /\ after.nextContactId = id
      /\ after.refCount = data.refCount /\ after.sharedEngines = data.sharedEngines
  BY <1>5 DEF Datas, id
<1>8. IsInjective(idsN)
  <2>1. \A i, j \in 1 .. n : ids[i] = ids[j] => i = j
    BY <1>1 DEF IsInjective
  <2>2. \A i \in 1 .. n : ids[i] # id
    BY <1>1, <1>2 DEF ToSet
  <2>3. ASSUME NEW i \in 1 .. n + 1, NEW j \in 1 .. n + 1, idsN[i] = idsN[j]  PROVE i = j
    <3>1. \A k \in 1 .. n + 1 : k \in 1 .. n \/ k = n + 1
      BY <1>1
    <3> QED
      BY <1>3, <2>1, <2>2, <2>3, <3>1
  <2> QED
    BY <1>3, <2>3 DEF IsInjective
<1>9. Matched(after)
  <2>1. \A x \in ToSet(idsN) : x <= id
    <3>1. LocalIds \subseteq Int
      BY DEF LocalIds
    <3>2. \A x \in ToSet(ids) : x <= id
      BY <1>1, <3>1 DEF id
    <3> QED
      BY <1>2, <1>3, <3>1, <3>2
  <2> QED
    BY <1>3, <1>4, <1>7, <1>8, <2>1 DEF Matched
<1>10. ASSUME NEW x, x # id  PROVE Contact(after, x) = Contact(data, x)
  <2>1. CASE x \notin ToSet(ids)
    <3>1. x \notin ToSet(after.contactIds)
      BY <1>3, <1>7, <1>10, <2>1
    <3> QED
      BY <1>6, <1>9, <2>1, <3>1, ContactIs
  <2>2. CASE x \in ToSet(ids)
    <3>1. PICK k \in 1 .. n : ids[k] = x
      BY <1>1, <2>2 DEF ToSet
    <3>2. k \in 1 .. Len(after.contactIds) /\ after.contactIds[k] = x
          /\ after.contacts[k] = cs[k]
      BY <1>1, <1>3, <1>4, <1>7, <3>1
    <3>3. Contact(after, x) = after.contacts[k]
      BY <1>6, <1>9, <3>2, ContactIs
    <3>4. Contact(data, x) = cs[k]
      BY <3>1, ContactIs
    <3> QED
      BY <3>2, <3>3, <3>4
  <2> QED
    BY <2>1, <2>2
<1> QED
  BY <1>6, <1>9, <1>10 DEF id, NextId

\* A contact that goes.
Without(data, i, self) ==
  [data EXCEPT !.contacts = RemoveAt(@, i), !.contactIds = RemoveAt(@, i),
               !.selfContactId = self]
LEMMA ContactRemoved ==
  ASSUME NEW data \in Datas, Matched(data), NEW i \in 1 .. Len(data.contactIds),
         NEW id, data.contactIds[i] = id, NEW self \in Ids
  PROVE  LET after == Without(data, i, self)
         IN  /\ after \in Datas /\ Matched(after)
             /\ after.selfContactId = self /\ after.sharedEngines = data.sharedEngines
             /\ Contact(after, id) = Absent
             /\ \A x : x # id => Contact(after, x) = Contact(data, x)
<1> DEFINE ids == data.contactIds
           cs == data.contacts
           n == Len(ids)
           idsN == RemoveAt(ids, i)
           csN == RemoveAt(cs, i)
           at(k) == IF k < i THEN k ELSE k + 1
           after == Without(data, i, self)
<1>1. /\ ids \in Seq(LocalIds) /\ cs \in Seq(Stored) /\ Len(cs) = n /\ n \in Nat
      /\ \A x \in ToSet(ids) : x <= data.nextContactId
      /\ DOMAIN ids = 1 .. n /\ i \in 1 .. n
      /\ \A k, j \in 1 .. n : ids[k] = ids[j] => k = j
  <2>1. ids \in Seq(LocalIds) /\ cs \in Seq(Stored)
    BY DEF Datas
  <2> QED
    BY <2>1, LenProperties DEF Matched, IsInjective
<1>2. /\ idsN \in Seq(LocalIds) /\ Len(idsN) = n - 1 /\ DOMAIN idsN = 1 .. n - 1
      /\ \A k \in 1 .. n - 1 : idsN[k] = ids[at(k)]
  <2>1. /\ idsN \in Seq(LocalIds) /\ Len(idsN) = n - 1
        /\ \A k \in 1 .. i - 1 : idsN[k] = ids[k]
        /\ \A k \in i .. n - 1 : idsN[k] = ids[k + 1]
    <3>1. ids \in Seq(LocalIds) /\ i \in 1 .. Len(ids)
      BY <1>1
    <3> HIDE DEF ids
    <3> QED
      BY ONLY <3>1, RemoveAtIs
  <2> HIDE DEF idsN
  <2>2. DOMAIN idsN = 1 .. n - 1
    BY <2>1, LenProperties
  <2>3. \A k \in 1 .. n - 1 : IF k < i THEN k \in 1 .. i - 1 ELSE k \in i .. n - 1
    BY <1>1
  <2> QED
    BY <2>1, <2>2, <2>3
<1>3. /\ csN \in Seq(Stored) /\ Len(csN) = n - 1
      /\ \A k \in 1 .. n - 1 : csN[k] = cs[at(k)]
  <2>1. /\ csN \in Seq(Stored) /\ Len(csN) = Len(cs) - 1
        /\ \A k \in 1 .. i - 1 : csN[k] = cs[k]
        /\ \A k \in i .. Len(cs) - 1 : csN[k] = cs[k + 1]
    <3>1. cs \in Seq(Stored) /\ i \in 1 .. Len(cs)
      BY <1>1
    <3> HIDE DEF cs
    <3> QED
      BY ONLY <3>1, RemoveAtIs
  <2> HIDE DEF csN
  <2>3. \A k \in 1 .. n - 1 : IF k < i THEN k \in 1 .. i - 1 ELSE k \in i .. n - 1
    BY <1>1
  <2> QED
    BY <1>1, <2>1, <2>3
<1> HIDE DEF idsN, csN
<1>4. after = [data EXCEPT !.contacts = csN, !.contactIds = idsN, !.selfContactId = self]
  BY DEF idsN, csN, Without
<1> HIDE DEF after
<1>5. after \in Datas
  BY <1>2, <1>3, <1>4 DEF Datas
<1>6. /\ after.contacts = csN /\ after.contactIds = idsN
      /\ after.nextContactId = data.nextContactId /\ after.selfContactId = self
      /\ after.refCount = data.refCount /\ after.sharedEngines = data.sharedEngines
  BY <1>4 DEF Datas
<1>7. \A k \in 1 .. n - 1 : at(k) \in 1 .. n /\ at(k) # i
  BY <1>1
<1>8. \A k, j \in 1 .. n - 1 : at(k) = at(j) => k = j
  BY <1>1
<1>9. \A j \in 1 .. n : j # i => \E k \in 1 .. n - 1 : at(k) = j
  <2> SUFFICES ASSUME NEW j \in 1 .. n, j # i  PROVE \E k \in 1 .. n - 1 : at(k) = j
    OBVIOUS
  <2>1. CASE j < i
    <3>1. j \in 1 .. n - 1 /\ at(j) = j
      BY <1>1, <2>1
    <3> QED
      BY <3>1
  <2>2. CASE j > i
    <3>1. j - 1 \in 1 .. n - 1 /\ at(j - 1) = j
      BY <1>1, <2>2
    <3> QED
      BY <3>1
  <2> QED
    BY <1>1, <2>1, <2>2
<1> HIDE DEF at
<1>10. Matched(after)
  <2>1. IsInjective(idsN)
    BY <1>1, <1>2, <1>7, <1>8 DEF IsInjective
  <2>2. \A x \in ToSet(idsN) : x \in ToSet(ids)
    BY <1>1, <1>2, <1>7 DEF ToSet
  <2> QED
    BY <1>1, <1>2, <1>3, <1>6, <2>1, <2>2 DEF Matched
<1>11. Contact(after, id) = Absent
  <2>1. id \notin ToSet(idsN)
    BY <1>1, <1>2, <1>7 DEF ToSet
  <2> QED
    BY <1>5, <1>6, <1>10, <2>1, ContactIs
<1>12. ASSUME NEW x, x # id  PROVE Contact(after, x) = Contact(data, x)
  <2>1. CASE x \notin ToSet(ids)
    <3>1. x \notin ToSet(idsN)
      BY <1>1, <1>2, <1>7, <2>1 DEF ToSet
    <3> QED
      <4>1. Contact(after, x) = Absent
        BY <1>5, <1>6, <1>10, <3>1, ContactIs
      <4>2. Contact(data, x) = Absent
        BY <2>1, ContactIs
      <4> QED
        BY <4>1, <4>2
  <2>2. CASE x \in ToSet(ids)
    <3>1. PICK j \in 1 .. n : ids[j] = x
      BY <1>1, <2>2 DEF ToSet
    <3>2. PICK k \in 1 .. n - 1 : at(k) = j
      BY <1>9, <1>12, <3>1
    <3>3. k \in 1 .. Len(after.contactIds) /\ after.contactIds[k] = x
          /\ after.contacts[k] = cs[j]
      BY <1>2, <1>3, <1>6, <3>1, <3>2
    <3>4. Contact(after, x) = after.contacts[k]
      BY <1>5, <1>10, <3>3, ContactIs
    <3>5. Contact(data, x) = cs[j]
      BY <3>1, ContactIs
    <3> QED
      BY <3>3, <3>4, <3>5
  <2> QED
    BY <2>1, <2>2
<1> QED
  BY <1>5, <1>6, <1>10, <1>11, <1>12 DEF after

-----------------------------------------------------------------------------
\* What a program gives to be saved.
DraftsAtAll ==
  [id : Ids, type : ContactTypes, relationships : Seq(Relationships), valid : BOOLEAN]

\* saveContact() touches what it changes, and hands out one id at most.
LEMMA SaveContactShows ==
  ASSUME NEW w \in Works, Matched(w.data), NEW draft \in DraftsAtAll,
         w.data.nextContactId < MaxId
  PROVE  LET v == SaveContact(w, draft)
         IN  /\ v \in Works /\ Matched(v.data)
             /\ v.cs.removed = w.cs.removed /\ v.cs.self = w.cs.self
             /\ v.undefined = w.undefined
             /\ v.data.nextContactId <= w.data.nextContactId + 1
             /\ \A self : Shown(w, {}, self) => Shown(v, {}, self)
<1> DEFINE v == SaveContact(w, draft)
           data == w.data
           i == IndexOf(data, draft.id)
           id == NextId(data)
           new == [type |-> draft.type, relationships |-> draft.relationships]
<1>1. /\ data \in Datas /\ w.cs \in ChangeSets /\ draft.id \in Ids
      /\ data.nextContactId \in Nat \ {0} /\ new \in Stored
  BY DEF Works, DraftsAtAll, Stored, Datas
<1>2. CASE v = w
  BY <1>1, <1>2
<1>3. CASE /\ i # -1 /\ data.contacts[i].type = draft.type
           /\ v = [w EXCEPT !.data.contacts[i] = new, !.cs = Touched(@, {draft.id}),
                            !.held = [id |-> draft.id, contact |-> new]]
  <2> DEFINE c == [data.contacts EXCEPT ![i] = new]
             after == [data EXCEPT !.contacts = c]
             copy == [id |-> draft.id, contact |-> new]
  <2>1. /\ i \in 1 .. Len(data.contactIds) /\ data.contactIds[i] = draft.id
        /\ draft.id \in LocalIds
    <3>1. \A x : IndexOf(data, x) # -1 =>
            /\ IndexOf(data, x) \in 1 .. Len(data.contactIds)
            /\ data.contactIds[IndexOf(data, x)] = x /\ x \in LocalIds
      BY <1>1, ContactIs
    <3> QED
      BY <1>3, <3>1
  <2>2. data.contacts \in Seq(Stored) /\ DOMAIN data.contacts = 1 .. Len(data.contactIds)
        /\ Len(data.contacts) = Len(data.contactIds)
    <3>1. data.contacts \in Seq(Stored)
      BY <1>1 DEF Datas
    <3> QED
      BY <3>1, LenProperties DEF Matched
  <2>3. c \in Seq(Stored) /\ Len(c) = Len(data.contacts)
    <3>1. \A k \in DOMAIN data.contacts : data.contacts[k] \in Stored
      BY <1>1, <2>2, ContactIs
    <3>2. /\ DOMAIN c = DOMAIN data.contacts /\ c = [k \in DOMAIN c |-> c[k]]
          /\ \A k \in DOMAIN data.contacts : c[k] = IF k = i THEN new ELSE data.contacts[k]
      OBVIOUS
    <3>3. \A k \in DOMAIN data.contacts : c[k] \in Stored
      BY <1>1, <3>1, <3>2
    <3> HIDE DEF c
    <3> QED
      BY <2>2, <3>2, <3>3, ContactsWith
  <2>4. \A k \in 1 .. Len(data.contactIds) :
          data.contactIds[k] \notin {draft.id} => c[k] = data.contacts[k]
    BY <2>1, <2>2
  <2>5. copy \in Copies
    BY <1>1, <2>1 DEF Copies
  <2>6. v = [w EXCEPT !.data = after, !.cs = Touched(@, {draft.id}), !.held = copy]
    BY <1>3
  <2> HIDE DEF c, copy, v
  <2>7. after \in Datas /\ Adjusted(data, after, {draft.id})
        /\ after.nextContactId = data.nextContactId
    BY <1>1, <2>3, <2>4 DEF Datas, Adjusted
  <2>8. Touched(w.cs, {draft.id}) \in ChangeSets
        /\ Touched(w.cs, {draft.id}).touched = w.cs.touched \cup {draft.id}
        /\ Touched(w.cs, {draft.id}).removed = w.cs.removed
        /\ Touched(w.cs, {draft.id}).self = w.cs.self
    BY <1>1, <2>1 DEF ChangeSets, Touched
  <2> HIDE DEF after
  <2>9. /\ v \in Works /\ v.data = after /\ v.views = w.views /\ v.undefined = w.undefined
        /\ v.cs = Touched(w.cs, {draft.id})
    BY <2>5, <2>6, <2>7, <2>8 DEF Works
  <2>10. /\ Matched(after)
         /\ \A x : x \notin {draft.id} => Contact(after, x) = Contact(data, x)
    BY <1>1, <2>7, AdjustedContacts
  <2>11. after.sharedEngines = data.sharedEngines /\ after.selfContactId = data.selfContactId
    BY <2>7 DEF Adjusted
  <2>12. \A self : Shown(w, {}, self) => Shown(v, {}, self)
    BY <2>8, <2>9, <2>10, <2>11 DEF Shown
  <2> QED
    BY <1>1, <2>7, <2>8, <2>9, <2>10, <2>12 DEF v
<1>4. CASE v = [w EXCEPT !.data.contacts = Append(@, new), !.data.contactIds = Append(@, id),
                         !.data.nextContactId = @ + 1, !.cs = Touched(@, {id}),
                         !.held = [id |-> id, contact |-> new]]
  <2> DEFINE after == [data EXCEPT !.contacts = Append(@, new), !.contactIds = Append(@, id),
                                   !.nextContactId = @ + 1]
             copy == [id |-> id, contact |-> new]
  <2>1. id \in LocalIds /\ id = data.nextContactId + 1
    BY <1>1, BoundsAssumption DEF LocalIds, NextId
  <2>2. /\ after \in Datas /\ Matched(after)
        /\ \A x : x # id => Contact(after, x) = Contact(data, x)
    <3>1. /\ after = [data EXCEPT !.contacts = Append(@, new),
                                  !.contactIds = Append(@, NextId(data)),
                                  !.nextContactId = @ + 1]
          /\ NextId(data) \in LocalIds /\ new \in Stored /\ data \in Datas /\ Matched(data)
      BY <1>1, <2>1
    <3> HIDE DEF after, new, data
    <3>2. /\ after \in Datas /\ Matched(after)
          /\ \A x : x # NextId(data) => Contact(after, x) = Contact(data, x)
      BY ONLY <3>1, ContactAdded
    <3> QED
      BY <3>2
  <2>3. copy \in Copies
    BY <1>1, <2>1 DEF Copies
  <2>4. v = [w EXCEPT !.data = after, !.cs = Touched(@, {id}), !.held = copy]
    BY <1>4
  <2>5. after.sharedEngines = data.sharedEngines /\ after.selfContactId = data.selfContactId
        /\ after.nextContactId = data.nextContactId + 1
    BY <1>1 DEF Datas
  <2> HIDE DEF after, copy, v, id
  <2>8. Touched(w.cs, {id}) \in ChangeSets
        /\ Touched(w.cs, {id}).touched = w.cs.touched \cup {id}
        /\ Touched(w.cs, {id}).removed = w.cs.removed
        /\ Touched(w.cs, {id}).self = w.cs.self
    BY <1>1, <2>1 DEF ChangeSets, Touched
  <2>9. /\ v \in Works /\ v.data = after /\ v.views = w.views /\ v.undefined = w.undefined
        /\ v.cs = Touched(w.cs, {id})
    BY <2>2, <2>3, <2>4, <2>8 DEF Works
  <2>12. \A self : Shown(w, {}, self) => Shown(v, {}, self)
    BY <2>2, <2>5, <2>8, <2>9 DEF Shown
  <2> QED
    BY <1>1, <2>2, <2>5, <2>8, <2>9, <2>12 DEF v
<1>5. draft.valid \in BOOLEAN
  BY DEF DraftsAtAll
<1>6. \/ v = w
      \/ /\ i # -1 /\ data.contacts[i].type = draft.type
         /\ v = [w EXCEPT !.data.contacts[i] = new, !.cs = Touched(@, {draft.id}),
                          !.held = [id |-> draft.id, contact |-> new]]
      \/ v = [w EXCEPT !.data.contacts = Append(@, new), !.data.contactIds = Append(@, id),
                       !.data.nextContactId = @ + 1, !.cs = Touched(@, {id}),
                       !.held = [id |-> id, contact |-> new]]
  BY <1>5 DEF SaveContact
<1> QED
  BY <1>2, <1>3, <1>4, <1>6

-----------------------------------------------------------------------------
\* removeContact() gives the signals of the relationships before its own, and leaves
\* what it removed for the signals of the batch.
LEMMA RemoveContactShows ==
  ASSUME NEW w \in Works, Matched(w.data), NEW id \in LocalIds,
         w.cs.touched = {}, Shown(w, w.cs.removed, w.cs.self)
  PROVE  LET v == RemoveContact(w, id)
         IN  /\ v \in Works /\ Matched(v.data)
             /\ v.cs.touched = {} /\ Shown(v, v.cs.removed, v.cs.self)
<1> DEFINE v == RemoveContact(w, id)
           i == IndexOf(w.data, id)
           w0 == [w EXCEPT !.cs = NoChanges]
           list == InEitherRole(w.data, id)
           u == Each(RemoveRelationship, w0, list)
           r == EmitSharedSignals(u)
           self == id = w.data.selfContactId
           selfN == IF self THEN NoId ELSE r.data.selfContactId
           after == Without(r.data, i, selfN)
           cs == [w.cs EXCEPT !.removed = @ \cup {id}, !.self = IF self THEN <<id, NoId>> ELSE @]
<1>1. /\ w.data \in Datas /\ w.cs \in ChangeSets
      /\ w.data.relationships \in Seq(Relationships)
  BY DEF Works, Datas
<1>2. CASE i = -1
  <2>1. v = w
    BY <1>2 DEF RemoveContact
  <2> QED
    BY <2>1
<1>3. CASE i # -1
  <2>1. i \in 1 .. Len(w.data.contactIds) /\ w.data.contactIds[i] = id
    <3>1. \A x : IndexOf(w.data, x) # -1 =>
            /\ IndexOf(w.data, x) \in 1 .. Len(w.data.contactIds)
            /\ w.data.contactIds[IndexOf(w.data, x)] = x
      BY <1>1, ContactIs
    <3> QED
      BY <1>3, <3>1
  <2>2. list \in Seq(Relationships)
    BY <1>1, AmongType DEF InEitherRole
  <2>3. /\ w0 \in Works /\ w0.data = w.data /\ w0.views = w.views /\ w0.cs = NoChanges
    BY DEF Works, ChangeSets, NoChanges, Ids
  <2>4. Shown(w0, w.cs.removed, w.cs.self)
    BY <2>3 DEF Shown
  <2> HIDE DEF w0, i, list
  <2>5. u \in Works /\ Relinked(w0, u)
    BY <2>2, <2>3, BatchRelinks
  <2> HIDE DEF u
  <2>6. Shown(u, w.cs.removed, w.cs.self) /\ Matched(u.data)
    BY <2>3, <2>4, <2>5, RelinkedShown
  <2>7. u.cs.removed = {} /\ u.cs.self = <<NoId, NoId>>
        /\ u.data.contactIds = w.data.contactIds
        /\ u.data.selfContactId = w.data.selfContactId
        /\ u.data \in Datas
    BY <2>3, <2>5 DEF Relinked, Adjusted, NoChanges, Works
  <2>8. /\ r \in Works /\ r.data = u.data /\ r.cs = NoChanges
        /\ Shown(r, w.cs.removed, w.cs.self)
    BY <2>5, <2>6, <2>7, EmitShows
  <2> HIDE DEF r
  <2>9. selfN \in Ids
    BY <2>7, <2>8 DEF Datas, Ids
  <2>10. /\ after \in Datas /\ Matched(after)
         /\ Contact(after, id) = Absent
         /\ \A x : x # id => Contact(after, x) = Contact(r.data, x)
         /\ after.selfContactId = selfN /\ after.sharedEngines = r.data.sharedEngines
    <3> DEFINE data == r.data
    <3>1. /\ data \in Datas /\ Matched(data) /\ i \in 1 .. Len(data.contactIds)
          /\ data.contactIds[i] = id /\ selfN \in Ids
      BY <2>1, <2>6, <2>7, <2>8, <2>9
    <3> HIDE DEF data, selfN
    <3> QED
      BY <3>1, ContactRemoved DEF data
  <2>11. /\ cs \in ChangeSets /\ cs.removed = w.cs.removed \cup {id} /\ cs.touched = {}
         /\ cs.self = IF self THEN <<id, NoId>> ELSE w.cs.self
    BY <1>1 DEF ChangeSets, Ids
  <2>12. v = [r EXCEPT !.data = after, !.cs = cs]
    <3>1. v = [r EXCEPT !.data.contacts = RemoveAt(@, i), !.data.contactIds = RemoveAt(@, i),
                        !.data.selfContactId = IF self THEN NoId ELSE @, !.cs = cs]
      BY <1>3 DEF RemoveContact, RemoveAll, i, w0, list, u, r
    <3> HIDE DEF v, cs, self
    <3> QED
      BY <2>8, <3>1 DEF Works, Without
  <2> HIDE DEF after, cs, v
  <2>13. v \in Works /\ v.data = after /\ v.cs = cs /\ v.views = r.views
    BY <2>8, <2>10, <2>11, <2>12 DEF Works
  <2>14. \A x \in cs.removed : Contact(v.data, x) = Absent
    BY <2>8, <2>10, <2>11, <2>13 DEF Shown
  <2>15. cs.self[1] # cs.self[2] => v.data.selfContactId = cs.self[2]
    <3>1. CASE self
      BY <2>10, <2>11, <2>13, <3>1
    <3>2. CASE ~self
      BY <2>8, <2>10, <2>11, <2>13, <3>2 DEF Shown
    <3> QED
      BY <3>1, <3>2
  <2>16. ASSUME NEW e \in v.data.sharedEngines
         PROVE  /\ \A x \in LocalIds : x \notin cs.touched /\ x \notin cs.removed =>
                     v.views[e].contacts[x] = Contact(v.data, x)
                /\ cs.self[1] = cs.self[2] => v.views[e].selfContactId = v.data.selfContactId
    <3>1. e \in r.data.sharedEngines
      BY <2>10, <2>13, <2>16
    <3>2. \A x \in LocalIds : x \notin cs.removed =>
             v.views[e].contacts[x] = Contact(v.data, x)
      BY <2>8, <2>10, <2>11, <2>13, <3>1 DEF Shown, NoChanges
    <3>3. CASE self
      <4>1. id # NoId
        BY DEF LocalIds, NoId
      <4> QED
        BY <2>11, <3>2, <3>3, <4>1
    <3>4. CASE ~self
      BY <2>8, <2>10, <2>11, <2>13, <3>1, <3>2, <3>4 DEF Shown
    <3> QED
      BY <3>3, <3>4
  <2>17. Shown(v, v.cs.removed, v.cs.self)
    BY <2>13, <2>14, <2>15, <2>16 DEF Shown
  <2> QED
    BY <2>10, <2>11, <2>13, <2>17 DEF v
<1> QED
  BY <1>2, <1>3

-----------------------------------------------------------------------------
\* What always holds of a store: it is of its type, its lists match, and every
\* observer knows all of it.
UpToDate(data, vs) ==
  \A e \in data.sharedEngines :
    /\ \A id \in LocalIds : vs[e].contacts[id] = Contact(data, id)
    /\ vs[e].selfContactId = data.selfContactId
IInv ==
  /\ views \in [Engines -> ViewsOfOne] /\ held \in Copies /\ undefined \in BOOLEAN
  /\ Alive => d \in Datas /\ Matched(d) /\ UpToDate(d, views)

NoSelf == <<NoId, NoId>>

\* A batch starts from there ...
LEMMA BeginIs ==
  ASSUME IInv, Alive
  PROVE  /\ Begin \in Works /\ Begin.data = d /\ Matched(Begin.data)
         /\ Begin.views = views /\ Begin.held = held /\ Begin.undefined = undefined
         /\ Begin.cs.touched = {} /\ Begin.cs.removed = {} /\ Begin.cs.self = NoSelf
         /\ Begin.cs = NoChanges
         /\ Shown(Begin, {}, NoSelf)
<1>1. NoChanges \in ChangeSets /\ NoChanges.touched = {} /\ NoChanges.removed = {}
      /\ NoChanges.self = NoSelf
  BY DEF NoChanges, ChangeSets, Ids, NoSelf
<1> DEFINE b == Begin
<1>2. /\ b.data = d /\ b.views = views /\ b.held = held /\ b.undefined = undefined
      /\ b.cs = NoChanges /\ b \in Works
  BY <1>1 DEF Begin, IInv, Works
<1> HIDE DEF b
<1>3. Shown(b, {}, NoSelf)
  BY <1>1, <1>2 DEF IInv, UpToDate, Shown, NoSelf
<1> QED
  BY <1>1, <1>2, <1>3 DEF IInv, b

\* ... and ends there.
LEMMA FinishKeeps ==
  ASSUME NEW w \in Works, Matched(w.data), w.cs = NoChanges, Shown(w, {}, NoSelf), Finish(w)
  PROVE  IInv'
<1>1. d' = w.data /\ views' = w.views /\ held' = w.held /\ undefined' = w.undefined
  BY DEF Finish
<1>2. w.views \in [Engines -> ViewsOfOne] /\ w.held \in Copies /\ w.undefined \in BOOLEAN
      /\ w.data \in Datas
  BY DEF Works
<1>3. UpToDate(w.data, w.views)
  BY DEF Shown, NoSelf, NoChanges, UpToDate
<1> QED
  BY <1>1, <1>2, <1>3 DEF IInv

\* A batch of relationships, removed or saved.
LEMMA RelationshipsKeep ==
  ASSUME IInv, Alive, NEW list \in Seq(Relationships), NEW w,
         w = Each(SaveRelationship, Begin, list) \/ w = Each(RemoveRelationship, Begin, list),
         Finish(EmitSharedSignals(w))
  PROVE  IInv'
<1>1. /\ Begin \in Works /\ Matched(Begin.data)
      /\ Begin.cs.removed = {} /\ Begin.cs.self = NoSelf
      /\ Shown(Begin, {}, NoSelf)
  BY BeginIs
<1> DEFINE b == Begin
           v == EmitSharedSignals(w)
<1> HIDE DEF b
<1>2. w \in Works /\ Relinked(b, w)
  BY <1>1, BatchRelinks DEF b
<1>3. Shown(w, {}, NoSelf) /\ Matched(w.data)
  BY <1>1, <1>2, RelinkedShown DEF b
<1>4. w.cs.removed = {} /\ w.cs.self = NoSelf
  BY <1>1, <1>2 DEF Relinked, b
<1>5. v \in Works /\ v.data = w.data /\ v.cs = NoChanges /\ Shown(v, {}, NoSelf)
  BY <1>2, <1>3, <1>4, EmitShows DEF NoSelf
<1> HIDE DEF v
<1>6. Matched(v.data)
  BY <1>3, <1>5
<1> QED
  BY <1>5, <1>6, FinishKeeps DEF v

\* A batch of removals.
LEMMA RemoveContactsKeep ==
  ASSUME IInv, Alive, NEW list \in Seq(LocalIds), RemoveContacts(list)
  PROVE  IInv'
<1> DEFINE b == Begin
           K == {v \in Works : /\ Matched(v.data) /\ v.cs.touched = {}
                               /\ Shown(v, v.cs.removed, v.cs.self)}
           w == Each(RemoveContact, b, list)
           v == EmitSharedSignals(w)
<1>1. b \in K
  BY BeginIs
<1>2. \A u \in K, id \in LocalIds : RemoveContact(u, id) \in K
  BY RemoveContactShows
<1>3. w \in K
  <2> HIDE DEF K, b
  <2> QED
    BY <1>1, <1>2, EachKeeps
<1>4. w \in Works /\ Matched(w.data) /\ Shown(w, w.cs.removed, w.cs.self)
  BY <1>3
<1>5. Finish(v)
  BY DEF RemoveContacts
<1> HIDE DEF w
<1>6. v \in Works /\ v.data = w.data /\ v.cs = NoChanges /\ Shown(v, {}, NoSelf)
  BY <1>4, EmitShows DEF NoSelf
<1> HIDE DEF v
<1> QED
  BY <1>4, <1>5, <1>6, FinishKeeps

\* A batch of contacts to save, which has ids enough.
LEMMA SaveContactsKeep ==
  ASSUME IInv, Alive, NEW list \in Seq(DraftsAtAll), SaveContacts(list)
  PROVE  IInv'
<1> DEFINE b == Begin
           n == Len(list)
           next == d.nextContactId
           K(i) == {v \in Works : /\ Matched(v.data) /\ Shown(v, {}, NoSelf)
                                  /\ v.cs.removed = {} /\ v.cs.self = NoSelf
                                  /\ v.data.nextContactId <= next + i}
           G == [i \in 0 .. n |-> K(i)]
           w == Each(SaveContact, b, list)
           v == EmitSharedSignals(w)
<1>1. /\ n \in Nat /\ \A i \in 1 .. n : list[i] \in DraftsAtAll
      /\ next \in Nat /\ next + n <= MaxId /\ MaxId \in Nat
  <2>1. d \in Datas /\ d.nextContactId + Len(list) <= MaxId
    BY DEF IInv, SaveContacts
  <2> QED
    BY <2>1, ElementOfSeq, BoundsAssumption DEF Datas
<1>2. \A i \in 0 .. n : G[i] = K(i)
  OBVIOUS
<1> HIDE DEF G
<1>3. b \in G[0]
  <2>1. /\ b \in Works /\ Matched(b.data) /\ Shown(b, {}, NoSelf)
        /\ b.cs.removed = {} /\ b.cs.self = NoSelf /\ b.data.nextContactId = next
    BY BeginIs
  <2>2. b \in K(0)
    <3> HIDE DEF b, next
    <3> QED
      BY <1>1, <2>1
  <2> QED
    BY <1>1, <1>2, <2>2
<1>4. ASSUME NEW i \in 1 .. n, NEW u \in G[i - 1]  PROVE SaveContact(u, list[i]) \in G[i]
  <2>1. u \in K(i - 1) /\ i - 1 \in Nat /\ i \in 0 .. n
    BY <1>1, <1>2, <1>4
  <2>2. /\ u \in Works /\ Matched(u.data) /\ Shown(u, {}, NoSelf)
        /\ u.cs.removed = {} /\ u.cs.self = NoSelf
        /\ u.data.nextContactId <= next + (i - 1)
        /\ u.data.nextContactId \in Nat
    BY <2>1 DEF Works, Datas
  <2>3. u.data.nextContactId < MaxId
    BY <1>1, <2>2
  <2>4. list[i] \in DraftsAtAll
    BY <1>1
  <2> DEFINE x == SaveContact(u, list[i])
  <2>5. /\ x \in Works /\ Matched(x.data)
        /\ x.cs.removed = u.cs.removed /\ x.cs.self = u.cs.self
        /\ x.data.nextContactId <= u.data.nextContactId + 1
        /\ Shown(x, {}, NoSelf)
    BY <2>2, <2>3, <2>4, SaveContactShows
  <2> HIDE DEF x
  <2>6. x.data.nextContactId \in Nat
    BY <2>5 DEF Works, Datas
  <2>7. x.data.nextContactId <= next + i
    <3> DEFINE a == u.data.nextContactId
               c == x.data.nextContactId
    <3>1. /\ a \in Nat /\ c \in Nat /\ next \in Nat /\ i \in Int
          /\ c <= a + 1 /\ a <= next + (i - 1)
      BY <1>1, <2>2, <2>5, <2>6
    <3> HIDE DEF a, c, next
    <3>2. c <= next + i
      BY <3>1
    <3> QED
      BY <3>2 DEF c
  <2>8. x \in K(i)
    BY <2>2, <2>5, <2>7
  <2> QED
    BY <1>2, <2>1, <2>8 DEF x
<1>5. w \in G[n]
  <2> HIDE DEF b
  <2> QED
    BY <1>3, <1>4, EachReaches
<1>6. /\ w \in Works /\ Matched(w.data) /\ Shown(w, {}, NoSelf)
      /\ w.cs.removed = {} /\ w.cs.self = NoSelf
  BY <1>1, <1>2, <1>5
<1>7. Finish(v)
  BY DEF SaveContacts
<1> HIDE DEF w
<1>8. v \in Works /\ v.data = w.data /\ v.cs = NoChanges /\ Shown(v, {}, NoSelf)
  BY <1>6, EmitShows DEF NoSelf
<1> HIDE DEF v
<1> QED
  BY <1>6, <1>7, <1>8, FinishKeeps

-----------------------------------------------------------------------------
\* The items of a batch.
LEMMA BatchesAre ==
  ASSUME NEW X, NEW Y, X \subseteq Y, NEW list \in Batches(X)
  PROVE  list \in Seq(Y)
<1>1. PICK m \in 0 .. MaxBatch : list \in [1 .. m -> X]
  BY DEF Batches, BoundedSeq, SeqOf
<1>2. m \in Nat /\ list \in [1 .. m -> Y]
  BY <1>1
<1> QED
  BY <1>2, SeqDef

\* Setting the self contact is a batch of one item.
LEMMA SetSelfKeeps ==
  ASSUME IInv, NEW id \in Ids, SetSelfContactId(id)
  PROVE  IInv'
<1> DEFINE b == Begin
           w == [b EXCEPT !.data.selfContactId = id, !.cs.self = <<d.selfContactId, id>>]
           v == EmitSharedSignals(w)
<1>1. Alive
  BY DEF SetSelfContactId
<1>2. /\ b \in Works /\ b.data = d /\ Matched(b.data) /\ Shown(b, {}, NoSelf)
      /\ b.cs.touched = {} /\ b.cs.removed = {} /\ b.cs.self = NoSelf
  BY <1>1, BeginIs
<1>3. /\ d \in Datas /\ b.cs \in ChangeSets /\ d.selfContactId \in Ids
  BY <1>1, <1>2 DEF Works, IInv, Datas
<1>4. Finish(v)
  BY DEF SetSelfContactId
<1> DEFINE data == [d EXCEPT !.selfContactId = id]
           cs == [b.cs EXCEPT !.self = <<d.selfContactId, id>>]
<1> HIDE DEF b
<1>5. data \in Datas /\ Adjusted([d EXCEPT !.selfContactId = id], data, {})
      /\ data.contacts = d.contacts /\ data.contactIds = d.contactIds
      /\ data.refCount = d.refCount /\ data.sharedEngines = d.sharedEngines
      /\ data.selfContactId = id /\ data.nextContactId = d.nextContactId
  BY <1>3 DEF Datas, Adjusted
<1>6. cs \in ChangeSets /\ cs.touched = {} /\ cs.removed = {}
      /\ cs.self = <<d.selfContactId, id>>
  BY <1>2, <1>3 DEF ChangeSets
<1>7. w = [b EXCEPT !.data = data, !.cs = cs]
  BY <1>2
<1> HIDE DEF data, cs, w
<1>8. w \in Works /\ w.data = data /\ w.cs = cs /\ w.views = b.views
  BY <1>2, <1>5, <1>6, <1>7 DEF Works
<1>9. Matched(data)
  BY <1>2, <1>5 DEF Matched
<1>10. \A x : Contact(data, x) = Contact(d, x)
  BY <1>5 DEF Contact, IndexOf
<1>11. Shown(w, {}, w.cs.self)
  BY <1>2, <1>5, <1>6, <1>8, <1>10 DEF Shown, NoSelf
<1>12. v \in Works /\ v.data = w.data /\ v.cs = NoChanges /\ Shown(v, {}, NoSelf)
  BY <1>6, <1>8, <1>9, <1>11, EmitShows DEF NoSelf
<1> HIDE DEF v
<1>13. Matched(v.data)
  BY <1>8, <1>9, <1>12
<1> QED
  BY <1>4, <1>12, <1>13, FinishKeeps

\* An engine that joins fetches everything.
LEMMA CreateKeeps ==
  ASSUME IInv, NEW e \in Engines, Create(e)
  PROVE  IInv'
<1> DEFINE data == IF Alive THEN [d EXCEPT !.refCount = @ + 1] ELSE EmptyData
           shared == data.sharedEngines \cup {e}
           after == [data EXCEPT !.sharedEngines = shared]
           view == [contacts |-> [id \in LocalIds |-> Contact(data, id)],
                    selfContactId |-> data.selfContactId]
<1>1. d' = after /\ views' = [views EXCEPT ![e] = view]
      /\ held' = held /\ undefined' = undefined
  BY DEF Create
<1>2. /\ data \in Datas
      /\ data.refCount = Cardinality(shared)
      /\ Len(data.contacts) = Len(data.contactIds) /\ IsInjective(data.contactIds)
      /\ \A id \in ToSet(data.contactIds) : id <= data.nextContactId
      /\ UpToDate(data, views)
  <2>1. CASE Alive
    <3>1. d \in Datas /\ Matched(d) /\ UpToDate(d, views) /\ e \notin d.sharedEngines
      BY <2>1 DEF IInv, Create
    <3>2. /\ data \in Datas /\ data.refCount = d.refCount + 1
          /\ data.sharedEngines = d.sharedEngines
          /\ data.contacts = d.contacts /\ data.contactIds = d.contactIds
          /\ data.nextContactId = d.nextContactId /\ data.selfContactId = d.selfContactId
      <4> DEFINE count == d.refCount + 1
      <4>1. count \in Int
        BY <3>1 DEF Datas
      <4>2. data = [d EXCEPT !.refCount = count]
        BY <2>1
      <4> HIDE DEF count, data
      <4>3. /\ data \in Datas /\ data.refCount = count
            /\ data.sharedEngines = d.sharedEngines
            /\ data.contacts = d.contacts /\ data.contactIds = d.contactIds
            /\ data.nextContactId = d.nextContactId /\ data.selfContactId = d.selfContactId
        BY <3>1, <4>1, <4>2 DEF Datas
      <4> QED
        BY <4>3 DEF count
    <3> HIDE DEF data
    <3>3. Cardinality(d.sharedEngines \cup {e}) = Cardinality(d.sharedEngines) + 1
      <4>1. IsFiniteSet(d.sharedEngines)
        BY <3>1, EnginesAssumption, FS_Subset DEF Datas
      <4> QED
        BY <3>1, <4>1, FS_AddElement
    <3>4. \A x : Contact(data, x) = Contact(d, x)
      BY <3>2 DEF Contact, IndexOf
    <3> QED
      BY <3>1, <3>2, <3>3, <3>4 DEF Matched, UpToDate
  <2>2. CASE ~Alive
    <3>1. data = EmptyData
      BY <2>2
    <3>2. EmptyData \in Datas
      BY DEF EmptyData, Datas, Ids
    <3>3. Cardinality({e}) = 1
      BY FS_Singleton
    <3>4. shared = {e} /\ data.refCount = 1 /\ data.contacts = <<>> /\ data.contactIds = <<>>
          /\ data.sharedEngines = {}
      BY <3>1 DEF EmptyData
    <3> HIDE DEF data, shared
    <3>5. ToSet(data.contactIds) = {} /\ IsInjective(data.contactIds)
          /\ Len(data.contacts) = Len(data.contactIds)
      BY <3>4 DEF ToSet, IsInjective
    <3> QED
      BY <3>1, <3>2, <3>3, <3>4, <3>5 DEF UpToDate
  <2> QED
    BY <2>1, <2>2
<1> HIDE DEF data
<1>3. /\ after \in Datas /\ after.sharedEngines = shared /\ shared # {}
      /\ after.contacts = data.contacts /\ after.contactIds = data.contactIds
      /\ after.refCount = data.refCount /\ after.nextContactId = data.nextContactId
      /\ after.selfContactId = data.selfContactId
  <2>1. shared \subseteq Engines /\ shared # {}
    BY <1>2 DEF Datas
  <2> HIDE DEF shared
  <2> QED
    BY <1>2, <2>1 DEF Datas
<1> HIDE DEF after
<1>4. Matched(after)
  BY <1>2, <1>3 DEF Matched
<1>5. \A x : Contact(after, x) = Contact(data, x)
  BY <1>3 DEF Contact, IndexOf
<1>6. \A id \in LocalIds : Contact(after, id) \in Stored \cup {Absent}
  BY <1>3, <1>4, ContactIs
<1>7. view \in ViewsOfOne
  BY <1>2, <1>5, <1>6 DEF ViewsOfOne, Datas
<1>8. view.selfContactId = after.selfContactId
      /\ \A id \in LocalIds : view.contacts[id] = Contact(after, id)
  BY <1>3, <1>5
<1> HIDE DEF view, shared
<1>9. views \in [Engines -> ViewsOfOne]
  BY DEF IInv
<1>10. views' \in [Engines -> ViewsOfOne] /\ views'[e] = view
       /\ \A x \in Engines : x # e => views'[x] = views[x]
  BY <1>1, <1>7, <1>9
<1>11. UpToDate(after, views')
  <2> DEFINE vs == views'
  <2>1. /\ vs[e] = view /\ \A x \in Engines : x # e => vs[x] = views[x]
        /\ after.sharedEngines \subseteq Engines
    BY <1>3, <1>10 DEF Datas
  <2> HIDE DEF vs
  <2>2. UpToDate(after, vs)
    BY <1>2, <1>3, <1>5, <1>8, <2>1 DEF UpToDate, shared
  <2> QED
    BY <2>2 DEF vs
<1> QED
  BY <1>1, <1>3, <1>4, <1>10, <1>11 DEF IInv

\* An engine that leaves.
LEMMA DestroyKeeps ==
  ASSUME IInv, NEW e \in Engines, Destroy(e)
  PROVE  IInv'
<1> DEFINE after == Left(d, e)
           shared == d.sharedEngines \ {e}
<1>1. /\ d \in Datas /\ Matched(d) /\ UpToDate(d, views) /\ e \in d.sharedEngines
      /\ views' = [views EXCEPT ![e] = NoView] /\ held' = held /\ undefined' = undefined
      /\ views \in [Engines -> ViewsOfOne]
  BY DEF IInv, Destroy
<1>2. NoView \in ViewsOfOne
  BY DEF NoView, ViewsOfOne, Ids
<1>3. views' \in [Engines -> ViewsOfOne] /\ \A x \in Engines : x # e => views'[x] = views[x]
  BY <1>1, <1>2
<1>4. CASE d.refCount = 1
  <2>1. d' = NoData
    BY <1>4 DEF Destroy
  <2> QED
    BY <1>1, <1>3, <2>1 DEF IInv, Alive
<1>5. CASE d.refCount # 1
  <2>1. d' = after
    BY <1>5 DEF Destroy
  <2>2. IsFiniteSet(d.sharedEngines)
    BY <1>1, EnginesAssumption, FS_Subset DEF Datas
  <2>3. /\ Cardinality(shared) = d.refCount - 1 /\ IsFiniteSet(shared)
        /\ shared \subseteq Engines
    BY <1>1, <2>2, FS_RemoveElement DEF Matched, Datas
  <2>4. shared # {}
    <3>1. d.refCount - 1 # 0
      BY <1>1, <1>5 DEF Datas
    <3> QED
      BY <2>3, <3>1, FS_EmptySet
  <2> DEFINE count == d.refCount - 1
  <2>5. count \in Int
    BY <1>1 DEF Datas
  <2>6. after = [d EXCEPT !.refCount = count, !.sharedEngines = shared]
    BY DEF Left
  <2> HIDE DEF after, shared, count
  <2>7. /\ after \in Datas /\ after.sharedEngines = shared /\ after.refCount = count
        /\ after.contacts = d.contacts /\ after.contactIds = d.contactIds
        /\ after.nextContactId = d.nextContactId /\ after.selfContactId = d.selfContactId
    BY <1>1, <2>3, <2>5, <2>6 DEF Datas
  <2>8. Matched(after)
    BY <1>1, <2>3, <2>4, <2>7 DEF Matched, count
  <2>9. \A x : Contact(after, x) = Contact(d, x)
    BY <2>7 DEF Contact, IndexOf
  <2>10. UpToDate(after, views')
    <3> DEFINE vs == views'
    <3>1. /\ \A x \in Engines : x # e => vs[x] = views[x]
          /\ shared \subseteq Engines /\ shared = d.sharedEngines \ {e}
      BY <1>3, <2>3 DEF shared
    <3> HIDE DEF vs
    <3>2. UpToDate(after, vs)
      BY <1>1, <2>7, <2>9, <3>1 DEF UpToDate
    <3> QED
      BY <3>2 DEF vs
  <2> QED
    BY <1>1, <1>3, <2>1, <2>7, <2>8, <2>10 DEF IInv
<1> QED
  BY <1>4, <1>5

-----------------------------------------------------------------------------
\* A copy is of its type.
LEMMA DraftsAre ==
  ASSUME IInv
  PROVE  Drafts \subseteq DraftsAtAll
<1>1. \A h \in {held} \ {Nothing} :
        h.id \in LocalIds /\ h.contact.relationships \in Seq(Relationships)
  BY DEF IInv, Copies, Stored
<1>2. <<>> \in Seq(Relationships)
  OBVIOUS
<1>3. ASSUME NEW t \in ContactTypes, NEW v \in BOOLEAN
      PROVE  [id |-> NoId, type |-> t, relationships |-> <<>>, valid |-> v] \in DraftsAtAll
  BY <1>2 DEF DraftsAtAll, Ids
<1>4. ASSUME NEW h \in {held} \ {Nothing}, NEW t \in ContactTypes
      PROVE  [id |-> h.id, type |-> t, relationships |-> h.contact.relationships,
              valid |-> TRUE] \in DraftsAtAll
  BY <1>1 DEF DraftsAtAll, Ids
<1> QED
  BY <1>3, <1>4 DEF Drafts

\* Every step keeps it.
LEMMA IInvKept ==
  ASSUME IInv, [Next]_vars
  PROVE  IInv'
<1>1. CASE \E list \in Batches(Drafts) : SaveContacts(list)
  <2>1. PICK list \in Batches(Drafts) : SaveContacts(list)
    BY <1>1
  <2>2. list \in Seq(DraftsAtAll)
    BY DraftsAre, BatchesAre
  <2>3. Alive
    BY <2>1 DEF SaveContacts
  <2> QED
    BY <2>1, <2>2, <2>3, SaveContactsKeep
<1>2. CASE \E id \in LocalIds : Fetch(id)
  <2>1. PICK id \in LocalIds : Fetch(id)
    BY <1>2
  <2>2. /\ Alive /\ d' = d /\ views' = views /\ undefined' = undefined
        /\ held' = [id |-> id, contact |-> Contact(d, id)] /\ Contact(d, id) # Absent
    BY <2>1 DEF Fetch
  <2>3. d \in Datas /\ Matched(d)
    BY <2>2 DEF IInv
  <2>4. Contact(d, id) \in Stored
    BY <2>2, <2>3, ContactIs
  <2>5. held' \in Copies
    BY <2>2, <2>4 DEF Copies
  <2> QED
    BY <2>2, <2>5 DEF IInv, Alive
<1>3. CASE \E list \in Batches(LocalIds) : RemoveContacts(list)
  <2>1. PICK list \in Batches(LocalIds) : RemoveContacts(list)
    BY <1>3
  <2>2. list \in Seq(LocalIds)
    BY BatchesAre
  <2>3. Alive
    BY <2>1 DEF RemoveContacts
  <2> QED
    BY <2>1, <2>2, <2>3, RemoveContactsKeep
<1>4. CASE \E list \in Batches(Relationships) : SaveRelationships(list)
  <2>1. PICK list \in Batches(Relationships) : SaveRelationships(list)
    BY <1>4
  <2>2. list \in Seq(Relationships)
    BY BatchesAre
  <2>3. Alive /\ Finish(EmitSharedSignals(Each(SaveRelationship, Begin, list)))
    BY <2>1 DEF SaveRelationships
  <2> QED
    BY <2>2, <2>3, RelationshipsKeep
<1>5. CASE Alive /\ \E list \in Batches(ToSet(d.relationships)) : RemoveRelationships(list)
  <2>1. PICK list \in Batches(ToSet(d.relationships)) : RemoveRelationships(list)
    BY <1>5
  <2>2. ToSet(d.relationships) \subseteq Relationships
    <3>1. d.relationships \in Seq(Relationships)
      BY <1>5 DEF IInv, Datas
    <3>2. DOMAIN d.relationships = 1 .. Len(d.relationships)
          /\ \A i \in 1 .. Len(d.relationships) : d.relationships[i] \in Relationships
      BY <3>1, LenProperties, ElementOfSeq
    <3> QED
      BY <3>2 DEF ToSet
  <2>3. list \in Seq(Relationships)
    BY <2>2, BatchesAre
  <2>4. Finish(EmitSharedSignals(Each(RemoveRelationship, Begin, list)))
    BY <2>1 DEF RemoveRelationships, RemoveAll
  <2> QED
    BY <1>5, <2>3, <2>4, RelationshipsKeep
<1>6. CASE \E id \in LocalIds \cup {NoId} : SetSelfContactId(id)
  BY <1>6, SetSelfKeeps DEF Ids
<1>7. CASE \E e \in Engines : Create(e) \/ Destroy(e)
  BY <1>7, CreateKeeps, DestroyKeeps
<1>8. CASE UNCHANGED vars
  <2>1. d' = d /\ views' = views /\ held' = held /\ undefined' = undefined
    BY <1>8 DEF vars
  <2> QED
    BY <2>1 DEF IInv, Alive
<1> QED
  BY <1>1, <1>2, <1>3, <1>4, <1>5, <1>6, <1>7, <1>8 DEF Next

\* It holds at the start.
LEMMA IInvInit ==
  ASSUME Init
  PROVE  IInv
<1>1. ~Alive
  BY DEF Init, Alive
<1>2. views \in [Engines -> ViewsOfOne]
  BY DEF Init, NoView, ViewsOfOne, Ids
<1> QED
  BY <1>1, <1>2 DEF Init, IInv, Copies

LEMMA IInvAlways == Spec => []IInv
<1>1. IInv /\ [Next]_vars => IInv'
  BY IInvKept
<1> QED
  BY IInvInit, <1>1, PTL DEF Spec

\* The lists of a store match, no id is given twice, and the store lives as long as
\* an engine uses it.
THEOREM TypeCorrect == Spec => []TypeOK
<1>1. IInv => TypeOK
  <2> SUFFICES ASSUME IInv, Alive
               PROVE  /\ Len(d.contacts) = Len(d.contactIds) /\ IsInjective(d.contactIds)
                      /\ d.refCount = Cardinality(d.sharedEngines) /\ d.sharedEngines # {}
                      /\ \A id \in ToSet(d.contactIds) :
                           id \in LocalIds /\ id <= d.nextContactId
    BY DEF TypeOK
  <2>1. d \in Datas /\ Matched(d)
    BY DEF IInv
  <2>2. \A id \in ToSet(d.contactIds) : id \in LocalIds
    BY <2>1, ContactIs
  <2> QED
    BY <2>1, <2>2 DEF Matched
<1> QED
  BY IInvAlways, <1>1, PTL

\* Every observer that follows the signals knows every contact as it is stored.
THEOREM ObserversFollow == Spec => []ObserversUpToDate
<1>1. IInv => ObserversUpToDate
  BY DEF IInv, UpToDate, ObserversUpToDate
<1> QED
  BY IInvAlways, <1>1, PTL

-----------------------------------------------------------------------------
\* No relationship is given whose first contact is of no manager: what
\* ContactsEmptyUri.cfg shows is left out.
FirstsNamed == "" \notin FirstUris

\* The lists of relationships agree, and name no contact that is not here.
Agree(data) ==
  /\ \A id \in LocalIds : data.ordered[id] = Among(data.relationships, Involving(id))
  /\ IsInjective(data.relationships)
  /\ \A r \in ToSet(data.relationships) :
       /\ r.first.uri = Own /\ r.first.id \in ToSet(data.contactIds)
       /\ r.second.uri = Own => r.second.id \in ToSet(data.contactIds)
  /\ data.selfContactId # NoId => data.selfContactId \in ToSet(data.contactIds)

\* What is stored in a list of relationships.
LEMMA ItemsAre ==
  ASSUME NEW X, NEW s \in Seq(X)
  PROVE  ToSet(s) \subseteq X
<1>1. DOMAIN s = 1 .. Len(s) /\ \A i \in 1 .. Len(s) : s[i] \in X
  BY LenProperties, ElementOfSeq
<1> QED
  BY <1>1 DEF ToSet

\* One more that was not there.
LEMMA InjectiveAppend ==
  ASSUME NEW X, NEW s \in Seq(X), IsInjective(s), NEW x \in X, x \notin ToSet(s)
  PROVE  IsInjective(Append(s, x))
<1> DEFINE u == Append(s, x)
           n == Len(s)
<1>1. /\ u \in Seq(X) /\ Len(u) = n + 1 /\ n \in Nat
      /\ \A i \in 1 .. n : u[i] = s[i]
      /\ u[n + 1] = x
  BY AppendIs
<1>2. DOMAIN s = 1 .. n
  BY LenProperties
<1> HIDE DEF u
<1>3. DOMAIN u = 1 .. n + 1
  BY <1>1, LenProperties
<1>4. /\ \A i, j \in 1 .. n : s[i] = s[j] => i = j
      /\ \A i \in 1 .. n : s[i] # x
  BY <1>2 DEF IsInjective, ToSet
<1>5. ASSUME NEW i \in 1 .. n + 1, NEW j \in 1 .. n + 1, u[i] = u[j]  PROVE i = j
  <2>1. \A k \in 1 .. n + 1 : k \in 1 .. n \/ k = n + 1
    BY <1>1
  <2> QED
    BY <1>1, <1>4, <1>5, <2>1
<1>6. IsInjective(u)
  BY <1>3, <1>5 DEF IsInjective
<1> QED
  BY <1>6 DEF u

\* A relationship that is stored is stored everywhere.
LEMMA RelatedAgrees ==
  ASSUME NEW data \in Datas, Matched(data), Agree(data), NEW r \in Relationships,
         r \notin ToSet(data.relationships),
         r.first.uri = Own, r.first.id \in ToSet(data.contactIds),
         r.second.uri = Own => r.second.id \in ToSet(data.contactIds)
  PROVE  Agree(Related(data, r, IndexOf(data, r.first.id), IndexOf(data, r.second.id)))
<1> DEFINE v == Related(data, r, IndexOf(data, r.first.id), IndexOf(data, r.second.id))
           q == data.relationships
           first == Append(data.ordered[r.first.id], r)
           second == Append(data.ordered[r.second.id], r)
           o == [data.ordered EXCEPT ![r.first.id] = first, ![r.second.id] = second]
<1>1. /\ v.relationships = Append(q, r) /\ v.ordered = o
      /\ v.contactIds = data.contactIds /\ v.selfContactId = data.selfContactId
  BY DEF Related, Datas
<1>2. q \in Seq(Relationships) /\ r.first.id \in LocalIds /\ r.second.id \in LocalIds
      /\ data.ordered \in [LocalIds -> Seq(Relationships)]
  BY DEF Datas, Relationships
<1> HIDE DEF v
<1>3. ASSUME NEW id \in LocalIds
      PROVE  o[id] = IF id = r.first.id \/ id = r.second.id THEN Append(data.ordered[id], r)
                     ELSE data.ordered[id]
  <2> HIDE DEF first, second
  <2>1. o[id] = IF id = r.second.id THEN second
                ELSE IF id = r.first.id THEN first ELSE data.ordered[id]
    BY <1>2
  <2> QED
    BY <2>1 DEF first, second
<1> HIDE DEF o, first, second
<1>4. ASSUME NEW id \in LocalIds
      PROVE  v.ordered[id] = Among(v.relationships, Involving(id))
  <2>1. r \in Involving(id) <=> id = r.first.id \/ id = r.second.id
    BY DEF Involving
  <2>2. Among(Append(q, r), Involving(id))
          = IF r \in Involving(id) THEN Append(Among(q, Involving(id)), r)
            ELSE Among(q, Involving(id))
    BY <1>2, AmongAppend
  <2>3. data.ordered[id] = Among(q, Involving(id))
    BY DEF Agree
  <2> QED
    BY <1>1, <1>3, <2>1, <2>2, <2>3
<1>5. IsInjective(v.relationships)
  <2>1. IsInjective(q) /\ r \notin ToSet(q)
    BY DEF Agree
  <2>2. IsInjective(Append(q, r))
    BY <1>2, <2>1, InjectiveAppend
  <2> QED
    BY <1>1, <2>2
<1>6. ToSet(v.relationships) = ToSet(q) \cup {r}
  <2>1. ToSet(Append(q, r)) = ToSet(q) \cup {r}
    BY <1>2, AppendIs
  <2> QED
    BY <1>1, <2>1
<1>7. \A x \in ToSet(v.relationships) :
         /\ x.first.uri = Own /\ x.first.id \in ToSet(v.contactIds)
         /\ x.second.uri = Own => x.second.id \in ToSet(v.contactIds)
  BY <1>1, <1>6 DEF Agree
<1>8. v.selfContactId # NoId => v.selfContactId \in ToSet(v.contactIds)
  BY <1>1 DEF Agree
<1>9. Agree(v)
  BY <1>4, <1>5, <1>7, <1>8 DEF Agree
<1> QED
  BY <1>9 DEF v

\* saveRelationship() in particular.
LEMMA SaveRelationshipAgrees ==
  ASSUME FirstsNamed, NEW w \in Works, Matched(w.data), Agree(w.data), NEW r \in Relationships
  PROVE  Agree(SaveRelationship(w, r).data)
<1> DEFINE v == SaveRelationship(w, r)
           A == Accepted(w.data, r)
           n == Named(r)
           data == Related(w.data, n, IndexOf(w.data, n.first.id), IndexOf(w.data, n.second.id))
<1>1. w.data \in Datas
  BY DEF Works
<1>2. CASE A = <<>>
  BY <1>2 DEF SaveRelationship
<1>3. CASE A # <<>>
  <2>1. /\ A[1] = n /\ n \in Relationships
        /\ n.first = r.first /\ n.second.id = r.second.id
        /\ n \notin ToSet(w.data.relationships)
        /\ n.first.uri = Own /\ n.first.id \in ToSet(w.data.contactIds)
        /\ n.second.uri = Own => n.second.id \in ToSet(w.data.contactIds)
    <3>1. r.first.uri # ""
      BY DEF Relationships, FirstsNamed
    <3> QED
      BY <1>1, <1>3, <3>1, AcceptedIs
  <2> HIDE DEF n, A
  <2>2. Agree(data)
    BY <1>1, <2>1, RelatedAgrees
  <2>3. v = w \/ v = [w EXCEPT !.undefined = TRUE]
        \/ v = [w EXCEPT !.data = data, !.cs = Touched(@, {r.first.id, r.second.id})]
    BY <1>3, <2>1 DEF SaveRelationship, A
  <2> HIDE DEF data, v
  <2>4. v.data = w.data \/ v.data = data
    BY <2>3 DEF Works
  <2> QED
    BY <2>2, <2>4 DEF v
<1> QED
  BY <1>2, <1>3

\* removeRelationship() in particular.
LEMMA RemoveRelationshipAgrees ==
  ASSUME NEW w \in Works, Matched(w.data), Agree(w.data), NEW r \in Relationships
  PROVE  /\ Agree(RemoveRelationship(w, r).data)
         /\ ToSet(RemoveRelationship(w, r).data.relationships)
              = ToSet(w.data.relationships) \ {r}
<1> DEFINE v == RemoveRelationship(w, r)
           data == w.data
           q == data.relationships
           first == RemoveFirst(data.ordered[r.first.id], r)
           p == [data.ordered EXCEPT ![r.first.id] = first]
           second == RemoveFirst(p[r.second.id], r)
           o == [data.ordered EXCEPT ![r.first.id] = RemoveFirst(@, r),
                                     ![r.second.id] = RemoveFirst(@, r)]
           i == IndexOf(data, r.first.id)
           j == IF r.second.uri = Own THEN IndexOf(data, r.second.id) ELSE -1
           c == [k \in DOMAIN data.contacts |->
                  IF k = j THEN [data.contacts[k] EXCEPT !.relationships = o[r.second.id]]
                  ELSE IF k = i THEN [data.contacts[k] EXCEPT !.relationships = o[r.first.id]]
                  ELSE data.contacts[k]]
           less == RemoveFirst(q, r)
<1>1. CASE r \notin ToSet(q)
  <2>1. v = w
    BY <1>1 DEF RemoveRelationship
  <2> QED
    BY <1>1, <2>1
<1>2. CASE r \in ToSet(q)
  <2>1. /\ q \in Seq(Relationships) /\ r.first.id \in LocalIds /\ r.second.id \in LocalIds
        /\ data.ordered \in [LocalIds -> Seq(Relationships)]
        /\ IsInjective(q)
    BY DEF Works, Datas, Relationships, Agree
  <2>2. /\ v.data.relationships = RemoveFirst(q, r) /\ v.data.ordered = o
        /\ v.data.contactIds = data.contactIds /\ v.data.selfContactId = data.selfContactId
    <3>1. v = [w EXCEPT !.data.relationships = less, !.data.ordered = o, !.data.contacts = c,
                        !.cs = Touched(@, {r.first.id, r.second.id})]
      BY <1>2 DEF RemoveRelationship
    <3> HIDE DEF less, o, c, v
    <3>2. /\ v.data.relationships = less /\ v.data.ordered = o
          /\ v.data.contactIds = w.data.contactIds
          /\ v.data.selfContactId = w.data.selfContactId
      BY <3>1 DEF Works, Datas
    <3> QED
      BY <3>2 DEF less
  <2> HIDE DEF v, data
  <2>3. IsInjective(RemoveFirst(q, r)) /\ ToSet(RemoveFirst(q, r)) = ToSet(q) \ {r}
        /\ RemoveFirst(q, r) \in Seq(Relationships)
    BY <2>1, RemoveFirstInjective, RemoveFirstType
  <2>4. ASSUME NEW id \in LocalIds
        PROVE  o[id] = Among(RemoveFirst(q, r), Involving(id))
    <3> DEFINE S == Involving(id)
               a == Among(q, S)
               b == Among(RemoveFirst(q, r), S)
    <3>1. data.ordered[id] = a
      BY DEF Agree, data
    <3>2. b = IF r \in S THEN RemoveFirst(a, r) ELSE a
      BY <1>2, <2>1, AmongRemoved
    <3>3. r \in S <=> id = r.first.id \/ id = r.second.id
      BY DEF Involving
    <3>4. RemoveFirst(b, r) = b
      <4>1. b \in Seq(Relationships) /\ r \notin ToSet(b)
        BY <2>3, AmongType
      <4> HIDE DEF b
      <4> QED
        BY <4>1, RemoveFirstIs
    <3>5. p[id] = IF id = r.first.id THEN RemoveFirst(data.ordered[id], r)
                  ELSE data.ordered[id]
      <4>1. p[id] = IF id = r.first.id THEN first ELSE data.ordered[id]
        <5> HIDE DEF first
        <5> QED
          BY <2>1
      <4> QED
        BY <4>1
    <3>6. o[id] = IF id = r.second.id THEN RemoveFirst(p[id], r) ELSE p[id]
      <4>1. p \in [LocalIds -> UNION {{p[x]} : x \in LocalIds}]
        <5>1. DOMAIN p = LocalIds /\ p = [x \in LocalIds |-> p[x]]
          BY <2>1
        <5> HIDE DEF p
        <5> QED
          BY <5>1
      <4>2. o = [p EXCEPT ![r.second.id] = second]
        OBVIOUS
      <4>3. o[id] = IF id = r.second.id THEN second ELSE p[id]
        <5> HIDE DEF o, p, second
        <5> QED
          BY <4>1, <4>2
      <4> QED
        BY <4>3
    <3> HIDE DEF o, p, a, b, S
    <3>7. CASE id = r.first.id
      BY <3>1, <3>2, <3>3, <3>4, <3>5, <3>6, <3>7 DEF b, S
    <3>8. CASE id # r.first.id
      BY <3>1, <3>2, <3>3, <3>5, <3>6, <3>8 DEF b, S
    <3> QED
      BY <3>7, <3>8
  <2> HIDE DEF o, q
  <2>5. /\ \A x \in ToSet(v.data.relationships) :
            /\ x.first.uri = Own /\ x.first.id \in ToSet(v.data.contactIds)
            /\ x.second.uri = Own => x.second.id \in ToSet(v.data.contactIds)
        /\ v.data.selfContactId # NoId => v.data.selfContactId \in ToSet(v.data.contactIds)
    BY <2>2, <2>3 DEF Agree, data, q
  <2>6. Agree(v.data)
    BY <2>2, <2>3, <2>4, <2>5 DEF Agree
  <2> QED
    BY <2>2, <2>3, <2>6 DEF v, q, data
<1> QED
  BY <1>1, <1>2

-----------------------------------------------------------------------------
\* A contact is here, or absent.
LEMMA HereIs ==
  ASSUME NEW data \in Datas, Matched(data)
  PROVE  \A id : id \in ToSet(data.contactIds) <=> Contact(data, id) # Absent
<1>1. Absent \notin Stored
  BY TypesAssumption DEF Absent, Stored
<1> QED
  BY <1>1, ContactIs

\* Saving a contact leaves the relationships alone.
LEMMA SaveContactAgrees ==
  ASSUME NEW w \in Works, Matched(w.data), Agree(w.data), NEW draft \in DraftsAtAll
  PROVE  Agree(SaveContact(w, draft).data)
<1> DEFINE v == SaveContact(w, draft)
           i == IndexOf(w.data, draft.id)
           id == NextId(w.data)
           new == [type |-> draft.type, relationships |-> draft.relationships]
           ids == Append(w.data.contactIds, id)
           c == [w.data.contacts EXCEPT ![i] = new]
           more == Append(w.data.contacts, new)
           next == w.data.nextContactId + 1
<1>1. \/ v = w
      \/ v = [w EXCEPT !.data = [@ EXCEPT !.contacts = c], !.cs = Touched(@, {draft.id}),
                       !.held = [id |-> draft.id, contact |-> new]]
      \/ v = [w EXCEPT !.data = [@ EXCEPT !.contacts = more, !.contactIds = ids,
                                          !.nextContactId = next],
                       !.cs = Touched(@, {id}), !.held = [id |-> id, contact |-> new]]
  <2>1. draft.valid \in BOOLEAN
    BY DEF DraftsAtAll
  <2> QED
    BY <2>1 DEF SaveContact
<1> HIDE DEF v, ids, new, id, i, c, more, next
<1>2. /\ v.data.relationships = w.data.relationships /\ v.data.ordered = w.data.ordered
      /\ v.data.selfContactId = w.data.selfContactId
      /\ v.data.contactIds \in {w.data.contactIds, ids}
  <2>1. \/ v.data = w.data
        \/ v.data = [w.data EXCEPT !.contacts = c]
        \/ v.data = [w.data EXCEPT !.contacts = more, !.contactIds = ids, !.nextContactId = next]
    BY <1>1 DEF Works
  <2>2. w.data \in Datas
    BY DEF Works
  <2> QED
    BY <2>1, <2>2 DEF Datas
<1>3. ToSet(w.data.contactIds) \subseteq ToSet(ids)
  <2>1. w.data.contactIds \in Seq(LocalIds \cup {id})
    <3> DEFINE s == w.data.contactIds
               Y == LocalIds \cup {id}
               m == Len(s)
    <3>1. s \in Seq(LocalIds) /\ LocalIds \subseteq Y
      BY DEF Works, Datas
    <3> HIDE DEF s, Y
    <3>2. m \in Nat /\ s \in [1 .. m -> LocalIds]
      BY <3>1, LenProperties
    <3> HIDE DEF m
    <3>3. s \in [1 .. m -> Y]
      BY <3>1, <3>2
    <3>4. s \in Seq(Y)
      BY <3>2, <3>3, SeqDef
    <3> QED
      BY <3>4 DEF s, Y
  <2> DEFINE s == w.data.contactIds
  <2> HIDE DEF s
  <2>2. ToSet(Append(s, id)) = ToSet(s) \cup {id}
    <3>1. s \in Seq(LocalIds \cup {id}) /\ id \in LocalIds \cup {id}
      BY <2>1 DEF s
    <3> QED
      BY <3>1, AppendIs
  <2> QED
    BY <2>2 DEF ids, s
<1>4. Agree(v.data)
  BY <1>2, <1>3 DEF Agree
<1> QED
  BY <1>4 DEF v

\* Removing a contact removes what it takes part in first.
LEMMA RemoveContactAgrees ==
  ASSUME FirstsNamed,
         NEW w \in Works, Matched(w.data), Agree(w.data), NEW id \in LocalIds
  PROVE  Agree(RemoveContact(w, id).data)
<1> DEFINE v == RemoveContact(w, id)
           data == w.data
           i == IndexOf(data, id)
           w0 == [w EXCEPT !.cs = NoChanges]
           S == {x \in Relationships : x.first = Local(id) \/ x.second = Local(id)}
           list == InEitherRole(data, id)
           n == Len(list)
           u == Each(RemoveRelationship, w0, list)
           r == EmitSharedSignals(u)
           selfN == IF id = data.selfContactId THEN NoId ELSE r.data.selfContactId
           after == Without(r.data, i, selfN)
<1>1. data \in Datas /\ data.relationships \in Seq(Relationships)
  BY DEF Works, Datas
<1>2. CASE i = -1
  BY <1>2 DEF RemoveContact
<1>3. CASE i # -1
  <2>1. i \in 1 .. Len(data.contactIds) /\ data.contactIds[i] = id
    <3>1. \A x : IndexOf(data, x) # -1 =>
            /\ IndexOf(data, x) \in 1 .. Len(data.contactIds)
            /\ data.contactIds[IndexOf(data, x)] = x
      BY <1>1, ContactIs
    <3> QED
      BY <1>3, <3>1
  <2>2. list \in Seq(Relationships) /\ ToSet(list) = ToSet(data.relationships) \cap S
    BY <1>1, AmongType DEF InEitherRole
  <2>3. n \in Nat /\ DOMAIN list = 1 .. n /\ \A k \in 1 .. n : list[k] \in Relationships
    BY <2>2, LenProperties, ElementOfSeq
  <2>4. w0 \in Works /\ w0.data = data
    BY DEF Works, ChangeSets, NoChanges, Ids
  <2> HIDE DEF w0, list
  <2> DEFINE K(k) == {x \in Works : /\ Relinked(w0, x) /\ Agree(x.data)
                                    /\ \A j \in 1 .. k : list[j] \notin ToSet(x.data.relationships)
                                    /\ ToSet(x.data.relationships) \subseteq
                                         ToSet(data.relationships)}
             G == [k \in 0 .. n |-> K(k)]
  <2>5. \A k \in 0 .. n : G[k] = K(k)
    OBVIOUS
  <2> HIDE DEF G, K
  <2>6. w0 \in G[0]
    <3>1. Relinked(w0, w0)
      BY DEF Relinked, Adjusted
    <3>2. w0 \in K(0)
      <4>1. 1 .. 0 = {}
        OBVIOUS
      <4> QED
        BY <2>4, <3>1, <4>1 DEF K
    <3> QED
      BY <2>3, <2>5, <3>2
  <2>7. ASSUME NEW k \in 1 .. n, NEW x \in G[k - 1]
        PROVE  RemoveRelationship(x, list[k]) \in G[k]
    <3> DEFINE y == RemoveRelationship(x, list[k])
    <3>0. x \in K(k - 1) /\ k \in 0 .. n /\ list[k] \in Relationships
      <4>1. k \in 0 .. n /\ k - 1 \in 0 .. n
        BY <2>3
      <4> QED
        BY <2>3, <2>5, <2>7, <4>1
    <3>1. /\ x \in Works /\ Relinked(w0, x) /\ Agree(x.data)
          /\ \A j \in 1 .. k - 1 : list[j] \notin ToSet(x.data.relationships)
          /\ ToSet(x.data.relationships) \subseteq ToSet(data.relationships)
          /\ k \in 0 .. n /\ list[k] \in Relationships
      BY <3>0 DEF K
    <3>2. Matched(x.data)
      <4>1. w0.data \in Datas /\ x.data \in Datas /\ Matched(w0.data)
            /\ Adjusted(w0.data, x.data, x.cs.touched)
        BY <2>4, <3>1 DEF Works, Relinked
      <4> QED
        BY <4>1, AdjustedContacts
    <3>3. y \in Works /\ Relinked(x, y)
      BY <3>1, <3>2, RemoveRelationshipRelinks
    <3>4. Agree(y.data) /\ ToSet(y.data.relationships) = ToSet(x.data.relationships) \ {list[k]}
      BY <3>1, <3>2, RemoveRelationshipAgrees
    <3> HIDE DEF y
    <3>5. Relinked(w0, y)
      BY <3>1, <3>3, RelinkedFurther
    <3>6. \A j \in 1 .. k : j \in 1 .. k - 1 \/ j = k
      BY <2>3
    <3>7. y \in K(k)
      <4>1. \A j \in 1 .. k : list[j] \notin ToSet(y.data.relationships)
        BY <3>1, <3>4, <3>6
      <4>2. ToSet(y.data.relationships) \subseteq ToSet(data.relationships)
        BY <3>1, <3>4
      <4> QED
        BY <3>3, <3>4, <3>5, <4>1, <4>2 DEF K
    <3> QED
      BY <2>5, <3>1, <3>7 DEF y
  <2>8. u \in G[n]
    <3> HIDE DEF n
    <3> QED
      BY <2>2, <2>6, <2>7, EachReaches DEF n
  <2>9. u \in K(n)
    BY <2>3, <2>5, <2>8
  <2>10. /\ u \in Works /\ Relinked(w0, u) /\ Agree(u.data)
         /\ ToSet(u.data.relationships) \subseteq ToSet(data.relationships) \ S
    <3>1. /\ u \in Works /\ Relinked(w0, u) /\ Agree(u.data)
          /\ \A j \in 1 .. n : list[j] \notin ToSet(u.data.relationships)
          /\ ToSet(u.data.relationships) \subseteq ToSet(data.relationships)
      BY <2>9 DEF K
    <3>2. \A x \in ToSet(list) : x \notin ToSet(u.data.relationships)
      BY <2>3, <3>1 DEF ToSet
    <3> QED
      BY <2>2, <3>1, <3>2
  <2> HIDE DEF u
  <2>11. /\ Matched(u.data) /\ u.data \in Datas /\ u.data.contactIds = data.contactIds
         /\ u.data.selfContactId = data.selfContactId
    <3>1. w0.data \in Datas /\ u.data \in Datas /\ Matched(w0.data)
          /\ Adjusted(w0.data, u.data, u.cs.touched)
      BY <2>4, <2>10 DEF Works, Relinked
    <3>2. Matched(u.data)
      BY <3>1, AdjustedContacts
    <3> QED
      BY <2>4, <3>1, <3>2 DEF Adjusted
  <2>12. r \in Works /\ r.data = u.data
    BY <2>10, <2>11, EmitShows
  <2> HIDE DEF r
  <2>13. /\ after \in Datas /\ Matched(after) /\ Contact(after, id) = Absent
         /\ after.selfContactId = selfN
         /\ \A x : x # id => Contact(after, x) = Contact(r.data, x)
    <3> DEFINE q == r.data
    <3>1. /\ q \in Datas /\ Matched(q) /\ i \in 1 .. Len(q.contactIds)
          /\ q.contactIds[i] = id /\ selfN \in Ids
      BY <2>1, <2>11, <2>12 DEF Datas, Ids
    <3> HIDE DEF q, selfN
    <3> QED
      BY <3>1, ContactRemoved DEF q
  <2>14. after.relationships = r.data.relationships /\ after.ordered = r.data.ordered
    BY <2>11, <2>12 DEF Without, Datas
  <2>15. v.data = after
    <3> DEFINE cs == [w.cs EXCEPT !.removed = @ \cup {id},
                        !.self = IF id = data.selfContactId THEN <<id, NoId>> ELSE @]
    <3>1. v = [r EXCEPT !.data.contacts = RemoveAt(@, i), !.data.contactIds = RemoveAt(@, i),
                        !.data.selfContactId = IF id = data.selfContactId THEN NoId ELSE @,
                        !.cs = cs]
      BY <1>3 DEF RemoveContact, RemoveAll, i, w0, list, u, r
    <3> HIDE DEF v, cs
    <3> QED
      BY <2>12, <3>1 DEF Works, Without
  <2> HIDE DEF after, v
  <2>16. \A x : x \in ToSet(after.contactIds) <=> x \in ToSet(data.contactIds) /\ x # id
    <3>1. \A x : x \in ToSet(after.contactIds) <=> Contact(after, x) # Absent
      BY <2>13, HereIs
    <3>2. \A x : x \in ToSet(r.data.contactIds) <=> Contact(r.data, x) # Absent
      BY <2>11, <2>12, HereIs
    <3> QED
      BY <2>11, <2>12, <2>13, <3>1, <3>2
  <2>17. \A x \in ToSet(after.relationships) :
            /\ x.first.uri = Own /\ x.first.id # id
            /\ x.second.uri = Own => x.second.id # id
            /\ x \in ToSet(data.relationships)
    <3> SUFFICES ASSUME NEW x \in ToSet(after.relationships)
                 PROVE  /\ x.first.uri = Own /\ x.first.id # id
                        /\ x.second.uri = Own => x.second.id # id
                        /\ x \in ToSet(data.relationships)
      OBVIOUS
    <3>1. x \in ToSet(data.relationships) /\ x \notin S
      BY <2>10, <2>12, <2>14
    <3>2. x \in Relationships
      BY <1>1, <3>1, ItemsAre
    <3>3. x.first.uri = Own
      BY <3>1 DEF Agree
    <3>4. x.first.id = id => x.first = Local(id)
      BY <3>2, <3>3 DEF Relationships, Local
    <3>5. x.second.uri = Own /\ x.second.id = id => x.second = Local(id)
      BY <3>2 DEF Relationships, Local
    <3> QED
      BY <3>1, <3>2, <3>3, <3>4, <3>5
  <2>18. \A x \in ToSet(after.relationships) :
            /\ x.first.uri = Own /\ x.first.id \in ToSet(after.contactIds)
            /\ x.second.uri = Own => x.second.id \in ToSet(after.contactIds)
    <3>1. \A x \in ToSet(data.relationships) :
            /\ x.first.id \in ToSet(data.contactIds)
            /\ x.second.uri = Own => x.second.id \in ToSet(data.contactIds)
      BY DEF Agree
    <3> HIDE DEF data
    <3> QED
      BY <2>16, <2>17, <3>1
  <2>19. after.selfContactId # NoId => after.selfContactId \in ToSet(after.contactIds)
    BY <2>11, <2>12, <2>13, <2>16 DEF Agree
  <2>20. Agree(after)
    BY <2>10, <2>12, <2>14, <2>18, <2>19 DEF Agree
  <2> QED
    BY <2>15, <2>20 DEF v
<1> QED
  BY <1>2, <1>3

-----------------------------------------------------------------------------
\* The signals leave the store alone, so what a batch has led to is what a call does.
LEMMA FinishAgrees ==
  ASSUME NEW w \in Works, Matched(w.data), Agree(w.data), Finish(EmitSharedSignals(w))
  PROVE  Agree(d')
<1> DEFINE v == EmitSharedSignals(w)
<1>1. v.data = w.data
  BY EmitShows
<1>2. d' = v.data
  BY DEF Finish
<1> HIDE DEF v
<1> QED
  BY <1>1, <1>2

\* A batch of relationships.
LEMMA RelationshipsAgreeKept ==
  ASSUME FirstsNamed, IInv, Alive, Agree(d), NEW list \in Seq(Relationships), NEW w,
         w = Each(SaveRelationship, Begin, list) \/ w = Each(RemoveRelationship, Begin, list),
         Finish(EmitSharedSignals(w))
  PROVE  Agree(d')
<1> DEFINE b == Begin
           K == {v \in Works : Matched(v.data) /\ Agree(v.data)}
<1>1. b \in K
  <2>1. b \in Works /\ Matched(b.data) /\ b.data = d
    BY BeginIs
  <2> HIDE DEF b
  <2> QED
    BY <2>1
<1>2. ASSUME NEW v \in K, NEW r \in Relationships
      PROVE  SaveRelationship(v, r) \in K /\ RemoveRelationship(v, r) \in K
  <2>1. v \in Works /\ Matched(v.data) /\ Agree(v.data) /\ v.data \in Datas
    BY DEF Works
  <2>2. /\ SaveRelationship(v, r) \in Works /\ Relinked(v, SaveRelationship(v, r))
        /\ RemoveRelationship(v, r) \in Works /\ Relinked(v, RemoveRelationship(v, r))
        /\ Agree(SaveRelationship(v, r).data) /\ Agree(RemoveRelationship(v, r).data)
    BY <2>1, SaveRelationshipRelinks, RemoveRelationshipRelinks, SaveRelationshipAgrees,
       RemoveRelationshipAgrees
  <2>3. \A u \in Works : Relinked(v, u) => Matched(u.data)
    BY <2>1, AdjustedContacts DEF Relinked, Works
  <2> QED
    BY <2>2, <2>3
<1>3. Each(SaveRelationship, b, list) \in K /\ Each(RemoveRelationship, b, list) \in K
  <2> HIDE DEF K, b
  <2> QED
    BY <1>1, <1>2, EachKeeps
<1> QED
  BY <1>3, FinishAgrees

\* A batch of removals.
LEMMA RemoveContactsAgreeKept ==
  ASSUME FirstsNamed, IInv, Alive, Agree(d), NEW list \in Seq(LocalIds),
         RemoveContacts(list)
  PROVE  Agree(d')
<1> DEFINE b == Begin
           K == {v \in Works : /\ Matched(v.data) /\ v.cs.touched = {}
                               /\ Shown(v, v.cs.removed, v.cs.self) /\ Agree(v.data)}
           w == Each(RemoveContact, b, list)
<1>1. b \in K
  <2>1. b \in Works /\ Matched(b.data) /\ b.cs.touched = {} /\ b.data = d
        /\ Shown(b, b.cs.removed, b.cs.self)
    BY BeginIs
  <2> HIDE DEF b
  <2> QED
    BY <2>1
<1>2. ASSUME NEW u \in K, NEW id \in LocalIds  PROVE RemoveContact(u, id) \in K
  <2>1. /\ u \in Works /\ Matched(u.data) /\ u.cs.touched = {}
        /\ Shown(u, u.cs.removed, u.cs.self) /\ Agree(u.data)
    OBVIOUS
  <2> DEFINE v == RemoveContact(u, id)
  <2>2. /\ v \in Works /\ Matched(v.data)
        /\ v.cs.touched = {} /\ Shown(v, v.cs.removed, v.cs.self)
    BY <2>1, RemoveContactShows
  <2>3. Agree(v.data)
    BY <2>1, RemoveContactAgrees
  <2> HIDE DEF v
  <2>4. v \in K
    BY <2>2, <2>3
  <2> QED
    BY <2>4 DEF v
<1>3. w \in K
  <2> HIDE DEF K, b
  <2> QED
    BY <1>1, <1>2, EachKeeps
<1>4. w \in Works /\ Matched(w.data) /\ Agree(w.data)
  BY <1>3
<1>5. Finish(EmitSharedSignals(w))
  BY DEF RemoveContacts
<1> HIDE DEF w
<1> QED
  BY <1>4, <1>5, FinishAgrees

\* A batch of contacts to save.
LEMMA SaveContactsAgreeKept ==
  ASSUME IInv, Alive, Agree(d), NEW list \in Seq(DraftsAtAll), SaveContacts(list)
  PROVE  Agree(d')
<1> DEFINE b == Begin
           n == Len(list)
           next == d.nextContactId
           K(i) == {v \in Works : /\ Matched(v.data) /\ Agree(v.data)
                                  /\ v.data.nextContactId <= next + i}
           G == [i \in 0 .. n |-> K(i)]
           w == Each(SaveContact, b, list)
<1>1. /\ n \in Nat /\ \A i \in 1 .. n : list[i] \in DraftsAtAll
      /\ next \in Nat /\ next + n <= MaxId /\ MaxId \in Nat
  <2>1. d \in Datas /\ d.nextContactId + Len(list) <= MaxId
    BY DEF IInv, SaveContacts
  <2> QED
    BY <2>1, ElementOfSeq, BoundsAssumption DEF Datas
<1>2. \A i \in 0 .. n : G[i] = K(i)
  OBVIOUS
<1> HIDE DEF G
<1>3. b \in G[0]
  <2>1. b \in Works /\ Matched(b.data) /\ b.data = d /\ b.data.nextContactId = next
    BY BeginIs
  <2>2. b \in K(0)
    <3> HIDE DEF b, next
    <3> QED
      BY <1>1, <2>1
  <2> QED
    BY <1>1, <1>2, <2>2
<1>4. ASSUME NEW i \in 1 .. n, NEW u \in G[i - 1]  PROVE SaveContact(u, list[i]) \in G[i]
  <2>1. u \in K(i - 1) /\ i - 1 \in Nat /\ i \in 0 .. n
    BY <1>1, <1>2, <1>4
  <2>2. /\ u \in Works /\ Matched(u.data) /\ Agree(u.data)
        /\ u.data.nextContactId <= next + (i - 1)
        /\ u.data.nextContactId \in Nat
    BY <2>1 DEF Works, Datas
  <2>3. u.data.nextContactId < MaxId
    BY <1>1, <2>2
  <2>4. list[i] \in DraftsAtAll
    BY <1>1
  <2> DEFINE x == SaveContact(u, list[i])
  <2>5. /\ x \in Works /\ Matched(x.data)
        /\ x.data.nextContactId <= u.data.nextContactId + 1
    BY <2>2, <2>3, <2>4, SaveContactShows
  <2>6. Agree(x.data)
    BY <2>2, <2>4, SaveContactAgrees
  <2> HIDE DEF x
  <2>7. x.data.nextContactId \in Nat
    BY <2>5 DEF Works, Datas
  <2>8. x.data.nextContactId <= next + i
    <3> DEFINE a == u.data.nextContactId
               c == x.data.nextContactId
    <3>1. /\ a \in Nat /\ c \in Nat /\ next \in Nat /\ i \in Int
          /\ c <= a + 1 /\ a <= next + (i - 1)
      BY <1>1, <2>2, <2>5, <2>7
    <3> HIDE DEF a, c, next
    <3>2. c <= next + i
      BY <3>1
    <3> QED
      BY <3>2 DEF c
  <2>9. x \in K(i)
    BY <2>5, <2>6, <2>8
  <2> QED
    BY <1>2, <2>1, <2>9 DEF x
<1>5. w \in G[n]
  <2> HIDE DEF b
  <2> QED
    BY <1>3, <1>4, EachReaches
<1>6. w \in Works /\ Matched(w.data) /\ Agree(w.data)
  BY <1>1, <1>2, <1>5
<1>7. Finish(EmitSharedSignals(w))
  BY DEF SaveContacts
<1> HIDE DEF w
<1> QED
  BY <1>6, <1>7, FinishAgrees

\* A store that changes nothing these lists or their contacts depend on agrees still.
LEMMA AgreeStill ==
  ASSUME NEW data, NEW after, Agree(data),
         after.relationships = data.relationships, after.ordered = data.ordered,
         after.contactIds = data.contactIds,
         after.selfContactId \in {data.selfContactId, NoId} \cup ToSet(data.contactIds)
  PROVE  Agree(after)
BY DEF Agree

\* The other operations on a store, and a store that is made.
LEMMA OthersAgreeKept ==
  ASSUME IInv, Alive => Agree(d),
         \/ \E id \in Ids : SetSelfContactId(id)
         \/ \E e \in Engines : Create(e)
         \/ \E e \in Engines : Destroy(e) /\ d.refCount # 1
  PROVE  Agree(d')
<1>1. ASSUME NEW id \in Ids, SetSelfContactId(id)  PROVE Agree(d')
  <2> DEFINE b == Begin
             w == [b EXCEPT !.data.selfContactId = id, !.cs.self = <<d.selfContactId, id>>]
  <2>1. Alive /\ Finish(EmitSharedSignals(w)) /\ (id = NoId \/ IndexOf(d, id) # -1)
    BY <1>1 DEF SetSelfContactId
  <2>2. d' = w.data
    <3> DEFINE v == EmitSharedSignals(w)
    <3>1. d' = v.data
      BY <2>1 DEF Finish
    <3>2. v.data = w.data
      <4>1. b \in Works
        BY <2>1, BeginIs
      <4> HIDE DEF b
      <4> QED
        BY <4>1 DEF EmitSharedSignals, Works
    <3> QED
      BY <3>1, <3>2
  <2>3. b \in Works /\ b.data = d
    BY <2>1, BeginIs
  <2>4. d \in Datas /\ Matched(d) /\ Agree(d)
    BY <1>1, <2>1 DEF IInv
  <2> HIDE DEF b
  <2>5. w.data = [d EXCEPT !.selfContactId = id]
    BY <2>3 DEF Works
  <2> HIDE DEF w
  <2>6. /\ w.data.relationships = d.relationships /\ w.data.ordered = d.ordered
        /\ w.data.contactIds = d.contactIds /\ w.data.selfContactId = id
    BY <2>4, <2>5 DEF Datas
  <2>7. id = NoId \/ id \in ToSet(d.contactIds)
    BY <2>1, <2>4, ContactIs
  <2>8. Agree(w.data)
    BY <2>4, <2>6, <2>7, AgreeStill
  <2> QED
    BY <2>2, <2>8
<1>2. ASSUME NEW e \in Engines, Create(e)  PROVE Agree(d')
  <2> DEFINE data == IF Alive THEN [d EXCEPT !.refCount = @ + 1] ELSE EmptyData
             shared == data.sharedEngines \cup {e}
             after == [data EXCEPT !.sharedEngines = shared]
  <2>1. d' = after
    BY <1>2 DEF Create
  <2>2. data \in Datas /\ Agree(data)
    <3>1. CASE Alive
      <4> DEFINE count == d.refCount + 1
      <4>1. d \in Datas /\ Agree(d)
        BY <3>1 DEF IInv
      <4>2. count \in Int
        BY <4>1 DEF Datas
      <4>3. data = [d EXCEPT !.refCount = count]
        BY <3>1
      <4> HIDE DEF data, count
      <4>4. data \in Datas /\ data.relationships = d.relationships /\ data.ordered = d.ordered
            /\ data.contactIds = d.contactIds /\ data.selfContactId = d.selfContactId
        BY <4>1, <4>2, <4>3 DEF Datas
      <4> QED
        BY <4>1, <4>4, AgreeStill
    <3>2. CASE ~Alive
      <4>1. data = EmptyData
        BY <3>2
      <4>2. EmptyData \in Datas
        BY DEF EmptyData, Datas, Ids
      <4>3. ToSet(<<>>) = {} /\ IsInjective(<<>>)
        BY DEF ToSet, IsInjective
      <4>4. \A S : Among(<<>>, S) = <<>>
        BY AmongNone
      <4>5. Agree(EmptyData)
        BY <4>3, <4>4 DEF EmptyData, Agree
      <4> QED
        BY <4>1, <4>2, <4>5
    <3> QED
      BY <3>1, <3>2
  <2> HIDE DEF data, shared
  <2>3. /\ after.relationships = data.relationships /\ after.ordered = data.ordered
        /\ after.contactIds = data.contactIds /\ after.selfContactId = data.selfContactId
    BY <2>2 DEF Datas
  <2> HIDE DEF after
  <2>4. Agree(after)
    BY <2>2, <2>3, AgreeStill
  <2> QED
    BY <2>1, <2>4
<1>3. ASSUME NEW e \in Engines, Destroy(e), d.refCount # 1  PROVE Agree(d')
  <2> DEFINE after == Left(d, e)
             count == d.refCount - 1
             shared == d.sharedEngines \ {e}
  <2>1. d' = after /\ d \in Datas /\ Agree(d)
    BY <1>3 DEF Destroy, IInv
  <2>2. after = [d EXCEPT !.refCount = count, !.sharedEngines = shared]
    BY DEF Left
  <2> HIDE DEF after, count, shared
  <2>3. /\ after.relationships = d.relationships /\ after.ordered = d.ordered
        /\ after.contactIds = d.contactIds /\ after.selfContactId = d.selfContactId
    BY <2>1, <2>2 DEF Datas
  <2>4. Agree(after)
    BY <2>1, <2>3, AgreeStill
  <2> QED
    BY <2>1, <2>4
<1> QED
  BY <1>1, <1>2, <1>3

\* The lists of relationships agree in every state.
AgreeInv == IInv /\ (Alive => Agree(d))

LEMMA AgreeInvKept ==
  ASSUME FirstsNamed, AgreeInv, [Next]_vars
  PROVE  AgreeInv'
<1>1. IInv'
  BY IInvKept DEF AgreeInv
<1>2. CASE \E list \in Batches(Drafts) : SaveContacts(list)
  <2>1. PICK list \in Batches(Drafts) : SaveContacts(list)
    BY <1>2
  <2>2. list \in Seq(DraftsAtAll)
    BY DraftsAre, BatchesAre DEF AgreeInv
  <2>3. Alive
    BY <2>1 DEF SaveContacts
  <2> QED
    BY <1>1, <2>1, <2>2, <2>3, SaveContactsAgreeKept DEF AgreeInv
<1>3. CASE \E id \in LocalIds : Fetch(id)
  BY <1>1, <1>3 DEF Fetch, AgreeInv, Alive
<1>4. CASE \E list \in Batches(LocalIds) : RemoveContacts(list)
  <2>1. PICK list \in Batches(LocalIds) : RemoveContacts(list)
    BY <1>4
  <2>2. list \in Seq(LocalIds)
    BY BatchesAre
  <2>3. Alive
    BY <2>1 DEF RemoveContacts
  <2> QED
    BY <1>1, <2>1, <2>2, <2>3, RemoveContactsAgreeKept DEF AgreeInv
<1>5. CASE \E list \in Batches(Relationships) : SaveRelationships(list)
  <2>1. PICK list \in Batches(Relationships) : SaveRelationships(list)
    BY <1>5
  <2>2. list \in Seq(Relationships)
    BY BatchesAre
  <2>3. Alive /\ Finish(EmitSharedSignals(Each(SaveRelationship, Begin, list)))
    BY <2>1 DEF SaveRelationships
  <2> QED
    BY <1>1, <2>2, <2>3, RelationshipsAgreeKept DEF AgreeInv
<1>6. CASE Alive /\ \E list \in Batches(ToSet(d.relationships)) : RemoveRelationships(list)
  <2>1. PICK list \in Batches(ToSet(d.relationships)) : RemoveRelationships(list)
    BY <1>6
  <2>2. ToSet(d.relationships) \subseteq Relationships
    BY <1>6, ItemsAre DEF AgreeInv, IInv, Datas
  <2>3. list \in Seq(Relationships)
    BY <2>2, BatchesAre
  <2>4. Finish(EmitSharedSignals(Each(RemoveRelationship, Begin, list)))
    BY <2>1 DEF RemoveRelationships, RemoveAll
  <2> QED
    BY <1>1, <1>6, <2>3, <2>4, RelationshipsAgreeKept DEF AgreeInv
<1>7. CASE \E id \in LocalIds \cup {NoId} : SetSelfContactId(id)
  BY <1>1, <1>7, OthersAgreeKept DEF AgreeInv, Ids
<1>8. CASE \E e \in Engines : Create(e) \/ Destroy(e)
  <2>1. PICK e \in Engines : Create(e) \/ Destroy(e)
    BY <1>8
  <2>2. CASE Destroy(e) /\ d.refCount = 1
    <3>1. ~Alive'
      BY <2>2 DEF Destroy, Alive
    <3> QED
      BY <1>1, <3>1 DEF AgreeInv
  <2>3. CASE Create(e) \/ (Destroy(e) /\ d.refCount # 1)
    BY <1>1, <2>3, OthersAgreeKept DEF AgreeInv
  <2> QED
    BY <2>1, <2>2, <2>3
<1>9. CASE UNCHANGED vars
  <2>1. d' = d
    BY <1>9 DEF vars
  <2> QED
    BY <1>1, <2>1 DEF AgreeInv, Alive
<1> QED
  BY <1>2, <1>3, <1>4, <1>5, <1>6, <1>7, <1>8, <1>9 DEF Next

\* Where a relationship's first contact is never given without a manager's URI, the
\* places it is kept in agree, and none names a contact that was removed.
THEOREM RelationshipsAgreeAlways ==
  ASSUME FirstsNamed
  PROVE  Spec => []RelationshipsAgree
<1>1. Init => AgreeInv
  BY IInvInit DEF AgreeInv, Init, Alive
<1>2. AgreeInv /\ [Next]_vars => AgreeInv'
  BY AgreeInvKept
<1>3. AgreeInv => RelationshipsAgree
  <2> SUFFICES ASSUME AgreeInv, Alive
               PROVE  /\ \A id \in LocalIds :
                           d.ordered[id] = Among(d.relationships, Involving(id))
                      /\ IsInjective(d.relationships)
                      /\ \A r \in ToSet(d.relationships) :
                           /\ Contact(d, r.first.id) # Absent
                           /\ r.second.uri = Own => Contact(d, r.second.id) # Absent
                      /\ d.selfContactId # NoId => Contact(d, d.selfContactId) # Absent
    BY DEF RelationshipsAgree
  <2>1. d \in Datas /\ Matched(d) /\ Agree(d)
    BY DEF AgreeInv, IInv
  <2>2. \A id : id \in ToSet(d.contactIds) <=> Contact(d, id) # Absent
    BY <2>1, HereIs
  <2> QED
    BY <2>1, <2>2 DEF Agree
<1> QED
  BY <1>1, <1>2, <1>3, PTL DEF Spec
=============================================================================
