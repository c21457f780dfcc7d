------------------------ MODULE SharedMemoryLayerProofs ------------------------
(***************************************************************************)
(* What holds of SharedMemoryLayer for any processes, paths and bounds.    *)
(*                                                                         *)
(* Core is the inductive invariant under everything else: the types        *)
(* (TreeTypes, HandleTypes, QueueTypes), ids that were sent (Ids), and     *)
(* where handles are and who counts them (Places).  Types and index bits   *)
(* follow from it alone.  HandleNotStuck needs that no pass is overtaken:  *)
(* a write that leaves a handle's version alone leaves the deepest node of *)
(* its path where it was (WriteKeepsClosest).  StaleHandleIsWoken needs    *)
(* also what a handle remembers of what it told last (Remembers), who is   *)
(* connected (Connected), and who will wake a process that has not been    *)
(* told (Woken), which is kept when no client subscribes at the root or to *)
(* what the server's process publishes (Apart).                            *)
(***************************************************************************)
EXTENDS SharedMemoryLayer, FiniteSetTheorems, SequenceTheorems, WellFoundedInduction, TLAPS

\* A set of naturals has a least element.
LEMMA LeastExists ==
  ASSUME NEW S \in SUBSET Nat, S # {}
  PROVE  \E k \in S : \A j \in S : k <= j
<1> DEFINE R == {x \in Nat \X Nat : x[1] < x[2]}
<1>1. OpToRel(<, Nat) = R
  BY Zenon DEF OpToRel
<1>2. IsWellFoundedOn(R, Nat)
  BY <1>1, NatLessThanWellFounded, Zenon
<1>3. PICK k \in S : \A j \in S : <<j, k>> \notin R
  <2> HIDE DEF R
  <2> QED
    BY <1>2, WFMin
<1>4. \A j \in S : j \in Nat /\ k \in Nat /\ ~(j < k)
  BY <1>3
<1> QED
  BY <1>4

\* A bounded set of naturals has a greatest element.
LEMMA GreatestExists ==
  ASSUME NEW S \in SUBSET Nat, S # {}, NEW b \in Nat, \A j \in S : j <= b
  PROVE  \E k \in S : \A j \in S : j <= k
<1> DEFINE T == {b - k : k \in S}
<1>1. T \in SUBSET Nat /\ T # {}
  <2>1. \A k \in S : k \in Nat /\ k <= b
    OBVIOUS
  <2>2. \A k \in S : b - k \in Nat
    BY <2>1
  <2>3. T \subseteq Nat
    BY <2>2
  <2>4. PICK k \in S : TRUE
    OBVIOUS
  <2>5. b - k \in T
    BY <2>4
  <2> QED
    BY <2>3, <2>5
<1>2. PICK t \in T : \A u \in T : t <= u
  <2> HIDE DEF T
  <2> QED
    BY <1>1, LeastExists
<1>3. PICK k \in S : t = b - k
  OBVIOUS
<1>4. ASSUME NEW j \in S  PROVE j <= k
  <2>1. b - j \in T
    OBVIOUS
  <2>2. b - k <= b - j
    BY <1>2, <1>3, <2>1
  <2>3. j \in Int /\ k \in Int /\ b \in Int
    BY <1>3
  <2> HIDE DEF T
  <2> QED
    BY <2>2, <2>3
<1> QED
  BY <1>3, <1>4

\* Who publishes or subscribes where.
LEMMA Pairs ==
  /\ Paths \subseteq Seq(STRING)
  /\ \A x \in Subscribe : x = <<x[1], x[2]>> /\ x[1] \in Procs /\ x[2] \in Paths
  /\ \A x \in Publish : x = <<x[1], x[2]>> /\ x[1] \in Procs /\ x[2] \in Paths
BY NamesAssumption DEF Paths

-----------------------------------------------------------------------------
(* Prefixes.                                                               *)

\* A prefix of a path is as long as it is and agrees with it.
LEMMA PrefixOf ==
  ASSUME NEW p \in Seq(STRING), NEW n \in Prefixes(p)
  PROVE  /\ n \in Seq(STRING) /\ Len(n) \in Nat /\ Len(n) <= Len(p)
         /\ \A i \in 1 .. Len(n) : n[i] = p[i]
<1>1. PICK l \in 0 .. Len(p) : n = SubSeq(p, 1, l)
  BY DEF Prefixes
<1>2. \A i \in 1 .. l : p[i] \in STRING
  BY <1>1, ElementOfSeq, LenProperties
<1>3. l \in Int /\ l >= 0 /\ l <= Len(p) /\ Len(p) \in Nat
  BY <1>1, LenProperties
<1>4. /\ SubSeq(p, 1, l) \in Seq(STRING)
      /\ Len(SubSeq(p, 1, l)) = IF 1 <= l THEN l - 1 + 1 ELSE 0
      /\ \A i \in 1 .. l - 1 + 1 : SubSeq(p, 1, l)[i] = p[1 + i - 1]
  BY <1>2, <1>3, SubSeqProperties
<1>5. Len(n) = l
  BY <1>1, <1>3, <1>4
<1>6. ASSUME NEW i \in 1 .. l  PROVE n[i] = p[i]
  BY <1>1, <1>3, <1>4
<1> QED
  BY <1>1, <1>3, <1>4, <1>5, <1>6

\* ... and whatever does is one.
LEMMA IsAPrefix ==
  ASSUME NEW p \in Seq(STRING), NEW n \in Seq(STRING), Len(n) <= Len(p),
         \A i \in 1 .. Len(n) : n[i] = p[i]
  PROVE  n \in Prefixes(p)
<1> DEFINE l == Len(n)
<1>1. l \in 0 .. Len(p) /\ Len(p) \in Nat /\ l \in Nat
  BY LenProperties
<1>2. \A i \in 1 .. l : p[i] \in STRING
  BY <1>1, ElementOfSeq
<1>3. /\ SubSeq(p, 1, l) \in Seq(STRING)
      /\ Len(SubSeq(p, 1, l)) = IF 1 <= l THEN l - 1 + 1 ELSE 0
      /\ \A i \in 1 .. l - 1 + 1 : SubSeq(p, 1, l)[i] = p[1 + i - 1]
  <2> HIDE DEF l
  <2> QED
    BY <1>1, <1>2, SubSeqProperties
<1>4. Len(SubSeq(p, 1, l)) = l
  BY <1>1, <1>3
<1>5. \A i \in 1 .. l : SubSeq(p, 1, l)[i] = n[i]
  BY <1>1, <1>3
<1>6. SubSeq(p, 1, l) = n
  BY <1>3, <1>4, <1>5, SeqEqual
<1> QED
  BY <1>1, <1>6 DEF Prefixes

\* Two prefixes of a path are prefixes one of the other.
LEMMA ShorterPrefix ==
  ASSUME NEW p \in Seq(STRING), NEW m \in Prefixes(p), NEW n \in Prefixes(p),
         Len(m) <= Len(n)
  PROVE  m \in Prefixes(n)
<1>1. /\ m \in Seq(STRING) /\ n \in Seq(STRING) /\ Len(m) \in Nat /\ Len(n) \in Nat
      /\ \A i \in 1 .. Len(m) : m[i] = p[i]
      /\ \A i \in 1 .. Len(n) : n[i] = p[i]
  BY PrefixOf
<1>2. \A i \in 1 .. Len(m) : m[i] = n[i]
  BY <1>1
<1> QED
  BY <1>1, <1>2, IsAPrefix

\* ... and one and the same when they are equally long.
LEMMA SamePrefix ==
  ASSUME NEW p \in Seq(STRING), NEW m \in Prefixes(p), NEW n \in Prefixes(p),
         Len(m) = Len(n)
  PROVE  m = n
<1>1. /\ m \in Seq(STRING) /\ n \in Seq(STRING) /\ Len(m) \in Nat /\ Len(n) \in Nat
      /\ \A i \in 1 .. Len(m) : m[i] = p[i]
      /\ \A i \in 1 .. Len(n) : n[i] = p[i]
  BY PrefixOf
<1>2. \A i \in 1 .. Len(m) : m[i] = n[i]
  BY <1>1
<1> QED
  BY <1>1, <1>2, SeqEqual

\* A prefix of a prefix, the root and the path itself are prefixes.
LEMMA MorePrefixes ==
  ASSUME NEW p \in Seq(STRING)
  PROVE  /\ Root \in Prefixes(p) /\ p \in Prefixes(p)
         /\ \A n \in Prefixes(p) : Prefixes(n) \subseteq Prefixes(p)
<1>1. Root \in Prefixes(p)
  <2>1. Root \in Seq(STRING) /\ Len(Root) = 0 /\ Len(p) \in Nat
    BY EmptySeq, LenProperties DEF Root
  <2>2. Len(Root) <= Len(p) /\ \A i \in 1 .. Len(Root) : Root[i] = p[i]
    BY <2>1
  <2> QED
    BY <2>1, <2>2, IsAPrefix
<1>2. p \in Prefixes(p)
  <2>1. Len(p) \in Nat
    BY LenProperties
  <2> QED
    BY <2>1, IsAPrefix
<1>3. ASSUME NEW n \in Prefixes(p), NEW m \in Prefixes(n)
      PROVE  m \in Prefixes(p)
  <2>1. /\ n \in Seq(STRING) /\ Len(n) \in Nat /\ Len(n) <= Len(p)
        /\ \A i \in 1 .. Len(n) : n[i] = p[i]
    BY PrefixOf
  <2>2. /\ m \in Seq(STRING) /\ Len(m) \in Nat /\ Len(m) <= Len(n)
        /\ \A i \in 1 .. Len(m) : m[i] = n[i]
    BY <2>1, PrefixOf
  <2>3. Len(p) \in Nat
    BY LenProperties
  <2>4. Len(m) <= Len(p) /\ \A i \in 1 .. Len(m) : m[i] = p[i]
    BY <2>1, <2>2, <2>3
  <2> QED
    BY <2>2, <2>4, IsAPrefix
<1> QED
  BY <1>1, <1>2, <1>3

-----------------------------------------------------------------------------
(* The tree.                                                               *)

\* The nodes of the tree: the root, and with a node its prefixes.
LEMMA AliveNodes ==
  ASSUME NEW val
  PROVE  /\ Root \in Alive(val) /\ Alive(val) \subseteq Nodes \cup {Root}
         /\ \A n \in Alive(val) : n \in Seq(STRING) /\ Prefixes(n) \subseteq Alive(val)
<1>0. Prefixes(Root) = {Root}
  <2>1. Root \in Seq(STRING) /\ Len(Root) = 0
    BY EmptySeq DEF Root
  <2>2. ASSUME NEW n \in Prefixes(Root)  PROVE n = Root
    <3>1. Len(n) \in Nat /\ Len(n) <= Len(Root)
      BY <2>1, PrefixOf
    <3>2. Len(n) = Len(Root) /\ Root \in Prefixes(Root)
      BY <2>1, <3>1, MorePrefixes
    <3> QED
      BY <2>1, <3>2, SamePrefix
  <2> QED
    BY <2>1, <2>2, MorePrefixes
<1>1. Root \in Alive(val) /\ Alive(val) \subseteq Nodes \cup {Root}
  BY DEF Alive, Nodes
<1>2. ASSUME NEW n \in Alive(val)
      PROVE  n \in Seq(STRING) /\ Prefixes(n) \subseteq Alive(val)
  <2>1. CASE n = Root
    BY <1>0, <1>1, <2>1, EmptySeq DEF Root
  <2>2. CASE n # Root
    <3>1. PICK q \in Paths : val[q] # Unset /\ n \in Prefixes(q)
      BY <2>2 DEF Alive
    <3>2. q \in Seq(STRING)
      BY Pairs
    <3>3. Prefixes(q) \subseteq Alive(val)
      BY <3>1 DEF Alive
    <3> QED
      BY <3>1, <3>2, <3>3, PrefixOf, MorePrefixes
  <2> QED
    BY <2>1, <2>2
<1> QED
  BY <1>1, <1>2

\* findClosest() finds the deepest node on the way to a path, and only that.
LEMMA ClosestIs ==
  ASSUME NEW val, NEW p \in Seq(STRING)
  PROVE  /\ Closest(val, p) \in Prefixes(p) \cap Alive(val)
         /\ \A m \in Prefixes(p) \cap Alive(val) :
              Len(m) \in Nat /\ Len(m) <= Len(Closest(val, p))
         /\ \A n \in Prefixes(p) \cap Alive(val) :
              (\A m \in Prefixes(p) \cap Alive(val) : Len(m) <= Len(n))
                => n = Closest(val, p)
<1> DEFINE S == Prefixes(p) \cap Alive(val)
           L == {Len(m) : m \in S}
<1>1. \A m \in S : m \in Prefixes(p) /\ Len(m) \in Nat /\ Len(m) <= Len(p)
  BY PrefixOf
<1>2. Root \in S
  BY MorePrefixes, AliveNodes
<1>3. L \in SUBSET Nat /\ L # {} /\ \A k \in L : k <= Len(p)
  BY <1>1, <1>2
<1>4. Len(p) \in Nat
  BY LenProperties
<1>5. \E k \in L : \A j \in L : j <= k
  <2> HIDE DEF L
  <2> QED
    BY <1>3, <1>4, GreatestExists
<1>6. \E n \in S : \A m \in S : Len(m) <= Len(n)
  BY <1>5
<1>7. Closest(val, p) \in S /\ \A m \in S : Len(m) <= Len(Closest(val, p))
  BY <1>6 DEF Closest
<1>8. ASSUME NEW n \in S, \A m \in S : Len(m) <= Len(n)
      PROVE  n = Closest(val, p)
  <2>1. Len(n) \in Nat /\ Len(Closest(val, p)) \in Nat
    BY <1>1, <1>7
  <2>2. Len(n) <= Len(Closest(val, p)) /\ Len(Closest(val, p)) <= Len(n)
    BY <1>7, <1>8
  <2>3. Len(n) = Len(Closest(val, p))
    <3> DEFINE a == Len(n)
               b == Len(Closest(val, p))
    <3>1. a \in Nat /\ b \in Nat /\ a <= b /\ b <= a
      BY <2>1, <2>2
    <3> HIDE DEF a, b
    <3>2. a = b
      BY <3>1
    <3> QED
      BY <3>2 DEF a, b
  <2>4. n \in Prefixes(p) /\ Closest(val, p) \in Prefixes(p)
    BY <1>7
  <2> QED
    BY <2>3, <2>4, SamePrefix
<1> QED
  BY <1>1, <1>7, <1>8

-----------------------------------------------------------------------------
(* The invariant.                                                          *)

Handle == [at : Nodes \cup {Nowhere}, seen : {"same", "bumped", "gone"},
           forceChange : BOOLEAN]
\* A request, and what its fields say of the client it comes from.
Requests == [kind : {"index", "add", "rem"}, path : Paths \cup {Root},
             value : Values \cup {Unset}]
Packets == [id : Nat, ops : Seq(Requests)]
Proper(c, ops) ==
  \A i \in 1 .. Len(ops) :
    ops[i].kind # "index" =>
      /\ <<c, ops[i].path>> \in Publish
      /\ ops[i].kind = "add" => ops[i].value # Unset
      /\ ops[i].kind = "rem" => ops[i].value = Unset

\* The type of every variable.
TreeTypes ==
  /\ value \in [Paths -> Values \cup {Unset}]
  /\ asked \in [Paths -> Values \cup {Unset}]
HandleTypes ==
  /\ handle \in [Subscribe -> Handle]
  /\ told \in [Subscribe -> Values \cup {Unset}]
  /\ forceChangeCount \in [Procs -> Nat]
  /\ nodeInterest \in [Clients -> [Nodes -> Nat]]
  /\ walking \in [Clients -> Nodes \cup {Nowhere}]
QueueTypes ==
  /\ serving \in [from : Procs, id : Nat, ops : Seq(Requests), any : BOOLEAN]
  /\ serving.from = Server => serving.ops = <<>>
  /\ toServer \in [Clients -> Seq(Packets)]
  /\ toClient \in [Clients -> Seq(Nat)]
  /\ todo \in [Clients -> Seq(Requests)]
  /\ lastSentId \in [Clients -> Nat] /\ lastRecvId \in [Clients -> Nat]
  /\ \A c \in Clients :
       /\ Proper(c, todo[c])
       /\ \A i \in 1 .. Len(toServer[c]) : Proper(c, toServer[c][i].ops)
  /\ Proper(serving.from, serving.ops)

\* No reply is to a packet that was not sent.
Ids ==
  \A c \in Clients :
    /\ lastSentId[c] <= MaxPacks
    /\ lastRecvId[c] <= lastSentId[c]
    /\ \A i \in 1 .. Len(toClient[c]) : toClient[c][i] <= lastSentId[c]
    /\ \A i \in 1 .. Len(toServer[c]) : toServer[c][i].id <= lastSentId[c]
    /\ serving.from = c => serving.id <= lastSentId[c]

\* Where handles are, and who counts them.
Places ==
  /\ \A x \in Subscribe :
       /\ handle[x].at = Nowhere => handle[x] = NoHandle
       /\ Held(x) => handle[x].at \in Prefixes(x[2])
       /\ handle[x].forceChange => forceChangeCount[x[1]] > 0
  /\ \A c \in Clients, n \in Nodes :
       /\ (\E x \in Subscribe : x[1] = c /\ handle[x].at = n) => nodeInterest[c][n] = 1
       /\ (\A x \in Subscribe : x[1] = c => handle[x].at # n) => nodeInterest[c][n] = 0
  /\ \A c \in Clients :
       walking[c] # Nowhere =>
         /\ c \in Overtaken
         /\ \E x \in Subscribe : x[1] = c /\ Held(x) /\ walking[c] \in Prefixes(x[2])

Core == TreeTypes /\ HandleTypes /\ QueueTypes /\ Ids /\ Places
-----------------------------------------------------------------------------
(* What the operators of the model do.                                     *)

\* A value is put at some paths and left at the others.
LEMMA PutIs ==
  ASSUME NEW f \in [Paths -> Values \cup {Unset}], NEW P, NEW v \in Values \cup {Unset}
  PROVE  /\ Put(f, P, v) \in [Paths -> Values \cup {Unset}]
         /\ \A p \in Paths : Put(f, P, v)[p] = IF p \in P THEN v ELSE f[p]
BY DEF Put

\* Setting a value makes its way and cuts nothing, removing values makes nothing.
LEMMA TreeAfter ==
  ASSUME NEW f \in [Paths -> Values \cup {Unset}]
  PROVE  /\ \A p \in Paths, v \in Values :
              Alive(Put(f, {p}, v)) = Alive(f) \cup Prefixes(p)
         /\ \A P : Alive(Put(f, P, Unset)) \subseteq Alive(f)
<1>1. ASSUME NEW p \in Paths, NEW v \in Values
      PROVE  Alive(Put(f, {p}, v)) = Alive(f) \cup Prefixes(p)
  <2>1. {q \in Paths : Put(f, {p}, v)[q] # Unset} = {q \in Paths : f[q] # Unset} \cup {p}
    BY <1>1, PutIs, ValuesAssumption
  <2> QED
    BY <2>1 DEF Alive
<1>2. ASSUME NEW P  PROVE Alive(Put(f, P, Unset)) \subseteq Alive(f)
  <2>1. {q \in Paths : Put(f, P, Unset)[q] # Unset} \subseteq {q \in Paths : f[q] # Unset}
    BY PutIs
  <2> QED
    BY <2>1 DEF Alive
<1> QED
  BY <1>1, <1>2

\* What a write bumps are nodes.
LEMMA BumpedNodes ==
  /\ \A p \in Paths : SetBumps(p) \in SUBSET Nodes
  /\ \A P : RemBumps(P) \in SUBSET Nodes
<1>1. \A p \in Paths : SetBumps(p) \in SUBSET Nodes
  BY DEF SetBumps, WayTo, Nodes
<1>2. ASSUME NEW P, NEW n \in Alive(value) \ Alive(Put(value, P, Unset))
      PROVE  Prefixes(n) \subseteq Nodes
  <2>1. n \in Nodes
    BY <1>2, AliveNodes
  <2>2. PICK q \in Paths : n \in Prefixes(q)
    BY <2>1 DEF Nodes
  <2> QED
    BY <2>2, Pairs, MorePrefixes DEF Nodes
<1> QED
  BY <1>1, <1>2 DEF RemBumps, WayTo

\* A handle in parts.
LEMMA HandleParts ==
  /\ NoHandle \in Handle /\ NoHandle.at = Nowhere /\ NoHandle.seen = "same"
  /\ NoHandle.forceChange = FALSE
  /\ \A h \in Handle : /\ h.at \in Nodes \cup {Nowhere}
                       /\ h.seen \in {"same", "bumped", "gone"}
                       /\ h.forceChange \in BOOLEAN
                       /\ h = [at |-> h.at, seen |-> h.seen, forceChange |-> h.forceChange]
BY DEF Handle, NoHandle

\* A write moves no handle: it makes some of them remember a version that is
\* no longer the node's.
LEMMA WriteIs ==
  ASSUME HandleTypes, Places, NEW val, NEW bumped \in SUBSET Nodes, Write(val, bumped)
  PROVE  /\ value' = val /\ handle' \in [Subscribe -> Handle]
         /\ \A x \in Subscribe :
              /\ handle'[x].at = handle[x].at
              /\ handle'[x].forceChange = handle[x].forceChange
              /\ ~Held(x) => handle'[x] = NoHandle
              /\ handle'[x].seen = "same" =>
                   /\ handle[x].seen = "same" /\ handle[x].at \notin bumped
                   /\ handle[x].at \notin Alive(value) \ Alive(val)
<1>1. value' = val
  BY DEF Write
<1>2. handle' \in [Subscribe -> Handle]
  BY HandleParts DEF Write, HandleTypes, Handle
<1>3. ASSUME NEW x \in Subscribe
      PROVE  /\ handle'[x].at = handle[x].at
             /\ handle'[x].forceChange = handle[x].forceChange
             /\ ~Held(x) => handle'[x] = NoHandle
             /\ handle'[x].seen = "same" =>
                  /\ handle[x].seen = "same" /\ handle[x].at \notin bumped
                  /\ handle[x].at \notin Alive(value) \ Alive(val)
  <2> DEFINE h == handle[x]
             s == IF h.at \in Alive(value) \ Alive(val) THEN "gone"
                  ELSE IF h.at \in bumped /\ h.seen = "same" THEN "bumped" ELSE h.seen
  <2>1. h \in Handle
    BY DEF HandleTypes
  <2>2. handle'[x] = [h EXCEPT !.seen = s]
    BY DEF Write
  <2>3. handle'[x] = [at |-> h.at, seen |-> s, forceChange |-> h.forceChange]
    <3> HIDE DEF s
    <3> QED
      BY <2>1, <2>2 DEF Handle
  <2>4. ASSUME ~Held(x)  PROVE handle'[x] = NoHandle
    <3>1. h = NoHandle
      BY <2>4 DEF Held
    <3>2. Nowhere \notin Nodes \cup {Root} /\ Root # Nowhere
      BY NamesAssumption DEF Nowhere, Root
    <3>3. h.at \notin Alive(value) /\ h.at \notin bumped
      BY <3>1, <3>2, AliveNodes, HandleParts
    <3>4. s = h.seen
      BY <3>3
    <3> HIDE DEF s
    <3> QED
      BY <2>3, <3>1, <3>4 DEF NoHandle
  <2>5. ASSUME s = "same"
        PROVE  /\ h.seen = "same" /\ h.at \notin bumped
               /\ h.at \notin Alive(value) \ Alive(val)
    BY <2>5
  <2> HIDE DEF s
  <2> QED
    BY <2>3, <2>4, <2>5
<1> QED
  BY <1>1, <1>2, <1>3

\* A process has one handle at most: what a pass finds is that one's node.
LEMMA MineIs ==
  /\ \A x \in Subscribe : Held(x) =>
       /\ {y \in Subscribe : y[1] = x[1] /\ Held(y)} = {x}
       /\ HandleOf(x[1]) = handle[x] /\ Found(x[1]) = Refreshed(handle[x], x[2]).at
  /\ \A q : (\A x \in Subscribe : x[1] = q => ~Held(x)) =>
       HandleOf(q) = NoHandle /\ Found(q) = Nowhere
<1>1. ASSUME NEW x \in Subscribe, Held(x)
      PROVE  {y \in Subscribe : y[1] = x[1] /\ Held(y)} = {x}
  BY <1>1, OneHandle
<1>2. ASSUME NEW x \in Subscribe, Held(x)
      PROVE  /\ HandleOf(x[1]) = handle[x]
             /\ Found(x[1]) = Refreshed(handle[x], x[2]).at
  BY <1>1, <1>2 DEF HandleOf, Found
<1>3. ASSUME NEW q, \A x \in Subscribe : x[1] = q => ~Held(x)
      PROVE  HandleOf(q) = NoHandle /\ Found(q) = Nowhere
  <2>1. {y \in Subscribe : y[1] = q /\ Held(y)} = {}
    BY <1>3
  <2> QED
    BY <2>1 DEF HandleOf, Found
<1> QED
  BY <1>1, <1>2, <1>3

\* A pass over the handles of a process settles its handle, if it has one, and
\* signals the change it finds.
LEMMA EmitIs ==
  ASSUME HandleTypes, TreeTypes, Places, NEW q \in Procs, NEW at \in Nodes \cup {Nowhere},
         Emit(q, at), \A x \in Subscribe : x[1] = q /\ Held(x) => at \in Nodes
  PROVE  /\ handle' \in [Subscribe -> Handle]
         /\ told' \in [Subscribe -> Values \cup {Unset}]
         /\ forceChangeCount' \in [Procs -> Nat]
         /\ \A x \in Subscribe :
              IF x[1] = q /\ Held(x)
              THEN /\ handle'[x] = [at |-> at, seen |-> "same", forceChange |-> FALSE]
                   /\ SignalForced(handle[x], at, x[2]) => told'[x] = value[x[2]]
                   /\ ~SignalForced(handle[x], at, x[2]) => told'[x] = told[x]
              ELSE handle'[x] = handle[x] /\ told'[x] = told[x]
         /\ \A r \in Procs : r # q => forceChangeCount'[r] = forceChangeCount[r]
<1> DEFINE mine == {x \in Subscribe : x[1] = q /\ Held(x)}
           forced == {x \in mine : handle[x].forceChange}
<1>1. /\ handle' = [x \in Subscribe |->
            IF x \in mine THEN [at |-> at, seen |-> "same", forceChange |-> FALSE]
                          ELSE handle[x]]
      /\ told' = [x \in Subscribe |->
            IF x \in mine /\ SignalForced(handle[x], at, x[2]) THEN value[x[2]]
                                                              ELSE told[x]]
      /\ forceChangeCount' = [forceChangeCount EXCEPT ![q] = @ - Cardinality(forced)]
  BY DEF Emit
<1>2. ASSUME NEW x \in Subscribe
      PROVE  IF x[1] = q /\ Held(x)
             THEN /\ handle'[x] = [at |-> at, seen |-> "same", forceChange |-> FALSE]
                  /\ SignalForced(handle[x], at, x[2]) => told'[x] = value[x[2]]
                  /\ ~SignalForced(handle[x], at, x[2]) => told'[x] = told[x]
             ELSE handle'[x] = handle[x] /\ told'[x] = told[x]
  BY <1>1
<1>3. handle' \in [Subscribe -> Handle]
  BY <1>1 DEF HandleTypes, Handle
<1>4. told' \in [Subscribe -> Values \cup {Unset}]
  BY <1>1, Pairs DEF HandleTypes, TreeTypes
<1>5. Cardinality(forced) \in Nat /\ forceChangeCount[q] - Cardinality(forced) \in Nat
  <2>1. forceChangeCount[q] \in Nat
    BY DEF HandleTypes
  <2>2. CASE forced = {}
    <3>1. Cardinality(forced) = 0
      BY <2>2, FS_EmptySet
    <3> HIDE DEF forced
    <3> QED
      BY <2>1, <3>1
  <2>3. CASE forced # {}
    <3>1. PICK x \in forced : TRUE
      BY <2>3
    <3>2. forced = {x}
      BY <3>1, OneHandle
    <3>3. Cardinality(forced) = 1
      <4> HIDE DEF forced
      <4> QED
        BY <3>2, FS_Singleton
    <3>4. forceChangeCount[q] > 0
      BY <3>1 DEF Places
    <3> HIDE DEF forced
    <3> QED
      BY <2>1, <3>3, <3>4
  <2> QED
    BY <2>2, <2>3
<1>6. /\ forceChangeCount' \in [Procs -> Nat]
      /\ \A r \in Procs : r # q => forceChangeCount'[r] = forceChangeCount[r]
  <2> HIDE DEF forced
  <2> QED
    BY <1>1, <1>5 DEF HandleTypes
<1> QED
  BY <1>2, <1>3, <1>4, <1>6

\* Where a refreshed handle is.
LEMMA RefreshedIs ==
  ASSUME HandleTypes, Places, NEW x \in Subscribe
  PROVE  LET r == Refreshed(handle[x], x[2])
         IN  /\ r \in Handle /\ r.seen = "same" /\ r.forceChange = handle[x].forceChange
             /\ handle[x].seen = "same" => r.at = handle[x].at
             /\ handle[x].seen # "same" => r.at = Closest(value, x[2])
             /\ Held(x) => r.at \in Prefixes(x[2]) /\ r.at \in Nodes
<1> DEFINE h == handle[x]
           c == Closest(value, x[2])
           a == IF h.seen = "same" THEN h.at ELSE c
<1>1. h \in Handle
  BY DEF HandleTypes
<1>2. c \in Prefixes(x[2]) /\ Prefixes(x[2]) \subseteq Nodes
  BY ClosestIs, Pairs DEF Nodes
<1>3. Refreshed(h, x[2]) = [at |-> a, seen |-> "same", forceChange |-> h.forceChange]
  <2>1. Refreshed(h, x[2]) = [h EXCEPT !.at = a, !.seen = "same"]
    BY DEF Refreshed, StaysIfSame
  <2> HIDE DEF a, h
  <2> QED
    BY <1>1, <2>1 DEF Handle
<1>4. a \in Nodes \cup {Nowhere}
  BY <1>1, <1>2 DEF Handle
<1>5. Held(x) => a \in Prefixes(x[2])
  BY <1>2 DEF Places
<1>6. Refreshed(h, x[2]) \in Handle
  <2> HIDE DEF a, h
  <2> QED
    BY <1>1, <1>3, <1>4 DEF Handle
<1> QED
  BY <1>2, <1>3, <1>5, <1>6

\* The count of one client's nodes after its handle has moved.
LEMMA CountedIs ==
  ASSUME HandleTypes, Places, NEW x \in Subscribe, x[1] \in Clients,
         Counted(x[1], handle[x], handle'[x].at),
         \A y \in Subscribe : y # x => handle'[y].at = handle[y].at
  PROVE  /\ nodeInterest' \in [Clients -> [Nodes -> Nat]]
         /\ \A c \in Clients, n \in Nodes :
              /\ (\E y \in Subscribe : y[1] = c /\ handle'[y].at = n)
                   => nodeInterest'[c][n] = 1
              /\ (\A y \in Subscribe : y[1] = c => handle'[y].at # n)
                   => nodeInterest'[c][n] = 0
<1>1. ASSUME NEW c \in Clients, c # x[1]
      PROVE  /\ nodeInterest'[c] = nodeInterest[c]
             /\ \A y \in Subscribe : y[1] = c => handle'[y].at = handle[y].at
  BY <1>1 DEF Counted
<1>2. nodeInterest'[x[1]] = Recounted(nodeInterest[x[1]], handle[x], handle'[x].at)
  BY DEF Counted
<1>3. ASSUME NEW n \in Nodes
      PROVE  nodeInterest'[x[1]][n] = IF n = handle'[x].at THEN 1 ELSE 0
  <2>1. nodeInterest[x[1]][n] = IF n = handle[x].at THEN 1 ELSE 0
    BY OneHandle DEF Places
  <2>2. nodeInterest'[x[1]][n] = nodeInterest[x[1]][n]
          + (IF n = handle'[x].at THEN 1 ELSE 0) - (IF n = handle[x].at THEN 1 ELSE 0)
    BY <1>2 DEF Recounted
  <2> QED
    BY <2>1, <2>2
<1>4. nodeInterest' \in [Clients -> [Nodes -> Nat]]
  <2>1. nodeInterest'[x[1]] \in [Nodes -> Nat]
    BY <1>2, <1>3 DEF Recounted
  <2>2. \A c \in Clients : nodeInterest'[c] \in [Nodes -> Nat]
    BY <1>1, <2>1 DEF HandleTypes
  <2>3. nodeInterest' = [c \in Clients |-> nodeInterest'[c]]
    BY DEF Counted
  <2> QED
    BY <2>2, <2>3
<1>5. ASSUME NEW c \in Clients, NEW n \in Nodes
      PROVE  /\ (\E y \in Subscribe : y[1] = c /\ handle'[y].at = n)
                   => nodeInterest'[c][n] = 1
             /\ (\A y \in Subscribe : y[1] = c => handle'[y].at # n)
                   => nodeInterest'[c][n] = 0
  <2>1. CASE c = x[1]
    BY <1>3, <2>1, OneHandle
  <2>2. CASE c # x[1]
    BY <1>1, <2>2 DEF Places
  <2> QED
    BY <2>1, <2>2
<1> QED
  BY <1>4, <1>5

-----------------------------------------------------------------------------
(* What the steps do to the tree and to the handles.                       *)

\* Nothing; a write of the server's; a pass over the handles of the server's
\* process; the end of a client's pass; the end of a client.
Kept ==
  /\ value' = value /\ handle' = handle /\ told' = told /\ walking' = walking
  /\ forceChangeCount' = forceChangeCount /\ nodeInterest' = nodeInterest
Written ==
  /\ \/ \E p \in Paths, v \in Values : SetItem(p, v)
     \/ \E P : RemItems(P)
  /\ told' = told /\ forceChangeCount' = forceChangeCount
  /\ nodeInterest' = nodeInterest /\ walking' = walking
ServerPass ==
  /\ Emit(Server, Found(Server))
  /\ value' = value /\ nodeInterest' = nodeInterest /\ walking' = walking
Arrives(c) ==
  /\ walking[c] # Nowhere
  /\ Emit(c, walking[c])
  /\ Counted(c, HandleOf(c), walking[c])
  /\ walking' = [walking EXCEPT ![c] = Nowhere]
  /\ value' = value
Dies(c) == Died(c) /\ value' = value

\* The groups of variables, taken apart.
LEMMA Unchanged ==
  /\ UNCHANGED handles => /\ handle' = handle /\ forceChangeCount' = forceChangeCount
                          /\ told' = told /\ spinning' = spinning
  /\ UNCHANGED server => /\ connections' = connections /\ mapped' = mapped
                         /\ changedNodes' = changedNodes /\ timer' = timer
                         /\ serving' = serving
  /\ UNCHANGED net => toServer' = toServer /\ toClient' = toClient
  /\ UNCHANGED ids => /\ todo' = todo /\ lastSentId' = lastSentId
                      /\ lastRecvId' = lastRecvId /\ syncing' = syncing
  /\ UNCHANGED local => gone' = gone /\ nodeInterest' = nodeInterest /\ walking' = walking
  /\ UNCHANGED vars => /\ UNCHANGED handles /\ UNCHANGED server /\ UNCHANGED net
                       /\ UNCHANGED ids /\ UNCHANGED local
                       /\ value' = value /\ asked' = asked
BY DEF handles, server, net, ids, local, vars

\* A request at the head of the packet being served.
LEMMA ServedRequest ==
  ASSUME QueueTypes, serving.ops # <<>>
  PROVE  LET op == Head(serving.ops) IN
         /\ op \in Requests /\ serving.from \in Clients
         /\ op.kind # "index" => <<serving.from, op.path>> \in Publish /\ op.path \in Paths
         /\ op.kind = "add" => op.value \in Values
         /\ op.kind = "rem" => op.value = Unset
<1>1. serving.ops \in Seq(Requests) /\ serving.from \in Procs
  BY DEF QueueTypes
<1>2. Head(serving.ops) \in Requests /\ Head(serving.ops) = serving.ops[1]
      /\ 1 \in 1 .. Len(serving.ops)
  BY <1>1, HeadTailProperties, EmptySeq
<1>3. serving.from \in Clients
  BY <1>1 DEF QueueTypes, Procs
<1> QED
  BY <1>2, <1>3, Pairs DEF QueueTypes, Proper, Requests

\* Every step is one of these.
LEMMA HandleStep ==
  ASSUME QueueTypes, [Next]_vars
  PROVE  \/ Kept \/ Written \/ ServerPass
         \/ \E c \in Clients : ReceiveSync(c) \/ BeginPass(c) \/ Arrives(c) \/ Dies(c)
         \/ \E x \in Subscribe : Hold(x) \/ Read(x) \/ Release(x)
<1>1. CASE UNCHANGED vars
  BY <1>1, Unchanged DEF Kept
<1>2. ASSUME NEW c \in Clients, ReceivePacket(c)  PROVE Kept
  BY <1>2, Unchanged DEF ReceivePacket, Kept
<1>3. CASE ServeRequest
  <2>1. /\ told' = told /\ forceChangeCount' = forceChangeCount
        /\ nodeInterest' = nodeInterest /\ walking' = walking
    BY <1>3, Unchanged DEF ServeRequest
  <2>2. \/ value' = value /\ handle' = handle
        \/ \E p \in Paths, v \in Values : SetItem(p, v)
        \/ \E P : RemItems(P)
    <3> DEFINE op == Head(serving.ops)
    <3>1. /\ serving.ops # <<>>
          /\ \/ value' = value /\ handle' = handle
             \/ op.kind = "add" /\ SetItem(op.path, op.value)
             \/ RemItems(Owned(serving.from, op.path))
      BY <1>3 DEF ServeRequest
    <3>2. op.kind = "add" => op.path \in Paths /\ op.value \in Values
      BY <3>1, ServedRequest
    <3> QED
      BY <3>1, <3>2
  <2> QED
    BY <2>1, <2>2 DEF Kept, Written
<1>4. CASE Reply
  <2>1. value' = value /\ nodeInterest' = nodeInterest /\ walking' = walking
    BY <1>4, Unchanged DEF Reply
  <2>2. Emit(Server, Found(Server)) \/ UNCHANGED handles
    BY <1>4 DEF Reply
  <2> QED
    BY <2>1, <2>2, Unchanged DEF Kept, ServerPass
<1>5. CASE ServerTimer
  BY <1>5, Unchanged DEF ServerTimer, ServerPass
<1>6. CASE DropDone
  BY <1>6, Unchanged DEF DropDone, ServerPass
<1>7. ASSUME NEW c \in Clients, Drop(c)  PROVE Written
  BY <1>7, Unchanged DEF Drop, Written
<1>8. ASSUME NEW c \in Clients, EndPass(c)  PROVE Arrives(c) \/ Dies(c)
  BY <1>8 DEF EndPass, Arrives, Dies
<1>9. ASSUME NEW c \in Clients, ClientTimer(c) \/ Sync(c) \/ SyncReturn(c)
      PROVE  Kept
  BY <1>9, Unchanged DEF ClientTimer, Sync, SyncReturn, Kept
<1>10. ASSUME NEW c \in Clients, Exit(c)  PROVE Dies(c)
  BY <1>10 DEF Exit, Dies
<1>11. ASSUME NEW x \in Publish, NEW v \in Values \cup {Unset}, LocalChange(x[2], v)
       PROVE  Written
  <2>1. x[2] \in Paths
    BY Pairs
  <2>2. IF v = Unset THEN RemItems(Owned(Server, x[2])) ELSE SetItem(x[2], v)
    BY <1>11 DEF LocalChange
  <2>3. /\ told' = told /\ forceChangeCount' = forceChangeCount
        /\ nodeInterest' = nodeInterest /\ walking' = walking
    BY <1>11, Unchanged DEF LocalChange
  <2> QED
    BY <2>1, <2>2, <2>3 DEF Written
<1>12. ASSUME NEW x \in Publish, NEW v \in Values \cup {Unset}, Request(x[1], x[2], v)
       PROVE  Kept
  BY <1>12, Unchanged DEF Request, Kept
<1> QED
  BY <1>1, <1>2, <1>3, <1>4, <1>5, <1>6, <1>7, <1>8, <1>9, <1>10, <1>11, <1>12
     DEF Next, ServerStep, Deliver

-----------------------------------------------------------------------------
(* Where handles are, and who counts them.                                 *)

\* A handle is held when it is somewhere.
LEMMA HeldSomewhere ==
  ASSUME HandleTypes, Places
  PROVE  \A x \in Subscribe : /\ Held(x) <=> handle[x].at # Nowhere
                              /\ Held(x) <=> handle[x].at \in Nodes
<1>1. Nowhere \notin Nodes
  BY NamesAssumption
<1> QED
  BY <1>1, HandleParts DEF HandleTypes, Places, Held

\* A pass over the handles of a process with or without one.
LEMMA PassStep ==
  ASSUME HandleTypes, TreeTypes, Places, NEW q \in Procs, NEW at \in Nodes \cup {Nowhere},
         Emit(q, at),
         \A x \in Subscribe : x[1] = q /\ Held(x) => at \in Nodes /\ at \in Prefixes(x[2])
  PROVE  /\ handle' \in [Subscribe -> Handle]
         /\ told' \in [Subscribe -> Values \cup {Unset}]
         /\ forceChangeCount' \in [Procs -> Nat]
         /\ \A x \in Subscribe :
              /\ handle'[x].at = Nowhere => handle'[x] = NoHandle
              /\ handle'[x] # NoHandle => handle'[x].at \in Prefixes(x[2])
              /\ handle'[x].forceChange => forceChangeCount'[x[1]] > 0
              /\ Held(x) <=> handle'[x] # NoHandle
              /\ x[1] = q /\ Held(x) => handle'[x].at = at
              /\ x[1] # q \/ ~Held(x) => handle'[x] = handle[x]
<1>1. /\ handle' \in [Subscribe -> Handle]
      /\ told' \in [Subscribe -> Values \cup {Unset}]
      /\ forceChangeCount' \in [Procs -> Nat]
      /\ \A x \in Subscribe :
           IF x[1] = q /\ Held(x)
           THEN handle'[x] = [at |-> at, seen |-> "same", forceChange |-> FALSE]
           ELSE handle'[x] = handle[x]
      /\ \A r \in Procs : r # q => forceChangeCount'[r] = forceChangeCount[r]
  BY EmitIs
<1>2. ASSUME NEW x \in Subscribe
      PROVE  /\ handle'[x].at = Nowhere => handle'[x] = NoHandle
             /\ handle'[x] # NoHandle => handle'[x].at \in Prefixes(x[2])
             /\ handle'[x].forceChange => forceChangeCount'[x[1]] > 0
             /\ Held(x) <=> handle'[x] # NoHandle
             /\ x[1] = q /\ Held(x) => handle'[x].at = at
             /\ x[1] # q \/ ~Held(x) => handle'[x] = handle[x]
  <2>1. CASE x[1] = q /\ Held(x)
    <3>1. handle'[x] = [at |-> at, seen |-> "same", forceChange |-> FALSE]
      BY <1>1, <2>1
    <3>2. /\ handle'[x].at = at /\ ~handle'[x].forceChange
          /\ at \in Nodes /\ at \in Prefixes(x[2])
      BY <2>1, <3>1
    <3>3. at # Nowhere
      BY <3>2, NamesAssumption
    <3> QED
      BY <2>1, <3>2, <3>3, HandleParts
  <2>2. CASE x[1] = q /\ ~Held(x)
    <3>1. handle'[x] = handle[x] /\ handle[x] = NoHandle
      BY <1>1, <2>2 DEF Held
    <3> QED
      BY <2>2, <3>1, HandleParts
  <2>3. CASE x[1] # q
    <3>1. handle'[x] = handle[x] /\ forceChangeCount'[x[1]] = forceChangeCount[x[1]]
      BY <1>1, <2>3, Pairs
    <3> QED
      BY <2>3, <3>1 DEF Places, Held
  <2> QED
    BY <2>1, <2>2, <2>3
<1> QED
  BY <1>1, <1>2

\* A step of one subscription's own.
LEMMA OwnStep ==
  ASSUME HandleTypes, TreeTypes, Places, NEW x \in Subscribe,
         Hold(x) \/ Read(x) \/ Release(x)
  PROVE  /\ handle' \in [Subscribe -> Handle]
         /\ told' \in [Subscribe -> Values \cup {Unset}]
         /\ forceChangeCount' \in [Procs -> Nat]
         /\ \A y \in Subscribe : y # x => handle'[y] = handle[y]
         /\ \A q \in Procs : forceChangeCount'[q] >= forceChangeCount[q]
         /\ handle'[x].at = Nowhere => handle'[x] = NoHandle
         /\ handle'[x] # NoHandle => handle'[x].at \in Prefixes(x[2])
         /\ handle'[x].forceChange => forceChangeCount'[x[1]] > 0
         /\ Counted(x[1], handle[x], handle'[x].at)
         /\ walking' = walking /\ (x[1] \in Clients => walking[x[1]] = Nowhere)
<1>1. /\ x[1] \in Procs /\ x[2] \in Paths /\ x[2] \in Seq(STRING)
      /\ x[1] # Server => x[1] \in Clients
  BY Pairs DEF Procs
<1>2. x[1] \in Clients => x[1] # Server
  BY NamesAssumption
<1>3. handle[x] \in Handle /\ handle[x].forceChange \in BOOLEAN
      /\ forceChangeCount[x[1]] \in Nat
  BY <1>1 DEF HandleTypes, Handle
<1>4. Nowhere \notin Nodes
  BY NamesAssumption
<1>5. CASE Hold(x)
  <2> DEFINE at == Closest(value, x[2])
  <2>1. /\ handle' = [handle EXCEPT ![x] = [NoHandle EXCEPT !.at = at]]
        /\ told' = [told EXCEPT ![x] = value[x[2]]]
        /\ forceChangeCount' = forceChangeCount /\ walking' = walking
        /\ Counted(x[1], NoHandle, at) /\ ~Held(x)
        /\ x[1] \in Clients => walking[x[1]] = Nowhere
    BY <1>2, <1>5, Unchanged DEF Hold, Free
  <2>2. at \in Prefixes(x[2]) /\ at \in Nodes
    BY <1>1, ClosestIs DEF Nodes
  <2>3. /\ [NoHandle EXCEPT !.at = at] \in Handle /\ [NoHandle EXCEPT !.at = at].at = at
        /\ [NoHandle EXCEPT !.at = at].forceChange = FALSE
    <3> HIDE DEF at
    <3> QED
      BY <2>2 DEF NoHandle, Handle
  <2>4. /\ handle'[x] = [NoHandle EXCEPT !.at = at]
        /\ \A y \in Subscribe : y # x => handle'[y] = handle[y]
    BY <2>1 DEF HandleTypes
  <2>5. handle' \in [Subscribe -> Handle] /\ told' \in [Subscribe -> Values \cup {Unset}]
    BY <1>1, <2>1, <2>3 DEF HandleTypes, TreeTypes
  <2>6. \A q \in Procs : forceChangeCount'[q] >= forceChangeCount[q]
    BY <2>1 DEF HandleTypes
  <2>7. Counted(x[1], handle[x], handle'[x].at)
    BY <2>1, <2>3, <2>4 DEF Held
  <2> HIDE DEF at
  <2> QED
    BY <1>4, <2>1, <2>2, <2>3, <2>4, <2>5, <2>6, <2>7 DEF HandleTypes
<1>6. CASE Read(x)
  <2> DEFINE h == handle[x]
             r == Refreshed(h, x[2])
             force == \/ h.forceChange
                      \/ h.seen = "gone" /\ h.at = x[2]
                      \/ Moved(h, r.at, x[2])
  <2>1. /\ handle' = [handle EXCEPT ![x] = [r EXCEPT !.forceChange = force]]
        /\ forceChangeCount' = [forceChangeCount EXCEPT ![x[1]] =
                                  IF force /\ ~h.forceChange THEN @ + 1 ELSE @]
        /\ told' = told /\ walking' = walking
        /\ Counted(x[1], h, r.at) /\ Held(x)
        /\ x[1] \in Clients => walking[x[1]] = Nowhere
    BY <1>2, <1>6, Unchanged DEF Read, Free
  <2>2. r \in Handle /\ r.at \in Prefixes(x[2]) /\ r.at \in Nodes
    BY <2>1, RefreshedIs
  <2>3. force \in BOOLEAN
    BY <1>3 DEF Moved
  <2>4. /\ [r EXCEPT !.forceChange = force] \in Handle
        /\ [r EXCEPT !.forceChange = force].at = r.at
        /\ [r EXCEPT !.forceChange = force].forceChange = force
    <3> HIDE DEF r, force
    <3> QED
      BY <2>2, <2>3 DEF Handle
  <2>5. /\ handle'[x] = [r EXCEPT !.forceChange = force]
        /\ \A y \in Subscribe : y # x => handle'[y] = handle[y]
    BY <2>1 DEF HandleTypes
  <2>6. handle' \in [Subscribe -> Handle]
    <3> HIDE DEF r, force
    <3> QED
      BY <2>1, <2>4 DEF HandleTypes
  <2>7. /\ forceChangeCount' \in [Procs -> Nat]
        /\ \A q \in Procs : forceChangeCount'[q] >= forceChangeCount[q]
        /\ force => forceChangeCount'[x[1]] > 0
    <3>1. h.forceChange => forceChangeCount[x[1]] > 0
      BY DEF Places
    <3> HIDE DEF force, h
    <3> QED
      BY <1>1, <1>3, <2>1, <3>1 DEF HandleTypes
  <2>8. Counted(x[1], handle[x], handle'[x].at)
    BY <2>1, <2>4, <2>5
  <2> HIDE DEF r, force
  <2> QED
    BY <1>4, <2>1, <2>2, <2>4, <2>5, <2>6, <2>7, <2>8 DEF HandleTypes
<1>7. CASE Release(x)
  <2>1. /\ handle' = [handle EXCEPT ![x] = NoHandle]
        /\ told' = told /\ walking' = walking /\ forceChangeCount' = forceChangeCount
        /\ Counted(x[1], handle[x], Nowhere)
        /\ x[1] \in Clients => walking[x[1]] = Nowhere
    BY <1>2, <1>7, Unchanged DEF Release, Free
  <2>2. /\ handle' \in [Subscribe -> Handle] /\ handle'[x] = NoHandle
        /\ \A y \in Subscribe : y # x => handle'[y] = handle[y]
    BY <2>1, HandleParts DEF HandleTypes
  <2>3. \A q \in Procs : forceChangeCount'[q] >= forceChangeCount[q]
    BY <2>1 DEF HandleTypes
  <2> QED
    BY <2>1, <2>2, <2>3, HandleParts DEF HandleTypes
<1> QED
  BY <1>5, <1>6, <1>7

\* A client's handle is counted at the node its pass ends at, and nowhere else.
LEMMA ClientPassStep ==
  ASSUME HandleTypes, TreeTypes, Places, NEW c \in Clients, NEW at \in Nodes \cup {Nowhere},
         Emit(c, at),
         \A x \in Subscribe : x[1] = c /\ Held(x) => at \in Nodes /\ at \in Prefixes(x[2]),
         IF HandleOf(c) = NoHandle THEN UNCHANGED nodeInterest
                                   ELSE Counted(c, HandleOf(c), at),
         walking' = walking \/ walking' = [walking EXCEPT ![c] = Nowhere]
  PROVE  HandleTypes' /\ Places'
<1>0. c \in Procs
  BY DEF Procs
<1>1. /\ handle' \in [Subscribe -> Handle]
      /\ told' \in [Subscribe -> Values \cup {Unset}]
      /\ forceChangeCount' \in [Procs -> Nat]
      /\ \A x \in Subscribe :
           /\ handle'[x].at = Nowhere => handle'[x] = NoHandle
           /\ handle'[x] # NoHandle => handle'[x].at \in Prefixes(x[2])
           /\ handle'[x].forceChange => forceChangeCount'[x[1]] > 0
           /\ Held(x) <=> handle'[x] # NoHandle
           /\ x[1] = c /\ Held(x) => handle'[x].at = at
           /\ x[1] # c \/ ~Held(x) => handle'[x] = handle[x]
  BY <1>0, PassStep
<1>2. /\ nodeInterest' \in [Clients -> [Nodes -> Nat]]
      /\ \A d \in Clients, n \in Nodes :
           /\ (\E y \in Subscribe : y[1] = d /\ handle'[y].at = n) => nodeInterest'[d][n] = 1
           /\ (\A y \in Subscribe : y[1] = d => handle'[y].at # n) => nodeInterest'[d][n] = 0
  <2>1. CASE \E x \in Subscribe : x[1] = c /\ Held(x)
    <3>1. PICK x \in Subscribe : x[1] = c /\ Held(x)
      BY <2>1
    <3>2. HandleOf(c) = handle[x] /\ handle[x] # NoHandle
      BY <3>1, MineIs DEF Held
    <3>3. Counted(x[1], handle[x], handle'[x].at)
      BY <1>1, <3>1, <3>2
    <3>4. \A y \in Subscribe : y # x => handle'[y] = handle[y]
      BY <1>1, <3>1, OneHandle
    <3>5. /\ nodeInterest' \in [Clients -> [Nodes -> Nat]]
          /\ \A d \in Clients, n \in Nodes :
               /\ (\E y \in Subscribe : y[1] = d /\ handle'[y].at = n)
                    => nodeInterest'[d][n] = 1
               /\ (\A y \in Subscribe : y[1] = d => handle'[y].at # n)
                    => nodeInterest'[d][n] = 0
      BY <3>1, <3>3, <3>4, CountedIs
    <3> QED
      BY <3>5
  <2>2. CASE \A x \in Subscribe : x[1] = c => ~Held(x)
    <3>1. HandleOf(c) = NoHandle
      BY <2>2, MineIs
    <3>2. nodeInterest' = nodeInterest /\ \A x \in Subscribe : handle'[x] = handle[x]
      BY <1>1, <2>2, <3>1
    <3> QED
      BY <3>2 DEF HandleTypes, Places
  <2> QED
    BY <2>1, <2>2
<1>3. walking' \in [Clients -> Nodes \cup {Nowhere}]
  BY DEF HandleTypes
<1>4. ASSUME NEW d \in Clients, walking'[d] # Nowhere
      PROVE  /\ d \in Overtaken
             /\ \E x \in Subscribe : x[1] = d /\ handle'[x] # NoHandle
                                     /\ walking'[d] \in Prefixes(x[2])
  <2>1. walking'[d] = walking[d]
    BY <1>4 DEF HandleTypes
  <2>2. PICK x \in Subscribe : x[1] = d /\ Held(x) /\ walking[d] \in Prefixes(x[2])
    BY <1>4, <2>1 DEF Places
  <2> QED
    BY <1>1, <1>4, <2>1, <2>2 DEF Places
<1>5. HandleTypes'
  BY <1>1, <1>2, <1>3 DEF HandleTypes
<1> QED
  BY <1>1, <1>2, <1>4, <1>5 DEF Places, Held

\* The places of the handles and their counts are kept by every step.
LEMMA PlacesStep ==
  ASSUME TreeTypes, HandleTypes, QueueTypes, Places, [Next]_vars
  PROVE  HandleTypes' /\ Places'
<1>1. CASE Kept
  <2>1. HandleTypes'
    BY <1>1 DEF Kept, HandleTypes
  <2> QED
    BY <1>1, <2>1 DEF Kept, Places, Held
<1>2. CASE Written
  <2>1. /\ told' = told /\ forceChangeCount' = forceChangeCount
        /\ nodeInterest' = nodeInterest /\ walking' = walking
    BY <1>2 DEF Written
  <2>2. \E val : \E bumped \in SUBSET Nodes : Write(val, bumped)
    <3>1. ASSUME NEW p \in Paths, NEW v \in Values, SetItem(p, v)
          PROVE  \E val : \E bumped \in SUBSET Nodes : Write(val, bumped)
      BY <3>1, BumpedNodes DEF SetItem
    <3>2. ASSUME NEW P, RemItems(P)
          PROVE  \E val : \E bumped \in SUBSET Nodes : Write(val, bumped)
      BY <3>2, BumpedNodes DEF RemItems
    <3> QED
      BY <1>2, <3>1, <3>2 DEF Written
  <2>3. /\ handle' \in [Subscribe -> Handle]
        /\ \A x \in Subscribe : /\ handle'[x].at = handle[x].at
                                /\ handle'[x].forceChange = handle[x].forceChange
                                /\ ~Held(x) => handle'[x] = NoHandle
    BY <2>2, WriteIs
  <2>4. HandleTypes'
    BY <2>1, <2>3 DEF HandleTypes
  <2>5. \A x \in Subscribe : Held(x) <=> handle'[x] # NoHandle
    BY <2>3, HeldSomewhere, HandleParts
  <2> QED
    BY <2>1, <2>3, <2>4, <2>5, HeldSomewhere DEF Places, Held
<1>3. CASE ServerPass
  <2>1. Emit(Server, Found(Server)) /\ nodeInterest' = nodeInterest /\ walking' = walking
    BY <1>3 DEF ServerPass
  <2>2. Server \in Procs /\ \A c \in Clients : c # Server
    BY NamesAssumption DEF Procs
  <2>3. /\ Found(Server) \in Nodes \cup {Nowhere}
        /\ \A x \in Subscribe : x[1] = Server /\ Held(x) =>
             Found(Server) \in Nodes /\ Found(Server) \in Prefixes(x[2])
    <3>1. \A x \in Subscribe : x[1] = Server /\ Held(x) =>
             Found(Server) \in Nodes /\ Found(Server) \in Prefixes(x[2])
      BY MineIs, RefreshedIs
    <3>2. (\A x \in Subscribe : x[1] = Server => ~Held(x)) => Found(Server) = Nowhere
      BY MineIs
    <3> QED
      BY <3>1, <3>2
  <2>4. /\ handle' \in [Subscribe -> Handle]
        /\ told' \in [Subscribe -> Values \cup {Unset}]
        /\ forceChangeCount' \in [Procs -> Nat]
        /\ \A x \in Subscribe :
             /\ handle'[x].at = Nowhere => handle'[x] = NoHandle
             /\ handle'[x] # NoHandle => handle'[x].at \in Prefixes(x[2])
             /\ handle'[x].forceChange => forceChangeCount'[x[1]] > 0
             /\ Held(x) <=> handle'[x] # NoHandle
             /\ x[1] # Server \/ ~Held(x) => handle'[x] = handle[x]
    BY <2>1, <2>2, <2>3, PassStep
  <2>5. HandleTypes'
    BY <2>1, <2>4 DEF HandleTypes
  <2>6. \A c \in Clients, x \in Subscribe : x[1] = c => handle'[x] = handle[x]
    BY <2>2, <2>4
  <2> QED
    BY <2>1, <2>4, <2>5, <2>6 DEF Places, Held
<1>4. ASSUME NEW c \in Clients, ReceiveSync(c)  PROVE HandleTypes' /\ Places'
  <2>1. /\ Emit(c, Found(c)) /\ walking' = walking
        /\ IF HandleOf(c) = NoHandle THEN UNCHANGED nodeInterest
                                     ELSE Counted(c, HandleOf(c), Found(c))
    BY <1>4 DEF ReceiveSync
  <2>2. \A x \in Subscribe : x[1] = c /\ Held(x) =>
          Found(c) \in Nodes /\ Found(c) \in Prefixes(x[2])
    BY MineIs, RefreshedIs
  <2>3. Found(c) \in Nodes \cup {Nowhere}
    <3>1. (\A x \in Subscribe : x[1] = c => ~Held(x)) => Found(c) = Nowhere
      BY MineIs
    <3> QED
      BY <2>2, <3>1
  <2> QED
    BY <2>1, <2>2, <2>3, ClientPassStep
<1>5. ASSUME NEW c \in Clients, BeginPass(c)  PROVE HandleTypes' /\ Places'
  <2>1. /\ c \in Overtaken /\ walking' = [walking EXCEPT ![c] = Found(c)]
        /\ handle' = handle /\ told' = told /\ forceChangeCount' = forceChangeCount
        /\ nodeInterest' = nodeInterest
        /\ \E x \in Subscribe : x[1] = c /\ Held(x)
    BY <1>5, Unchanged DEF BeginPass
  <2>2. PICK x \in Subscribe : x[1] = c /\ Held(x)
    BY <2>1
  <2>3. Found(c) \in Nodes /\ Found(c) \in Prefixes(x[2])
    BY <2>2, MineIs, RefreshedIs
  <2>4. HandleTypes'
    BY <2>1, <2>3 DEF HandleTypes
  <2>5. \A d \in Clients : walking'[d] = IF d = c THEN Found(c) ELSE walking[d]
    BY <2>1 DEF HandleTypes
  <2> QED
    BY <2>1, <2>2, <2>3, <2>4, <2>5 DEF Places, Held
<1>6. ASSUME NEW c \in Clients, Arrives(c)  PROVE HandleTypes' /\ Places'
  <2>1. /\ walking[c] # Nowhere /\ Emit(c, walking[c])
        /\ Counted(c, HandleOf(c), walking[c])
        /\ walking' = [walking EXCEPT ![c] = Nowhere]
    BY <1>6 DEF Arrives
  <2>2. PICK x \in Subscribe : x[1] = c /\ Held(x) /\ walking[c] \in Prefixes(x[2])
    BY <2>1 DEF Places
  <2>3. HandleOf(c) # NoHandle
    BY <2>2, MineIs DEF Held
  <2>4. walking[c] \in Nodes
    BY <2>1 DEF HandleTypes
  <2>5. \A y \in Subscribe : y[1] = c /\ Held(y) =>
          walking[c] \in Nodes /\ walking[c] \in Prefixes(y[2])
    BY <2>2, <2>4, OneHandle
  <2> QED
    BY <2>1, <2>3, <2>4, <2>5, ClientPassStep
<1>7. ASSUME NEW c \in Clients, Dies(c)  PROVE HandleTypes' /\ Places'
  <2>1. /\ handle' = [x \in Subscribe |-> IF x[1] = c THEN NoHandle ELSE handle[x]]
        /\ told' = [x \in Subscribe |-> IF x[1] = c THEN Unset ELSE told[x]]
        /\ forceChangeCount' = [forceChangeCount EXCEPT ![c] = 0]
        /\ nodeInterest' = [nodeInterest EXCEPT ![c] = [n \in Nodes |-> 0]]
        /\ walking' = [walking EXCEPT ![c] = Nowhere]
    BY <1>7 DEF Dies, Died
  <2>2. HandleTypes'
    BY <2>1, HandleParts DEF HandleTypes
  <2>3. \A x \in Subscribe :
          /\ x[1] = c => handle'[x] = NoHandle
          /\ x[1] # c => /\ handle'[x] = handle[x]
                         /\ forceChangeCount'[x[1]] = forceChangeCount[x[1]]
    BY <2>1, Pairs DEF HandleTypes
  <2>4. \A d \in Clients, n \in Nodes :
          nodeInterest'[d][n] = IF d = c THEN 0 ELSE nodeInterest[d][n]
    BY <2>1 DEF HandleTypes
  <2>5. \A d \in Clients : walking'[d] = IF d = c THEN Nowhere ELSE walking[d]
    BY <2>1 DEF HandleTypes
  <2>6. NoHandle.at \notin Nodes /\ ~NoHandle.forceChange
    BY NamesAssumption, HandleParts
  <2> QED
    BY <2>2, <2>3, <2>4, <2>5, <2>6 DEF Places, Held
<1>8. ASSUME NEW x \in Subscribe, Hold(x) \/ Read(x) \/ Release(x)
      PROVE  HandleTypes' /\ Places'
  <2>1. /\ handle' \in [Subscribe -> Handle]
        /\ told' \in [Subscribe -> Values \cup {Unset}]
        /\ forceChangeCount' \in [Procs -> Nat]
        /\ \A y \in Subscribe : y # x => handle'[y] = handle[y]
        /\ \A q \in Procs : forceChangeCount'[q] >= forceChangeCount[q]
        /\ handle'[x].at = Nowhere => handle'[x] = NoHandle
        /\ handle'[x] # NoHandle => handle'[x].at \in Prefixes(x[2])
        /\ handle'[x].forceChange => forceChangeCount'[x[1]] > 0
        /\ Counted(x[1], handle[x], handle'[x].at)
        /\ walking' = walking /\ (x[1] \in Clients => walking[x[1]] = Nowhere)
    BY <1>8, OwnStep
  <2>2. /\ nodeInterest' \in [Clients -> [Nodes -> Nat]]
        /\ \A c \in Clients, n \in Nodes :
             /\ (\E y \in Subscribe : y[1] = c /\ handle'[y].at = n)
                  => nodeInterest'[c][n] = 1
             /\ (\A y \in Subscribe : y[1] = c => handle'[y].at # n)
                  => nodeInterest'[c][n] = 0
    <3>1. CASE x[1] \in Clients
      BY <2>1, <3>1, CountedIs
    <3>2. CASE x[1] \notin Clients
      <4>1. nodeInterest' = [c \in Clients |-> nodeInterest[c]]
        BY <2>1, <3>2 DEF Counted
      <4>2. nodeInterest' = nodeInterest
        BY <4>1 DEF HandleTypes
      <4>3. \A c \in Clients, y \in Subscribe : y[1] = c => handle'[y] = handle[y]
        BY <2>1, <3>2
      <4> QED
        BY <4>2, <4>3 DEF HandleTypes, Places
    <3> QED
      BY <3>1, <3>2
  <2>3. HandleTypes'
    BY <2>1, <2>2 DEF HandleTypes
  <2>4. ASSUME NEW y \in Subscribe
        PROVE  /\ handle'[y].at = Nowhere => handle'[y] = NoHandle
               /\ handle'[y] # NoHandle => handle'[y].at \in Prefixes(y[2])
               /\ handle'[y].forceChange => forceChangeCount'[y[1]] > 0
    <3>1. CASE y = x
      BY <2>1, <3>1
    <3>2. CASE y # x
      <4>1. /\ handle'[y] = handle[y] /\ y[1] \in Procs
            /\ forceChangeCount'[y[1]] >= forceChangeCount[y[1]]
            /\ forceChangeCount'[y[1]] \in Nat /\ forceChangeCount[y[1]] \in Nat
        BY <2>1, <3>2, Pairs DEF HandleTypes
      <4> QED
        BY <4>1 DEF Places, Held
    <3> QED
      BY <3>1, <3>2
  <2>5. ASSUME NEW c \in Clients, walking'[c] # Nowhere
        PROVE  /\ c \in Overtaken
               /\ \E y \in Subscribe : y[1] = c /\ handle'[y] # NoHandle
                                       /\ walking'[c] \in Prefixes(y[2])
    <3>1. PICK y \in Subscribe : y[1] = c /\ Held(y) /\ walking[c] \in Prefixes(y[2])
      BY <2>1, <2>5 DEF Places
    <3>2. y # x
      BY <2>1, <2>5, <3>1
    <3> QED
      BY <2>1, <2>5, <3>1, <3>2 DEF Places, Held
  <2> QED
    BY <2>2, <2>3, <2>4, <2>5 DEF Places, Held
<1> QED
  BY <1>1, <1>2, <1>3, <1>4, <1>5, <1>6, <1>7, <1>8, HandleStep

-----------------------------------------------------------------------------
(* What the steps do to the packets.                                       *)

\* Requests of a client's own, less the first or one more.
LEMMA ProperParts ==
  ASSUME NEW c, NEW s \in Seq(Requests), Proper(c, s)
  PROVE  /\ s # <<>> => Tail(s) \in Seq(Requests) /\ Proper(c, Tail(s))
         /\ \A r \in Requests :
              (r.kind # "index" => /\ <<c, r.path>> \in Publish
                                   /\ r.kind = "add" => r.value # Unset
                                   /\ r.kind = "rem" => r.value = Unset)
              => Append(s, r) \in Seq(Requests) /\ Proper(c, Append(s, r))
<1>1. ASSUME s # <<>>  PROVE Tail(s) \in Seq(Requests) /\ Proper(c, Tail(s))
  <2>1. /\ Tail(s) \in Seq(Requests) /\ Len(Tail(s)) = Len(s) - 1 /\ Len(s) \in Nat
        /\ \A i \in 1 .. Len(Tail(s)) : Tail(s)[i] = s[i + 1]
    BY <1>1, HeadTailProperties, LenProperties
  <2>2. \A i \in 1 .. Len(Tail(s)) : i + 1 \in 1 .. Len(s)
    BY <2>1
  <2> QED
    BY <2>1, <2>2 DEF Proper
<1>2. ASSUME NEW r \in Requests,
             r.kind # "index" => /\ <<c, r.path>> \in Publish
                                 /\ r.kind = "add" => r.value # Unset
                                 /\ r.kind = "rem" => r.value = Unset
      PROVE  Append(s, r) \in Seq(Requests) /\ Proper(c, Append(s, r))
  <2>1. /\ Append(s, r) \in Seq(Requests) /\ Len(Append(s, r)) = Len(s) + 1 /\ Len(s) \in Nat
        /\ \A i \in 1 .. Len(s) : Append(s, r)[i] = s[i]
        /\ Append(s, r)[Len(s) + 1] = r
    BY AppendProperties, LenProperties
  <2>2. \A i \in 1 .. Len(Append(s, r)) : i \in 1 .. Len(s) \/ i = Len(s) + 1
    BY <2>1
  <2> QED
    BY <1>2, <2>1, <2>2 DEF Proper
<1> QED
  BY <1>1, <1>2

\* Nothing is a sequence of whatever it should be one of.
LEMMA NothingYet ==
  /\ <<>> \in Seq(Requests) /\ <<>> \in Seq(Packets) /\ <<>> \in Seq(Nat) /\ Len(<<>>) = 0
  /\ \A c : Proper(c, <<>>)
BY EmptySeq DEF Proper

\* Ids that were sent, less the first or some more.
LEMMA SentParts ==
  ASSUME NEW m \in Nat, NEW s \in Seq(Nat), \A i \in 1 .. Len(s) : s[i] <= m
  PROVE  /\ s # <<>> => /\ Tail(s) \in Seq(Nat) /\ Head(s) \in Nat /\ Head(s) <= m
                        /\ \A i \in 1 .. Len(Tail(s)) : Tail(s)[i] <= m
         /\ \A t \in Seq(Nat) : (\A i \in 1 .. Len(t) : t[i] <= m) =>
              /\ s \o t \in Seq(Nat) /\ \A i \in 1 .. Len(s \o t) : (s \o t)[i] <= m
<1>1. ASSUME s # <<>>
      PROVE  /\ Tail(s) \in Seq(Nat) /\ Head(s) \in Nat /\ Head(s) <= m
             /\ \A i \in 1 .. Len(Tail(s)) : Tail(s)[i] <= m
  <2>1. /\ Tail(s) \in Seq(Nat) /\ Len(Tail(s)) = Len(s) - 1 /\ Len(s) \in Nat /\ Len(s) # 0
        /\ \A i \in 1 .. Len(Tail(s)) : Tail(s)[i] = s[i + 1]
        /\ Head(s) \in Nat /\ Head(s) = s[1]
    BY <1>1, HeadTailProperties, EmptySeq
  <2>2. /\ \A i \in 1 .. Len(Tail(s)) : i + 1 \in 1 .. Len(s)
        /\ 1 \in 1 .. Len(s)
    BY <2>1
  <2> QED
    BY <2>1, <2>2
<1>2. ASSUME NEW t \in Seq(Nat), \A i \in 1 .. Len(t) : t[i] <= m
      PROVE  s \o t \in Seq(Nat) /\ \A i \in 1 .. Len(s \o t) : (s \o t)[i] <= m
  <2>1. /\ s \o t \in Seq(Nat) /\ Len(s \o t) = Len(s) + Len(t)
        /\ Len(s) \in Nat /\ Len(t) \in Nat
        /\ \A i \in 1 .. Len(s) + Len(t) :
             (s \o t)[i] = IF i <= Len(s) THEN s[i] ELSE t[i - Len(s)]
    BY ConcatProperties, LenProperties
  <2>2. ASSUME NEW i \in 1 .. Len(s \o t)  PROVE (s \o t)[i] <= m
    <3>1. CASE i <= Len(s)
      BY <2>1, <3>1
    <3>2. CASE i > Len(s)
      <4>1. i - Len(s) \in 1 .. Len(t)
        BY <2>1, <3>2
      <4>2. (s \o t)[i] = t[i - Len(s)]
        BY <2>1, <3>2
      <4> QED
        BY <1>2, <4>1, <4>2
    <3> QED
      BY <2>1, <3>1, <3>2
  <2> QED
    BY <2>1, <2>2
<1> QED
  BY <1>1, <1>2

\* Two sequences of zeros and one other number, joined.
LEMMA JoinedSyncs ==
  ASSUME NEW v, NEW s \in Seq(Nat), NEW t \in Seq(Nat),
         \A i \in 1 .. Len(s) : s[i] = 0 \/ s[i] = v,
         \A i \in 1 .. Len(t) : t[i] = 0 \/ t[i] = v
  PROVE  /\ s \o t \in Seq(Nat)
         /\ \A i \in 1 .. Len(s \o t) : (s \o t)[i] = 0 \/ (s \o t)[i] = v
<1>1. /\ s \o t \in Seq(Nat) /\ Len(s \o t) = Len(s) + Len(t)
      /\ Len(s) \in Nat /\ Len(t) \in Nat
      /\ \A i \in 1 .. Len(s) + Len(t) :
           (s \o t)[i] = IF i <= Len(s) THEN s[i] ELSE t[i - Len(s)]
  BY ConcatProperties, LenProperties
<1>2. ASSUME NEW i \in 1 .. Len(s \o t)  PROVE (s \o t)[i] = 0 \/ (s \o t)[i] = v
  <2>1. CASE i <= Len(s)
    BY <1>1, <2>1
  <2>2. CASE i > Len(s)
    <3>1. i - Len(s) \in 1 .. Len(t)
      BY <1>1, <2>2
    <3>2. (s \o t)[i] = t[i - Len(s)]
      BY <1>1, <2>2
    <3> QED
      BY <3>1, <3>2
  <2> QED
    BY <1>1, <2>1, <2>2
<1> QED
  BY <1>1, <1>2

\* What a client is sent: SYNC messages behind those on their way, with the id
\* of its own packet or with none.
Longer(c, id) ==
  \/ toClient'[c] = <<>>
  \/ \E t \in Seq(Nat) : /\ toClient'[c] = toClient[c] \o t
                         /\ \A i \in 1 .. Len(t) : t[i] = 0 \/ t[i] = id

\* The causal message and one for the others.
LEMMA SyncsSent ==
  ASSUME QueueTypes, NEW first \in [Clients -> Seq(Nat)], Sent(first),
         NEW c \in Clients, NEW id,
         \A i \in 1 .. Len(first[c]) : first[c][i] = 0 \/ first[c][i] = id
  PROVE  Longer(c, id)
<1> DEFINE more == IF c \notin mapped \/ Indexed(c) \cap changedNodes # {} THEN <<0>>
                   ELSE <<>>
           a == toClient[c]
           b == first[c]
<1>1. toClient'[c] = <<>> \/ toClient'[c] = a \o b \o more
  BY DEF Sent
<1>2. more \in Seq(Nat) /\ \A i \in 1 .. Len(more) : more[i] = 0
  OBVIOUS
<1>3. b \in Seq(Nat) /\ a \in Seq(Nat)
  BY DEF QueueTypes
<1>4. \A i \in 1 .. Len(b) : b[i] = 0 \/ b[i] = id
  OBVIOUS
<1> HIDE DEF more, a, b
<1>5. a \o b \o more = a \o (b \o more)
  BY <1>2, <1>3, ConcatAssociative
<1>6. /\ b \o more \in Seq(Nat)
      /\ \A i \in 1 .. Len(b \o more) : (b \o more)[i] = 0 \/ (b \o more)[i] = id
  BY <1>2, <1>3, <1>4, JoinedSyncs
<1> QED
  BY <1>1, <1>5, <1>6 DEF Longer, a

\* Steps that have nothing to do with packets.
QueuesKept ==
  /\ serving' = serving /\ toServer' = toServer /\ toClient' = toClient /\ todo' = todo
  /\ lastSentId' = lastSentId /\ lastRecvId' = lastRecvId

\* The types of the packets after a step, taken together.
LEMMA PrimedQueues ==
  ASSUME serving' \in [from : Procs, id : Nat, ops : Seq(Requests), any : BOOLEAN],
         serving'.from = Server => serving'.ops = <<>>,
         toServer' \in [Clients -> Seq(Packets)],
         toClient' \in [Clients -> Seq(Nat)],
         todo' \in [Clients -> Seq(Requests)],
         lastSentId' \in [Clients -> Nat], lastRecvId' \in [Clients -> Nat],
         \A c \in Clients : Proper(c, todo'[c]),
         \A c \in Clients : \A i \in 1 .. Len(toServer'[c]) : Proper(c, toServer'[c][i].ops),
         Proper(serving'.from, serving'.ops)
  PROVE  QueueTypes'
BY DEF QueueTypes, Proper

\* Messages behind those on their way have ids that were sent.
LEMMA LongerIds ==
  ASSUME QueueTypes, Ids, NEW c \in Clients, NEW id, Longer(c, id),
         id = 0 \/ (serving.from = c /\ id = serving.id)
  PROVE  /\ toClient'[c] \in Seq(Nat)
         /\ \A i \in 1 .. Len(toClient'[c]) : toClient'[c][i] <= lastSentId[c]
<1>1. lastSentId[c] \in Nat /\ toClient[c] \in Seq(Nat)
  BY DEF QueueTypes
<1>2. CASE toClient'[c] = <<>>
  BY <1>2, NothingYet
<1>3. ASSUME NEW t \in Seq(Nat), toClient'[c] = toClient[c] \o t,
             \A i \in 1 .. Len(t) : t[i] = 0 \/ t[i] = id
      PROVE  /\ toClient'[c] \in Seq(Nat)
             /\ \A i \in 1 .. Len(toClient'[c]) : toClient'[c][i] <= lastSentId[c]
  <2>1. id <= lastSentId[c] /\ 0 <= lastSentId[c]
    BY <1>1 DEF Ids
  <2>2. \A i \in 1 .. Len(t) : t[i] <= lastSentId[c]
    BY <1>3, <2>1
  <2>3. \A i \in 1 .. Len(toClient[c]) : toClient[c][i] <= lastSentId[c]
    BY DEF Ids
  <2> DEFINE m == lastSentId[c]
             s == toClient[c]
  <2>4. m \in Nat /\ s \in Seq(Nat) /\ \A i \in 1 .. Len(s) : s[i] <= m
    BY <1>1, <2>3
  <2>5. \A i \in 1 .. Len(t) : t[i] <= m
    BY <2>2
  <2> HIDE DEF m, s
  <2>6. s \o t \in Seq(Nat) /\ \A i \in 1 .. Len(s \o t) : (s \o t)[i] <= m
    BY <2>4, <2>5, SentParts
  <2> QED
    BY <1>3, <2>6 DEF m, s
<1> QED
  BY <1>2, <1>3 DEF Longer

\* Replies and notices.
LEMMA SyncsStep ==
  ASSUME QueueTypes, Ids,
         toClient' = [c \in Clients |-> toClient'[c]],
         \A c \in Clients : \E id : /\ Longer(c, id)
                                    /\ id = 0 \/ (serving.from = c /\ id = serving.id),
         serving' = Idle,
         toServer' = toServer, todo' = todo,
         lastSentId' = lastSentId, lastRecvId' = lastRecvId
  PROVE  QueueTypes' /\ Ids'
<1>1. \A c \in Clients :
        /\ toClient'[c] \in Seq(Nat)
        /\ \A i \in 1 .. Len(toClient'[c]) : toClient'[c][i] <= lastSentId[c]
  BY LongerIds
<1>2. toClient' \in [Clients -> Seq(Nat)]
  BY <1>1
<1>3. /\ serving' \in [from : Procs, id : Nat, ops : Seq(Requests), any : BOOLEAN]
      /\ serving'.ops = <<>> /\ serving'.id = 0 /\ Proper(serving'.from, serving'.ops)
  BY NothingYet DEF Idle, Procs
<1>4. QueueTypes'
  BY <1>2, <1>3, PrimedQueues DEF QueueTypes
<1>5. \A c \in Clients : lastSentId[c] \in Nat
  BY DEF QueueTypes
<1> QED
  BY <1>1, <1>3, <1>4, <1>5 DEF Ids

\* The packets are kept in order by every step.
LEMMA QueueStep ==
  ASSUME TreeTypes, HandleTypes, QueueTypes, Ids, [Next]_vars
  PROVE  QueueTypes' /\ Ids'
<1>0. /\ \A c \in Clients : c # Server /\ c \in Procs
      /\ Server \in Procs
      /\ serving \in [from : Procs, id : Nat, ops : Seq(Requests), any : BOOLEAN]
  BY NamesAssumption DEF Procs, QueueTypes
<1>1. ASSUME QueuesKept  PROVE QueueTypes' /\ Ids'
  <2>1. /\ serving' = serving /\ toServer' = toServer /\ toClient' = toClient
        /\ todo' = todo /\ lastSentId' = lastSentId /\ lastRecvId' = lastRecvId
    BY <1>1 DEF QueuesKept
  <2>2. QueueTypes'
    BY <2>1, PrimedQueues DEF QueueTypes
  <2> QED
    BY <2>1, <2>2 DEF Ids
<1>2. CASE UNCHANGED vars
  BY <1>1, <1>2, Unchanged DEF QueuesKept
<1>3. ASSUME NEW c \in Clients, ReceivePacket(c)  PROVE QueueTypes' /\ Ids'
  <2> DEFINE p == Head(toServer[c])
  <2>1. /\ toServer[c] # <<>>
        /\ serving' = [from |-> c, id |-> p.id, ops |-> p.ops, any |-> FALSE]
        /\ toServer' = [toServer EXCEPT ![c] = Tail(@)]
        /\ toClient' = toClient /\ todo' = todo
        /\ lastSentId' = lastSentId /\ lastRecvId' = lastRecvId
    BY <1>3, Unchanged DEF ReceivePacket
  <2>2. toServer[c] \in Seq(Packets)
    BY DEF QueueTypes
  <2>3. /\ p = toServer[c][1] /\ p \in Packets /\ 1 \in 1 .. Len(toServer[c])
        /\ Tail(toServer[c]) \in Seq(Packets)
        /\ \A i \in 1 .. Len(Tail(toServer[c])) :
             /\ Tail(toServer[c])[i] = toServer[c][i + 1]
             /\ i + 1 \in 1 .. Len(toServer[c])
    BY <2>1, <2>2, HeadTailProperties, EmptySeq
  <2>4. /\ p.id \in Nat /\ p.ops \in Seq(Requests) /\ Proper(c, p.ops)
        /\ p.id <= lastSentId[c]
    BY <2>3 DEF QueueTypes, Ids, Packets
  <2> HIDE DEF p
  <2>5. /\ serving' \in [from : Procs, id : Nat, ops : Seq(Requests), any : BOOLEAN]
        /\ serving'.from = c /\ serving'.ops = p.ops /\ serving'.id = p.id
    BY <1>0, <2>1, <2>4
  <2>6. /\ toServer' \in [Clients -> Seq(Packets)]
        /\ \A d \in Clients : d # c => toServer'[d] = toServer[d]
        /\ toServer'[c] = Tail(toServer[c])
    BY <2>1, <2>3 DEF QueueTypes
  <2>7. \A d \in Clients : \A i \in 1 .. Len(toServer'[d]) :
          Proper(d, toServer'[d][i].ops) /\ toServer'[d][i].id <= lastSentId[d]
    <3>1. ASSUME NEW d \in Clients, NEW i \in 1 .. Len(toServer'[d])
          PROVE  Proper(d, toServer'[d][i].ops) /\ toServer'[d][i].id <= lastSentId[d]
      <4>1. CASE d = c
        <5>1. /\ i \in 1 .. Len(Tail(toServer[c]))
              /\ toServer'[d][i] = toServer[c][i + 1] /\ i + 1 \in 1 .. Len(toServer[c])
          BY <2>3, <2>6, <4>1
        <5> QED
          BY <4>1, <5>1 DEF QueueTypes, Ids
      <4>2. CASE d # c
        <5>1. toServer'[d] = toServer[d]
          BY <2>6, <4>2
        <5> QED
          BY <5>1 DEF QueueTypes, Ids
      <4> QED
        BY <4>1, <4>2
    <3> QED
      BY <3>1
  <2>8. QueueTypes'
    BY <1>0, <2>1, <2>4, <2>5, <2>6, <2>7, PrimedQueues DEF QueueTypes
  <2> QED
    BY <2>1, <2>4, <2>5, <2>7, <2>8 DEF Ids
<1>4. CASE ServeRequest
  <2>1. /\ serving.ops # <<>>
        /\ \E b : serving' = [serving EXCEPT !.ops = Tail(@), !.any = b] /\ b \in BOOLEAN
        /\ toServer' = toServer /\ toClient' = toClient /\ todo' = todo
        /\ lastSentId' = lastSentId /\ lastRecvId' = lastRecvId
    <3>1. /\ toServer' = toServer /\ toClient' = toClient /\ todo' = todo
          /\ lastSentId' = lastSentId /\ lastRecvId' = lastRecvId
          /\ serving.ops # <<>>
      BY <1>4, Unchanged DEF ServeRequest
    <3>2. \/ serving' = [serving EXCEPT !.ops = Tail(@), !.any = @ \/ FALSE]
          \/ serving' = [serving EXCEPT !.ops = Tail(@), !.any = @ \/ TRUE]
          \/ \E P : serving' = [serving EXCEPT !.ops = Tail(@), !.any = @ \/ (RemBumps(P) # {})]
      BY <1>4 DEF ServeRequest
    <3>3. (serving.any \/ FALSE) \in BOOLEAN /\ (serving.any \/ TRUE) \in BOOLEAN
          /\ \A P : (serving.any \/ (RemBumps(P) # {})) \in BOOLEAN
      OBVIOUS
    <3> QED
      BY <3>1, <3>2, <3>3
  <2>2. /\ Tail(serving.ops) \in Seq(Requests) /\ Proper(serving.from, Tail(serving.ops))
    BY <1>0, <2>1, ProperParts DEF QueueTypes
  <2>3. /\ serving' \in [from : Procs, id : Nat, ops : Seq(Requests), any : BOOLEAN]
        /\ serving'.from = serving.from /\ serving'.ops = Tail(serving.ops)
        /\ serving'.id = serving.id
    BY <1>0, <2>1, <2>2
  <2>4. serving.from # Server
    BY <2>1 DEF QueueTypes
  <2>5. QueueTypes'
    BY <2>1, <2>2, <2>3, <2>4, PrimedQueues DEF QueueTypes
  <2> QED
    BY <2>1, <2>3, <2>5 DEF Ids
<1>5. CASE Reply
  <2> DEFINE causal == [Nothing EXCEPT ![serving.from] = <<serving.id>>]
  <2>1. /\ serving.from \in Clients /\ serving' = Idle /\ toServer' = toServer
        /\ todo' = todo /\ lastSentId' = lastSentId /\ lastRecvId' = lastRecvId
    BY <1>5, Unchanged DEF Reply
  <2>2. /\ causal \in [Clients -> Seq(Nat)]
        /\ \A c \in Clients : causal[c] = IF c = serving.from THEN <<serving.id>> ELSE <<>>
    <3>1. serving.id \in Nat /\ <<serving.id>> \in Seq(Nat) /\ <<>> \in Seq(Nat)
      BY <1>0, NothingYet
    <3> QED
      BY <2>1, <3>1 DEF Nothing
  <2>3. ASSUME NEW c \in Clients
        PROVE  \E id : /\ \A i \in 1 .. Len(causal[c]) : causal[c][i] = 0 \/ causal[c][i] = id
                       /\ id = 0 \/ (serving.from = c /\ id = serving.id)
    <3>1. CASE c = serving.from
      <4>1. \A i \in 1 .. Len(causal[c]) : causal[c][i] = serving.id
        BY <2>2, <3>1
      <4> QED
        BY <3>1, <4>1
    <3>2. CASE c # serving.from
      <4>1. Len(causal[c]) = 0
        BY <2>2, <3>2
      <4> HIDE DEF causal
      <4>2. /\ \A i \in 1 .. Len(causal[c]) : causal[c][i] = 0 \/ causal[c][i] = 0
            /\ 0 = 0 \/ (serving.from = c /\ 0 = serving.id)
        BY <4>1
      <4> QED
        BY <4>2
    <3> QED
      BY <3>1, <3>2
  <2> HIDE DEF causal
  <2>4. CASE serving.any
    <3>1. Sent(causal)
      BY <1>5, <2>4 DEF Reply, causal
    <3>2. toClient' = [c \in Clients |-> toClient'[c]]
      BY <3>1 DEF Sent
    <3>3. \A c \in Clients : \E id : /\ Longer(c, id)
                                     /\ id = 0 \/ (serving.from = c /\ id = serving.id)
      <4>1. ASSUME NEW c \in Clients, NEW id,
                   \A i \in 1 .. Len(causal[c]) : causal[c][i] = 0 \/ causal[c][i] = id
            PROVE  Longer(c, id)
        BY <2>2, <3>1, <4>1, SyncsSent
      <4> QED
        BY <2>3, <4>1
    <3> QED
      BY <2>1, <3>2, <3>3, SyncsStep
  <2>5. CASE ~serving.any
    <3>1. toClient' = [c \in Clients |->
                         IF c \in gone THEN <<>> ELSE toClient[c] \o causal[c]]
      BY <1>5, <2>5 DEF Reply, causal
    <3>2. toClient' = [c \in Clients |-> toClient'[c]]
      BY <3>1
    <3>3. \A c \in Clients : \E id : /\ Longer(c, id)
                                     /\ id = 0 \/ (serving.from = c /\ id = serving.id)
      <4>1. ASSUME NEW c \in Clients, NEW id,
                   \A i \in 1 .. Len(causal[c]) : causal[c][i] = 0 \/ causal[c][i] = id
            PROVE  Longer(c, id)
        BY <2>2, <3>1, <4>1 DEF Longer
      <4> QED
        BY <2>3, <4>1
    <3> QED
      BY <2>1, <3>2, <3>3, SyncsStep
  <2> QED
    BY <2>4, <2>5
<1>6. CASE ServerTimer
  <2>1. /\ Sent(Nothing) /\ serving' = Idle /\ toServer' = toServer
        /\ todo' = todo /\ lastSentId' = lastSentId /\ lastRecvId' = lastRecvId
    BY <1>6, Unchanged DEF ServerTimer, ServerFree
  <2>2. Nothing \in [Clients -> Seq(Nat)] /\ \A c \in Clients : Len(Nothing[c]) = 0
    BY NothingYet DEF Nothing
  <2>3. toClient' = [c \in Clients |-> toClient'[c]]
    BY <2>1 DEF Sent
  <2>4. \A c \in Clients : Longer(c, 0)
    <3>1. ASSUME NEW c \in Clients
          PROVE \A i \in 1 .. Len(Nothing[c]) : Nothing[c][i] = 0 \/ Nothing[c][i] = 0
      BY <2>2
    <3> QED
      BY <2>1, <2>2, <3>1, SyncsSent
  <2> QED
    BY <2>1, <2>3, <2>4, SyncsStep
<1>7. CASE DropDone
  <2>1. /\ toClient' = [c \in Clients |-> IF c \in connections \ gone
                                            THEN Append(toClient[c], 0) ELSE <<>>]
        /\ serving' = Idle /\ toServer' = toServer
        /\ todo' = todo /\ lastSentId' = lastSentId /\ lastRecvId' = lastRecvId
    BY <1>7, Unchanged DEF DropDone
  <2>2. toClient' = [c \in Clients |-> toClient'[c]]
    BY <2>1
  <2>3. ASSUME NEW c \in Clients  PROVE Longer(c, 0)
    <3>1. toClient[c] \in Seq(Nat) /\ 0 \in Nat
      BY DEF QueueTypes
    <3>2. Append(toClient[c], 0) = toClient[c] \o <<0>>
      BY <3>1, AppendIsConcat
    <3>3. <<0>> \in Seq(Nat) /\ \A i \in 1 .. Len(<<0>>) : <<0>>[i] = 0
      OBVIOUS
    <3> QED
      BY <2>1, <3>2, <3>3 DEF Longer
  <2> QED
    BY <2>1, <2>2, <2>3, SyncsStep
<1>8. ASSUME NEW c \in Clients, Drop(c)  PROVE QueueTypes' /\ Ids'
  <2>1. /\ toServer' = [toServer EXCEPT ![c] = <<>>]
        /\ serving' = Idle
           \/ serving' = [from |-> Server, id |-> 0, ops |-> <<>>, any |-> TRUE]
        /\ toClient' = toClient /\ todo' = todo
        /\ lastSentId' = lastSentId /\ lastRecvId' = lastRecvId
    BY <1>8, Unchanged DEF Drop
  <2>2. /\ serving' \in [from : Procs, id : Nat, ops : Seq(Requests), any : BOOLEAN]
        /\ serving'.from = Server /\ serving'.ops = <<>> /\ serving'.id = 0
    <3>1. \E b \in BOOLEAN : serving' = [from |-> Server, id |-> 0, ops |-> <<>>, any |-> b]
      BY <2>1 DEF Idle
    <3> QED
      BY <1>0, <3>1, NothingYet
  <2>3. /\ toServer' \in [Clients -> Seq(Packets)]
        /\ \A d \in Clients : toServer'[d] = toServer[d] \/ Len(toServer'[d]) = 0
    BY <2>1, NothingYet DEF QueueTypes
  <2>4. QueueTypes'
    <3>1. \A d \in Clients : \A i \in 1 .. Len(toServer'[d]) : Proper(d, toServer'[d][i].ops)
      BY <2>3 DEF QueueTypes
    <3>2. Proper(serving'.from, serving'.ops)
      BY <2>2, NothingYet
    <3> QED
      BY <2>1, <2>2, <2>3, <3>1, <3>2, PrimedQueues DEF QueueTypes
  <2> QED
    BY <1>0, <2>1, <2>2, <2>3, <2>4 DEF Ids
<1>9. ASSUME NEW c \in Clients, ClientTimer(c) \/ Sync(c)  PROVE QueueTypes' /\ Ids'
  <2> DEFINE p == [id |-> lastSentId[c], ops |-> todo[c]]
  <2>1. /\ todo' = [todo EXCEPT ![c] = <<>>]
        /\ toServer' = toServer \/ toServer' = [toServer EXCEPT ![c] = Append(@, p)]
        /\ serving' = serving /\ toClient' = toClient
        /\ lastSentId' = lastSentId /\ lastRecvId' = lastRecvId
    BY <1>9, Unchanged DEF ClientTimer, Sync, Transmitted
  <2>2. /\ p \in Packets /\ p.id = lastSentId[c] /\ Proper(c, p.ops)
        /\ lastSentId[c] \in Nat /\ toServer[c] \in Seq(Packets)
    BY DEF QueueTypes, Packets
  <2> HIDE DEF p
  <2>3. /\ Append(toServer[c], p) \in Seq(Packets)
        /\ \A i \in 1 .. Len(Append(toServer[c], p)) :
             \/ i \in 1 .. Len(toServer[c]) /\ Append(toServer[c], p)[i] = toServer[c][i]
             \/ Append(toServer[c], p)[i] = p
    <3>1. /\ Append(toServer[c], p) \in Seq(Packets)
          /\ Len(Append(toServer[c], p)) = Len(toServer[c]) + 1 /\ Len(toServer[c]) \in Nat
          /\ \A i \in 1 .. Len(toServer[c]) : Append(toServer[c], p)[i] = toServer[c][i]
          /\ Append(toServer[c], p)[Len(toServer[c]) + 1] = p
      BY <2>2, AppendProperties, LenProperties
    <3>2. \A i \in 1 .. Len(Append(toServer[c], p)) :
            i \in 1 .. Len(toServer[c]) \/ i = Len(toServer[c]) + 1
      BY <3>1
    <3> QED
      BY <3>1, <3>2
  <2>4. /\ toServer' \in [Clients -> Seq(Packets)]
        /\ \A d \in Clients : \/ toServer'[d] = toServer[d]
                              \/ d = c /\ toServer'[d] = Append(toServer[c], p)
    BY <2>1, <2>3 DEF QueueTypes
  <2>5. \A d \in Clients : \A i \in 1 .. Len(toServer'[d]) :
          Proper(d, toServer'[d][i].ops) /\ toServer'[d][i].id <= lastSentId[d]
    <3>1. \A d \in Clients : \A i \in 1 .. Len(toServer[d]) :
            Proper(d, toServer[d][i].ops) /\ toServer[d][i].id <= lastSentId[d]
      BY DEF QueueTypes, Ids
    <3>2. lastSentId[c] <= lastSentId[c]
      BY <2>2
    <3> QED
      BY <2>2, <2>3, <2>4, <3>1, <3>2
  <2>6. /\ todo' \in [Clients -> Seq(Requests)]
        /\ \A d \in Clients : todo'[d] = todo[d] \/ todo'[d] = <<>>
    BY <2>1, NothingYet DEF QueueTypes
  <2>7. QueueTypes'
    <3>1. \A d \in Clients : Proper(d, todo'[d])
      BY <2>6, NothingYet DEF QueueTypes
    <3> QED
      BY <2>1, <2>4, <2>5, <2>6, <3>1, PrimedQueues DEF QueueTypes
  <2> QED
    BY <2>1, <2>5, <2>7 DEF Ids
<1>10. ASSUME NEW c \in Clients, TakeSync(c), serving' = serving, toServer' = toServer,
              todo' = todo, lastSentId' = lastSentId
       PROVE  QueueTypes' /\ Ids'
  <2>1. /\ toClient[c] # <<>> /\ toClient' = [toClient EXCEPT ![c] = Tail(@)]
        /\ lastRecvId' = [lastRecvId EXCEPT ![c] = Received(c, Head(toClient[c]))]
    BY <1>10 DEF TakeSync
  <2>2. /\ toClient[c] \in Seq(Nat) /\ lastSentId[c] \in Nat /\ lastRecvId[c] \in Nat
        /\ \A i \in 1 .. Len(toClient[c]) : toClient[c][i] <= lastSentId[c]
        /\ lastRecvId[c] <= lastSentId[c]
    BY DEF QueueTypes, Ids
  <2>3. /\ Tail(toClient[c]) \in Seq(Nat) /\ Head(toClient[c]) \in Nat
        /\ Head(toClient[c]) <= lastSentId[c]
        /\ \A i \in 1 .. Len(Tail(toClient[c])) : Tail(toClient[c])[i] <= lastSentId[c]
    BY <2>1, <2>2, SentParts
  <2>4. Received(c, Head(toClient[c])) \in Nat
        /\ Received(c, Head(toClient[c])) <= lastSentId[c]
    BY <2>2, <2>3 DEF Received
  <2>5. /\ toClient' \in [Clients -> Seq(Nat)] /\ lastRecvId' \in [Clients -> Nat]
        /\ \A d \in Clients : /\ d # c => /\ toClient'[d] = toClient[d]
                                          /\ lastRecvId'[d] = lastRecvId[d]
                              /\ d = c => /\ toClient'[d] = Tail(toClient[c])
                                          /\ lastRecvId'[d] = Received(c, Head(toClient[c]))
    BY <2>1, <2>3, <2>4 DEF QueueTypes
  <2>6. QueueTypes'
    BY <1>10, <2>5, PrimedQueues DEF QueueTypes
  <2>7. ASSUME NEW d \in Clients
        PROVE  /\ lastRecvId'[d] <= lastSentId[d]
               /\ \A i \in 1 .. Len(toClient'[d]) : toClient'[d][i] <= lastSentId[d]
    BY <2>3, <2>4, <2>5 DEF Ids
  <2> QED
    BY <1>10, <2>6, <2>7 DEF Ids
<1>11. ASSUME NEW c \in Clients, Died(c), serving' = serving, toServer' = toServer,
              lastSentId' = lastSentId, lastRecvId' = lastRecvId
       PROVE  QueueTypes' /\ Ids'
  <2>1. /\ todo' = [todo EXCEPT ![c] = <<>>] /\ toClient' = [toClient EXCEPT ![c] = <<>>]
    BY <1>11 DEF Died
  <2>2. /\ todo' \in [Clients -> Seq(Requests)] /\ toClient' \in [Clients -> Seq(Nat)]
        /\ \A d \in Clients : /\ todo'[d] = todo[d] \/ todo'[d] = <<>>
                              /\ toClient'[d] = toClient[d] \/ Len(toClient'[d]) = 0
    BY <2>1, NothingYet DEF QueueTypes
  <2>3. QueueTypes'
    <3>1. \A d \in Clients : Proper(d, todo'[d])
      BY <2>2, NothingYet DEF QueueTypes
    <3> QED
      BY <1>11, <2>2, <3>1, PrimedQueues DEF QueueTypes
  <2>4. \A d \in Clients : \A i \in 1 .. Len(toClient'[d]) : toClient'[d][i] <= lastSentId[d]
    <3>1. ASSUME NEW d \in Clients, NEW i \in 1 .. Len(toClient'[d])
          PROVE  toClient'[d][i] <= lastSentId[d]
      <4>1. CASE toClient'[d] = toClient[d]
        BY <4>1 DEF Ids
      <4>2. CASE Len(toClient'[d]) = 0
        BY <4>2
      <4> QED
        BY <2>2, <4>1, <4>2
    <3> QED
      BY <3>1
  <2> QED
    BY <1>11, <2>3, <2>4 DEF Ids
<1>12. ASSUME NEW x \in Publish, NEW v \in Values \cup {Unset}, x[1] \in Clients,
              Request(x[1], x[2], v)
       PROVE  QueueTypes' /\ Ids'
  <2> DEFINE c == x[1]
             r == [kind |-> IF v = Unset THEN "rem" ELSE "add", path |-> x[2], value |-> v]
  <2>1. /\ todo' = [todo EXCEPT ![c] = Append(@, r)]
        /\ lastSentId' = [lastSentId EXCEPT ![c] = IF todo[c] = <<>> THEN @ + 1 ELSE @]
        /\ todo[c] = <<>> => lastSentId[c] < MaxPacks
        /\ serving' = serving /\ toServer' = toServer /\ toClient' = toClient
        /\ lastRecvId' = lastRecvId
    BY <1>12, Unchanged DEF Request, NewPackId
  <2>2. x[2] \in Paths /\ <<x[1], x[2]>> \in Publish
    BY Pairs
  <2>3. /\ r \in Requests /\ r.path = x[2] /\ r.value = v
        /\ r.kind = "add" => v # Unset
        /\ r.kind = "rem" => v = Unset
    BY <2>2 DEF Requests
  <2>4. todo[c] \in Seq(Requests) /\ Proper(c, todo[c]) /\ lastSentId[c] \in Nat
    BY <1>12 DEF QueueTypes
  <2> HIDE DEF r
  <2>5. Append(todo[c], r) \in Seq(Requests) /\ Proper(c, Append(todo[c], r))
    BY <2>2, <2>3, <2>4, ProperParts
  <2>6. /\ todo' \in [Clients -> Seq(Requests)]
        /\ \A d \in Clients : Proper(d, todo'[d])
    BY <1>12, <2>1, <2>5 DEF QueueTypes
  <2>7. /\ lastSentId' \in [Clients -> Nat]
        /\ \A d \in Clients : /\ lastSentId'[d] >= lastSentId[d]
                              /\ lastSentId'[d] <= MaxPacks
    <3>1. \A d \in Clients : lastSentId[d] \in Nat /\ lastSentId[d] <= MaxPacks
      BY DEF QueueTypes, Ids
    <3>2. \A d \in Clients : lastSentId'[d] = IF d = c /\ todo[c] = <<>> THEN lastSentId[d] + 1
                                              ELSE lastSentId[d]
      BY <1>12, <2>1 DEF QueueTypes
    <3>3. DOMAIN lastSentId' = Clients /\ lastSentId' = [d \in Clients |-> lastSentId'[d]]
      BY <2>1 DEF QueueTypes
    <3>4. \A d \in Clients : /\ lastSentId'[d] \in Nat /\ lastSentId'[d] >= lastSentId[d]
                             /\ lastSentId'[d] <= MaxPacks
      BY <2>1, <3>1, <3>2, BoundsAssumption
    <3> QED
      BY <3>3, <3>4
  <2>8. QueueTypes'
    BY <2>1, <2>6, <2>7, PrimedQueues DEF QueueTypes
  <2>9. ASSUME NEW d \in Clients
        PROVE  /\ lastRecvId[d] <= lastSentId'[d]
               /\ \A i \in 1 .. Len(toClient[d]) : toClient[d][i] <= lastSentId'[d]
               /\ \A i \in 1 .. Len(toServer[d]) : toServer[d][i].id <= lastSentId'[d]
               /\ serving.from = d => serving.id <= lastSentId'[d]
    <3>1. /\ lastSentId[d] \in Nat /\ lastSentId'[d] \in Nat /\ lastRecvId[d] \in Nat
          /\ lastSentId[d] <= lastSentId'[d] /\ serving.id \in Nat
          /\ toClient[d] \in Seq(Nat) /\ toServer[d] \in Seq(Packets)
      BY <1>0, <2>7 DEF QueueTypes
    <3>2. /\ \A i \in 1 .. Len(toClient[d]) : toClient[d][i] \in Nat
          /\ \A i \in 1 .. Len(toServer[d]) : toServer[d][i].id \in Nat
      <4>1. \A i \in 1 .. Len(toServer[d]) : toServer[d][i] \in Packets
        BY <3>1, ElementOfSeq
      <4>2. \A i \in 1 .. Len(toClient[d]) : toClient[d][i] \in Nat
        BY <3>1, ElementOfSeq
      <4> QED
        BY <4>1, <4>2 DEF Packets
    <3> QED
      BY <3>1, <3>2 DEF Ids
  <2> QED
    BY <2>1, <2>7, <2>8, <2>9 DEF Ids
<1>13. ASSUME NEW c \in Clients, ReceiveSync(c) \/ BeginPass(c)  PROVE QueueTypes' /\ Ids'
  <2>1. /\ TakeSync(c) /\ serving' = serving /\ toServer' = toServer
        /\ todo' = todo /\ lastSentId' = lastSentId
    BY <1>13, Unchanged DEF ReceiveSync, BeginPass
  <2> QED
    BY <1>10, <2>1
<1>14. ASSUME NEW c \in Clients, EndPass(c)  PROVE QueueTypes' /\ Ids'
  <2>1. serving' = serving
    BY <1>14, Unchanged DEF EndPass
  <2>2. CASE walking[c] \in Alive(value)
    <3>1. QueuesKept
      BY <1>14, <2>1, <2>2, Unchanged DEF EndPass, QueuesKept
    <3> QED
      BY <1>1, <3>1
  <2>3. CASE walking[c] \notin Alive(value)
    BY <1>11, <1>14, <2>1, <2>3 DEF EndPass
  <2> QED
    BY <2>2, <2>3
<1>15. ASSUME NEW c \in Clients, SyncReturn(c)  PROVE QueuesKept
  BY <1>15, Unchanged DEF SyncReturn, QueuesKept
<1>16. ASSUME NEW c \in Clients, Exit(c)  PROVE QueueTypes' /\ Ids'
  BY <1>11, <1>16, Unchanged DEF Exit
<1>17. ASSUME NEW x \in Publish, NEW v \in Values \cup {Unset}, LocalChange(x[2], v)
       PROVE  QueuesKept
  BY <1>17, Unchanged DEF LocalChange, QueuesKept
<1>18. ASSUME NEW x \in Subscribe, Hold(x) \/ Read(x) \/ Release(x)  PROVE QueuesKept
  BY <1>18, Unchanged DEF Hold, Read, Release, QueuesKept
<1> QED
  BY <1>1, <1>2, <1>3, <1>4, <1>5, <1>6, <1>7, <1>8, <1>9, <1>12, <1>13, <1>14, <1>15,
     <1>16, <1>17, <1>18 DEF Next, ServerStep, Deliver

\* The tree holds values, and so does what was asked for.
LEMMA TreeStep ==
  ASSUME TreeTypes, QueueTypes, [Next]_vars
  PROVE  TreeTypes'
<1>1. value' \in [Paths -> Values \cup {Unset}]
  <2>1. CASE value' = value
    BY <2>1 DEF TreeTypes
  <2>2. CASE Written
    <3>1. \E P : \E v \in Values \cup {Unset} : value' = Put(value, P, v)
      BY <2>2 DEF Written, SetItem, RemItems, Write
    <3> QED
      BY <3>1, PutIs DEF TreeTypes
  <2>3. value' = value \/ Written
    BY HandleStep
       DEF Kept, ServerPass, ReceiveSync, BeginPass, Arrives, Dies, Hold, Read, Release
  <2> QED
    BY <2>1, <2>2, <2>3
<1>2. asked' \in [Paths -> Values \cup {Unset}]
  <2>1. CASE asked' = asked
    BY <2>1 DEF TreeTypes
  <2>2. ASSUME NEW P, NEW v \in Values \cup {Unset}, asked' = Put(asked, P, v)
        PROVE  asked' \in [Paths -> Values \cup {Unset}]
    BY <2>2, PutIs DEF TreeTypes
  <2>3. ASSUME NEW c \in Clients, Died(c)  PROVE asked' \in [Paths -> Values \cup {Unset}]
    BY <2>3 DEF Died, TreeTypes
  <2>4. ASSUME NEW x \in Publish, NEW v \in Values \cup {Unset},
               LocalChange(x[2], v) \/ Request(x[1], x[2], v)
        PROVE  asked' \in [Paths -> Values \cup {Unset}]
    BY <2>2, <2>4 DEF LocalChange, Request
  <2>5. ASSUME NEW c \in Clients, EndPass(c) \/ Exit(c)
        PROVE  asked' = asked \/ Died(c)
    BY <2>5 DEF EndPass, Exit
  <2>6. ASSUME NEW c \in Clients, \/ ReceivePacket(c) \/ Drop(c) \/ ReceiveSync(c)
                                  \/ BeginPass(c) \/ ClientTimer(c) \/ Sync(c) \/ SyncReturn(c)
        PROVE  asked' = asked
    BY <2>6 DEF ReceivePacket, Drop, ReceiveSync, BeginPass, ClientTimer, Sync, SyncReturn
  <2>7. ServeRequest \/ Reply \/ ServerTimer \/ DropDone => asked' = asked
    BY DEF ServeRequest, Reply, ServerTimer, DropDone
  <2>8. ASSUME NEW x \in Subscribe, Hold(x) \/ Read(x) \/ Release(x)  PROVE asked' = asked
    BY <2>8 DEF Hold, Read, Release
  <2>9. UNCHANGED vars => asked' = asked
    BY Unchanged
  <2> QED
    BY <2>1, <2>3, <2>4, <2>5, <2>6, <2>7, <2>8, <2>9 DEF Next, ServerStep, Deliver
<1> QED
  BY <1>1, <1>2 DEF TreeTypes

\* Everybody starts with nothing but the packet an arriving client has sent.
LEMMA CoreInit == Init => Core
<1> SUFFICES ASSUME Init PROVE Core
  OBVIOUS
<1>1. TreeTypes
  BY DEF Init, TreeTypes
<1>2. HandleTypes /\ Places
  <2>1. /\ handle = [x \in Subscribe |-> NoHandle] /\ told = [x \in Subscribe |-> Unset]
        /\ forceChangeCount = [q \in Procs |-> 0] /\ walking = [c \in Clients |-> Nowhere]
        /\ nodeInterest = [c \in Clients |-> [n \in Nodes |-> 0]]
    BY DEF Init
  <2>2. HandleTypes
    BY <2>1, HandleParts DEF HandleTypes
  <2>3. Nowhere \notin Nodes
    BY NamesAssumption
  <2> QED
    BY <2>1, <2>2, <2>3, HandleParts DEF Places, Held
<1>3. QueueTypes /\ Ids
  <2> DEFINE r == [kind |-> "index", path |-> Root, value |-> Unset]
             p == [id |-> 0, ops |-> <<r>>]
  <2>1. /\ serving = Idle /\ toClient = Nothing /\ todo = Nothing
        /\ lastSentId = [c \in Clients |-> 0] /\ lastRecvId = [c \in Clients |-> 0]
        /\ toServer = [c \in Clients |-> IF c \notin Arriving THEN <<>> ELSE <<p>>]
    BY DEF Init
  <2>2. r \in Requests /\ r.kind = "index"
    BY DEF Requests
  <2> HIDE DEF r
  <2>3. <<r>> \in Seq(Requests) /\ \A c : Proper(c, <<r>>)
    BY <2>2 DEF Proper
  <2>4. p \in Packets /\ p.id = 0 /\ \A c : Proper(c, p.ops)
    BY <2>3 DEF Packets
  <2> HIDE DEF p
  <2>5. <<p>> \in Seq(Packets) /\ Len(<<p>>) = 1 /\ <<p>>[1] = p
    BY <2>4
  <2>6. toServer \in [Clients -> Seq(Packets)]
    BY <2>1, <2>5, NothingYet
  <2>7. \A c \in Clients : \A i \in 1 .. Len(toServer[c]) : toServer[c][i] = p
    BY <2>1, <2>5
  <2>8. /\ serving \in [from : Procs, id : Nat, ops : Seq(Requests), any : BOOLEAN]
        /\ serving.from = Server /\ serving.ops = <<>>
    BY <2>1, NothingYet DEF Idle, Procs
  <2>9. /\ toClient \in [Clients -> Seq(Nat)] /\ todo \in [Clients -> Seq(Requests)]
        /\ \A c \in Clients : toClient[c] = <<>> /\ todo[c] = <<>>
    BY <2>1, NothingYet DEF Nothing
  <2>10. QueueTypes
    BY <2>1, <2>4, <2>6, <2>7, <2>8, <2>9, NothingYet DEF QueueTypes
  <2>11. \A c \in Clients : c # Server /\ lastSentId[c] = 0 /\ lastRecvId[c] = 0
    BY <2>1, NamesAssumption
  <2>12. Len(<<>>) = 0
    BY NothingYet
  <2> QED
    BY <2>4, <2>7, <2>8, <2>9, <2>10, <2>11, <2>12, BoundsAssumption DEF Ids
<1> QED
  BY <1>1, <1>2, <1>3 DEF Core

\* The invariant is kept by every step.
LEMMA CoreStep == Core /\ [Next]_vars => Core'
BY TreeStep, PlacesStep, QueueStep DEF Core

\* So it always holds.
LEMMA CoreAlways == Spec => []Core
BY CoreInit, CoreStep, PTL DEF Spec

\* Shape: every variable has its type, and no count of handles or of forced
\* changes ever goes below zero (decNode() asserts it, sharedmemorylayer.cpp 3222).
THEOREM LayerTypes == Spec => []TypeOK
<1>1. Core => TypeOK
  BY DEF Core, TreeTypes, HandleTypes, QueueTypes, Ids, TypeOK, Handle
<1> QED
  BY <1>1, CoreAlways, PTL

\* A client's index has a bit for the node of its handle and for no other: the
\* pairing of incNode() and decNode() in refreshHandle(), clearHandle() and
\* removeHandle(), whatever the server writes in the middle of a pass.
THEOREM IndexFollowsHandles == Spec => []IndexMatchesHandles
<1>1. ASSUME Core, NEW c \in Clients  PROVE Indexed(c) = {HandleOf(c).at} \ {Nowhere}
  <2>1. \A n \in Nodes : nodeInterest[c][n] > 0 <=> n = HandleOf(c).at
    <3>1. CASE \E x \in Subscribe : x[1] = c /\ Held(x)
      <4>1. PICK x \in Subscribe : x[1] = c /\ Held(x)
        BY <3>1
      <4>2. HandleOf(c) = handle[x] /\ \A y \in Subscribe : y[1] = c => y = x
        BY <4>1, MineIs, OneHandle
      <4>3. \A n \in Nodes : nodeInterest[c][n] = IF n = handle[x].at THEN 1 ELSE 0
        BY <1>1, <4>1, <4>2 DEF Core, Places
      <4> QED
        BY <4>2, <4>3
    <3>2. CASE \A x \in Subscribe : x[1] = c => ~Held(x)
      <4>1. HandleOf(c) = NoHandle /\ \A x \in Subscribe : x[1] = c => handle[x] = NoHandle
        BY <3>2, MineIs DEF Held
      <4>2. NoHandle.at \notin Nodes
        BY NamesAssumption, HandleParts
      <4>3. \A n \in Nodes : nodeInterest[c][n] = 0
        BY <1>1, <4>1, <4>2 DEF Core, Places
      <4> QED
        BY <4>1, <4>2, <4>3
    <3> QED
      BY <3>1, <3>2
  <2>2. HandleOf(c).at \in Nodes \cup {Nowhere}
    <3>1. HandleOf(c) = NoHandle \/ \E x \in Subscribe : HandleOf(c) = handle[x]
      BY MineIs
    <3> QED
      BY <1>1, <3>1, HandleParts DEF Core, HandleTypes
  <2>3. Nowhere \notin Nodes
    BY NamesAssumption
  <2> QED
    BY <2>1, <2>2, <2>3 DEF Indexed
<1>2. Core => IndexMatchesHandles
  BY <1>1 DEF IndexMatchesHandles
<1> QED
  BY <1>2, CoreAlways, PTL

-----------------------------------------------------------------------------
(* No handle is stuck.                                                     *)

\* A write that leaves a handle's version alone leaves its path's deepest node
\* where it was.
LEMMA WriteKeepsClosest ==
  ASSUME TreeTypes, HandleTypes, Places, Written, NEW x \in Subscribe, Held(x),
         handle'[x].seen = "same", handle[x].at = Closest(value, x[2])
  PROVE  handle'[x].at = Closest(value', x[2])
<1> DEFINE n == handle[x].at
           p == x[2]
<1>0. p \in Seq(STRING) /\ value \in [Paths -> Values \cup {Unset}]
  BY Pairs DEF TreeTypes
<1>1. /\ n \in Prefixes(p) \cap Alive(value)
      /\ \A m \in Prefixes(p) \cap Alive(value) : Len(m) \in Nat /\ Len(m) <= Len(n)
  BY <1>0, ClosestIs
<1>2. ASSUME NEW q \in Paths, NEW v \in Values, SetItem(q, v)
      PROVE  handle'[x].at = Closest(value', p)
  <2>1. Write(Put(value, {q}, v), SetBumps(q)) /\ SetBumps(q) \in SUBSET Nodes
    BY <1>2, BumpedNodes DEF SetItem
  <2>2. /\ value' = Put(value, {q}, v) /\ handle'[x].at = n
        /\ n \notin SetBumps(q)
    BY <2>1, WriteIs
  <2>3. Alive(value') = Alive(value) \cup Prefixes(q)
    BY <1>0, <2>2, TreeAfter
  <2>4. ASSUME NEW m \in Prefixes(p) \cap Alive(value')  PROVE Len(m) <= Len(n)
    <3>1. CASE m \in Alive(value)
      BY <1>1, <3>1
    <3>2. CASE m \in Prefixes(q)
      <4>1. Len(m) \in Nat /\ Len(n) \in Nat /\ q \in Seq(STRING)
        BY <1>0, <1>1, PrefixOf, Pairs
      <4>2. CASE Len(n) <= Len(m)
        <5>1. n \in Prefixes(m)
          BY <1>0, <1>1, <4>2, ShorterPrefix
        <5>2. n \in Prefixes(q)
          BY <3>2, <4>1, <5>1, MorePrefixes
        <5> QED
          BY <2>2, <5>2 DEF SetBumps, WayTo
      <4>3. ~(Len(n) <= Len(m)) => Len(m) <= Len(n)
        <5> DEFINE a == Len(n)
                   b == Len(m)
        <5>1. a \in Nat /\ b \in Nat
          BY <4>1
        <5> HIDE DEF a, b
        <5>2. ~(a <= b) => b <= a
          BY <5>1
        <5> QED
          BY <5>2 DEF a, b
      <4> QED
        BY <4>2, <4>3
    <3> QED
      BY <2>3, <3>1, <3>2
  <2>5. n \in Prefixes(p) \cap Alive(value')
    BY <1>1, <2>3
  <2> QED
    BY <1>0, <2>2, <2>4, <2>5, ClosestIs
<1>3. ASSUME NEW P, RemItems(P)  PROVE handle'[x].at = Closest(value', p)
  <2>1. Write(Put(value, P, Unset), RemBumps(P)) /\ RemBumps(P) \in SUBSET Nodes
    BY <1>3, BumpedNodes DEF RemItems
  <2>2. /\ value' = Put(value, P, Unset) /\ handle'[x].at = n
        /\ n \notin Alive(value) \ Alive(value')
    BY <2>1, WriteIs
  <2>3. Alive(value') \subseteq Alive(value)
    BY <1>0, <2>2, TreeAfter
  <2>4. n \in Prefixes(p) \cap Alive(value')
    BY <1>1, <2>2
  <2>5. \A m \in Prefixes(p) \cap Alive(value') : Len(m) <= Len(n)
    BY <1>1, <2>3
  <2> QED
    BY <1>0, <2>2, <2>4, <2>5, ClosestIs
<1> QED
  BY <1>2, <1>3 DEF Written

\* A handle that remembers the present version is where its path leads.
LEMMA NotStuckStep ==
  Overtaken = {} /\ Core /\ HandleNotStuck /\ [Next]_vars => HandleNotStuck'
<1> SUFFICES ASSUME Overtaken = {}, Core, HandleNotStuck, [Next]_vars,
                    NEW x \in Subscribe, handle'[x] # NoHandle, handle'[x].seen = "same"
             PROVE  handle'[x].at = Closest(value', x[2])
  BY DEF HandleNotStuck, Held
<1>0. TreeTypes /\ HandleTypes /\ QueueTypes /\ Places
  BY DEF Core
<1>1. ASSUME Held(x)  PROVE Found(x[1]) = Closest(value, x[2])
  <2>1. Found(x[1]) = Refreshed(handle[x], x[2]).at
    BY <1>1, MineIs
  <2> QED
    BY <1>0, <1>1, <2>1, RefreshedIs DEF HandleNotStuck
<1>2. \A c \in Clients : walking[c] = Nowhere
  BY <1>0 DEF Places
<1>3. CASE value' = value /\ handle'[x] = handle[x]
  BY <1>3 DEF HandleNotStuck, Held
<1>4. CASE Written
  <2>1. \E val : \E bumped \in SUBSET Nodes : Write(val, bumped)
    <3>1. ASSUME NEW p \in Paths, NEW v \in Values, SetItem(p, v)
          PROVE  \E val : \E bumped \in SUBSET Nodes : Write(val, bumped)
      BY <3>1, BumpedNodes DEF SetItem
    <3>2. ASSUME NEW P, RemItems(P)
          PROVE  \E val : \E bumped \in SUBSET Nodes : Write(val, bumped)
      BY <3>2, BumpedNodes DEF RemItems
    <3> QED
      BY <1>4, <3>1, <3>2 DEF Written
  <2>2. Held(x) /\ handle[x].seen = "same"
    BY <1>0, <2>1, WriteIs
  <2> QED
    BY <1>0, <1>4, <2>2, WriteKeepsClosest DEF HandleNotStuck
<1>5. ASSUME NEW q \in Procs, Emit(q, Found(q)), value' = value
      PROVE  handle'[x].at = Closest(value', x[2])
  <2>1. handle'[x] = IF x[1] = q /\ Held(x)
                     THEN [at |-> Found(q), seen |-> "same", forceChange |-> FALSE]
                     ELSE handle[x]
    BY <1>5 DEF Emit
  <2>2. CASE x[1] = q /\ Held(x)
    <3>1. handle'[x].at = Found(q)
      BY <2>1, <2>2
    <3> QED
      BY <1>1, <1>5, <2>2, <3>1
  <2>3. CASE ~(x[1] = q /\ Held(x))
    BY <1>3, <1>5, <2>1, <2>3
  <2> QED
    BY <2>2, <2>3
<1>6. ASSUME NEW c \in Clients, Dies(c)  PROVE handle'[x].at = Closest(value', x[2])
  <2>1. value' = value /\ handle'[x] = IF x[1] = c THEN NoHandle ELSE handle[x]
    BY <1>6 DEF Dies, Died
  <2> QED
    BY <1>3, <2>1
<1>7. ASSUME NEW y \in Subscribe, Hold(y) \/ Read(y) \/ Release(y)
      PROVE  handle'[x].at = Closest(value', x[2])
  <2>1. value' = value /\ (y # x => handle'[x] = handle[x])
    BY <1>0, <1>7, OwnStep DEF Hold, Read, Release
  <2>2. CASE y # x
    BY <1>3, <2>1, <2>2
  <2>3. CASE Hold(x)
    <3> DEFINE at == Closest(value, x[2])
    <3>1. handle'[x] = [NoHandle EXCEPT !.at = at]
      BY <1>0, <2>3 DEF Hold, HandleTypes
    <3> HIDE DEF at
    <3>2. handle'[x].at = at
      BY <3>1 DEF NoHandle
    <3> QED
      BY <2>1, <3>2 DEF at
  <2>4. CASE Read(x)
    <3> DEFINE r == Refreshed(handle[x], x[2])
    <3>1. Held(x) /\ \E b : handle'[x] = [r EXCEPT !.forceChange = b]
      BY <1>0, <2>4 DEF Read, HandleTypes
    <3>2. r \in Handle /\ r.at = Closest(value, x[2])
      BY <1>0, <3>1, RefreshedIs DEF HandleNotStuck
    <3> HIDE DEF r
    <3>3. handle'[x].at = r.at
      BY <3>1, <3>2 DEF Handle
    <3> QED
      BY <2>1, <3>2, <3>3
  <2>5. CASE Release(x)
    BY <1>0, <2>5 DEF Release, HandleTypes
  <2> QED
    BY <1>7, <2>2, <2>3, <2>4, <2>5
<1>8. Server \in Procs /\ \A c \in Clients : c \in Procs
  BY DEF Procs
<1>9. ASSUME NEW c \in Clients, BeginPass(c) \/ Arrives(c)  PROVE FALSE
  BY <1>2, <1>9 DEF BeginPass, Arrives
<1>10. Kept \/ ServerPass => value' = value
  BY DEF Kept, ServerPass
<1>11. ASSUME NEW c \in Clients, ReceiveSync(c)  PROVE value' = value /\ Emit(c, Found(c))
  BY <1>11 DEF ReceiveSync
<1> QED
  BY <1>0, <1>3, <1>4, <1>5, <1>6, <1>7, <1>8, <1>9, <1>10, <1>11, HandleStep
     DEF Kept, ServerPass

\* No value() call answers from a place that its path has grown past, as long as
\* no pass over the handles can be overtaken by the server: what the lock that
\* refreshHandle() asks for, and doClientEmit() does not take, would give.
THEOREM NoHandleStuck == Overtaken = {} => (Spec => []HandleNotStuck)
<1> SUFFICES ASSUME Overtaken = {} PROVE Spec => []HandleNotStuck
  OBVIOUS
<1>1. Init => HandleNotStuck
  BY DEF Init, HandleNotStuck, Held
<1>2. Core /\ HandleNotStuck /\ [Next]_vars => HandleNotStuck'
  BY NotStuckStep
<1> QED
  BY <1>1, <1>2, CoreAlways, PTL DEF Spec

-----------------------------------------------------------------------------
(* Who has not been told, and who will wake it.                            *)

Stale(x) == Held(x) /\ told[x] # value[x[2]]
\* Who is connected, what a handle remembers of what it told last, and who will
\* wake a handle whose process has not been told.
Connected ==
  /\ \A x \in Subscribe : x[1] \in gone => ~Held(x)
  /\ gone \subseteq Clients /\ Clients \ gone \subseteq connections
Remembers ==
  \A x \in Subscribe :
    /\ Held(x) /\ told[x] # Unset => handle[x].forceChange \/ handle[x].at = x[2]
    /\ Stale(x) => handle[x].forceChange \/ handle[x].seen # "same"
Woken ==
  \A x \in Subscribe :
    /\ Stale(x) /\ x[1] = Server => timer \/ serving.any
    /\ Stale(x) /\ x[1] \in Clients /\ toClient[x[1]] = <<>> =>
         serving.any /\ (serving.from = Server \/ Prefixes(x[2]) \subseteq changedNodes)

\* No pass is overtaken, and no client subscribes at the root or to what the
\* server's own process publishes.
Apart ==
  /\ Overtaken = {}
  /\ \A x \in Subscribe : /\ x[2] # Root
                          /\ x[1] \in Clients => <<Server, x[2]>> \notin Publish

\* A path with a value is its own deepest node.
LEMMA ValueIsClosest ==
  ASSUME NEW val, NEW p \in Paths, val[p] # Unset
  PROVE  Closest(val, p) = p
<1>1. p \in Seq(STRING)
  BY Pairs
<1>2. p \in Prefixes(p) \cap Alive(val)
  BY <1>1, MorePrefixes DEF Alive
<1>3. \A m \in Prefixes(p) \cap Alive(val) : Len(m) <= Len(p)
  BY <1>1, PrefixOf
<1> QED
  BY <1>1, <1>2, <1>3, ClosestIs

\* A write that changes what a subscriber sees bumps the way to it.
LEMMA ChangeBumps ==
  ASSUME TreeTypes, Apart, NEW x \in Subscribe
  PROVE  /\ \A q \in Paths, v \in Values :
              Put(value, {q}, v)[x[2]] # value[x[2]] =>
                 q = x[2] /\ Prefixes(x[2]) = SetBumps(q)
         /\ \A P : Put(value, P, Unset)[x[2]] # value[x[2]] =>
              x[2] \in P /\ Prefixes(x[2]) \subseteq RemBumps(P)
<1> DEFINE p == x[2]
<1>0. /\ p \in Paths /\ p \in Seq(STRING) /\ p # Root
      /\ value \in [Paths -> Values \cup {Unset}]
  BY Pairs DEF Apart, TreeTypes
<1>1. ASSUME NEW q \in Paths, NEW v \in Values, Put(value, {q}, v)[p] # value[p]
      PROVE  q = p /\ Prefixes(p) = SetBumps(q)
  BY <1>0, <1>1, PutIs DEF SetBumps, WayTo
<1>2. ASSUME NEW P, Put(value, P, Unset)[p] # value[p]
      PROVE  p \in P /\ Prefixes(p) \subseteq RemBumps(P)
  <2> DEFINE after == Put(value, P, Unset)
  <2>1. /\ p \in P /\ value[p] # Unset /\ after[p] = Unset
    BY <1>0, <1>2, PutIs
  <2>2. p \in Alive(value)
    BY <1>0, <2>1, MorePrefixes DEF Alive
  <2>3. p \notin Alive(after)
    <3>1. SUFFICES ASSUME NEW q \in Paths, after[q] # Unset, p \in Prefixes(q)  PROVE FALSE
      BY <1>0 DEF Alive
    <3>2. q # p
      BY <2>1, <3>1
    <3>3. Prefixes(p) \cap Prefixes(q) = {Root}
      BY <3>2, RestingPlaces
    <3> QED
      BY <1>0, <3>1, <3>3, MorePrefixes
  <2> QED
    BY <2>1, <2>2, <2>3 DEF RemBumps, WayTo
<1> QED
  BY <1>1, <1>2

\* A pass in one go leaves no handle of its process with a change untold.
LEMMA PassTells ==
  ASSUME Core, HandleNotStuck, Remembers, NEW q \in Procs, Emit(q, Found(q)),
         NEW x \in Subscribe, x[1] = q, Held(x)
  PROVE  told'[x] = value[x[2]] /\ (told'[x] # Unset => handle'[x].at = x[2])
<1> DEFINE h == handle[x]
           p == x[2]
           at == Found(q)
<1>0. TreeTypes /\ HandleTypes /\ Places /\ p \in Paths /\ h \in Handle
  BY Pairs DEF Core, HandleTypes
<1>1. at = Closest(value, p)
  <2>1. at = Refreshed(h, p).at
    BY MineIs
  <2> QED
    BY <1>0, <2>1, RefreshedIs DEF HandleNotStuck
<1>2. at \in Nodes
  BY <1>0, MineIs, RefreshedIs
<1>3. /\ handle'[x] = [at |-> at, seen |-> "same", forceChange |-> FALSE]
      /\ SignalForced(h, at, p) => told'[x] = value[p]
      /\ ~SignalForced(h, at, p) => told'[x] = told[x]
  <2>1. \A y \in Subscribe : y[1] = q /\ Held(y) => at \in Nodes
    BY <1>2
  <2> HIDE DEF at, h, p
  <2> QED
    BY <1>0, <1>2, <2>1, EmitIs DEF at, h, p
<1>4. value[p] # Unset => at = p
  BY <1>0, <1>1, ValueIsClosest
<1>5. told'[x] = value[p]
  <2>1. CASE SignalForced(h, at, p)
    BY <1>3, <2>1
  <2>2. CASE ~SignalForced(h, at, p)
    <3>1. ~h.forceChange /\ (at = p => h.at = at /\ h.seen = "same") /\ (at # p => h.at # p)
      BY <2>2 DEF SignalForced, Moved
    <3>2. CASE at = p
      BY <1>3, <2>2, <3>1, <3>2 DEF Remembers, Stale
    <3>3. CASE at # p
      <4>1. value[p] = Unset /\ told[x] = Unset
        BY <1>4, <3>1, <3>3 DEF Remembers
      <4> QED
        BY <1>3, <2>2, <4>1
    <3> QED
      BY <3>2, <3>3
  <2> QED
    BY <2>1, <2>2
<1> QED
  BY <1>3, <1>4, <1>5

\* A value() call that finds its handle moved remembers to say so.
LEMMA ReadRemembers ==
  ASSUME Core, HandleNotStuck, Remembers, NEW x \in Subscribe, Read(x)
  PROVE  /\ told'[x] # Unset => handle'[x].forceChange \/ handle'[x].at = x[2]
         /\ told'[x] # value'[x[2]] => handle'[x].forceChange
<1> DEFINE h == handle[x]
           p == x[2]
           r == Refreshed(h, p)
           force == \/ h.forceChange
                    \/ h.seen = "gone" /\ h.at = p
                    \/ Moved(h, r.at, p)
<1>0. TreeTypes /\ HandleTypes /\ Places /\ p \in Paths /\ h \in Handle
  BY Pairs DEF Core, HandleTypes
<1>1. /\ Held(x) /\ told' = told /\ value' = value
      /\ handle' = [handle EXCEPT ![x] = [r EXCEPT !.forceChange = force]]
  BY Unchanged DEF Read
<1>2. r \in Handle /\ r.at = Closest(value, p)
  BY <1>0, <1>1, RefreshedIs DEF HandleNotStuck
<1>3. handle'[x].at = r.at /\ handle'[x].forceChange = force
  <2>1. handle'[x] = [r EXCEPT !.forceChange = force]
    BY <1>0, <1>1 DEF HandleTypes
  <2> HIDE DEF r, force
  <2> QED
    BY <1>2, <2>1 DEF Handle
<1>4. value[p] # Unset => r.at = p
  BY <1>0, <1>2, ValueIsClosest
<1>5. told[x] # Unset => force \/ r.at = p
  <2>1. told[x] # Unset => h.forceChange \/ h.at = p
    BY <1>1 DEF Remembers
  <2>2. h.at = p => r.at = p \/ Moved(h, r.at, p)
    BY DEF Moved
  <2> QED
    BY <2>1, <2>2
<1>6. told[x] # value[p] => force
  <2>1. told[x] # value[p] => h.forceChange \/ h.seen # "same"
    BY <1>1 DEF Remembers, Stale
  <2>2. h.seen # "same" /\ r.at = p => Moved(h, r.at, p)
    BY DEF Moved
  <2>3. told[x] # value[p] /\ r.at # p => told[x] # Unset
    BY <1>4
  <2>4. told[x] # Unset => h.forceChange \/ h.at = p
    BY <1>1 DEF Remembers
  <2>5. r.at # p /\ h.at = p => Moved(h, r.at, p)
    BY DEF Moved
  <2> QED
    BY <2>1, <2>2, <2>3, <2>4, <2>5
<1> QED
  BY <1>1, <1>3, <1>5, <1>6

\* What the writes, the passes and the deaths of clients leave of a handle.
LEMMA HandleAfter ==
  ASSUME Core, HandleNotStuck, Remembers, Apart, [Next]_vars, NEW x \in Subscribe
  PROVE  \/ handle'[x] = handle[x] /\ told'[x] = told[x] /\ value' = value
         \/ Written
         \/ told'[x] = value'[x[2]] /\ (told'[x] # Unset => handle'[x].at = x[2])
         \/ handle'[x] = NoHandle
         \/ Read(x)
<1>0. TreeTypes /\ HandleTypes /\ QueueTypes /\ Places
  BY DEF Core
<1>1. ASSUME NEW q \in Procs, Emit(q, Found(q)), value' = value
      PROVE  \/ handle'[x] = handle[x] /\ told'[x] = told[x] /\ value' = value
             \/ told'[x] = value'[x[2]] /\ (told'[x] # Unset => handle'[x].at = x[2])
  <2>1. CASE x[1] = q /\ Held(x)
    BY <1>1, <2>1, PassTells
  <2>2. CASE ~(x[1] = q /\ Held(x))
    BY <1>1, <2>2 DEF Emit
  <2> QED
    BY <2>1, <2>2
<1>2. ASSUME NEW c \in Clients, BeginPass(c) \/ Arrives(c)  PROVE FALSE
  BY <1>0, <1>2 DEF BeginPass, Arrives, Apart, Places
<1>3. ASSUME NEW c \in Clients, Dies(c)
      PROVE  \/ handle'[x] = handle[x] /\ told'[x] = told[x] /\ value' = value
             \/ handle'[x] = NoHandle
  BY <1>3 DEF Dies, Died
<1>4. ASSUME NEW y \in Subscribe, Hold(y) \/ Read(y) \/ Release(y), y # x
      PROVE  handle'[x] = handle[x] /\ told'[x] = told[x] /\ value' = value
  BY <1>0, <1>4, Unchanged DEF Hold, Read, Release, HandleTypes
<1>5. CASE Hold(x)
  <2> DEFINE at == Closest(value, x[2])
  <2>1. /\ handle'[x] = [NoHandle EXCEPT !.at = at] /\ told'[x] = value[x[2]]
        /\ value' = value
    BY <1>0, <1>5 DEF Hold, HandleTypes
  <2>2. x[2] \in Paths
    BY Pairs
  <2>3. value[x[2]] # Unset => at = x[2]
    BY <2>2, ValueIsClosest
  <2> HIDE DEF at
  <2>4. handle'[x].at = at
    BY <2>1 DEF NoHandle
  <2> QED
    BY <2>1, <2>3, <2>4
<1>6. CASE Release(x)
  BY <1>0, <1>6 DEF Release, HandleTypes
<1>7. Server \in Procs /\ \A c \in Clients : c \in Procs
  BY DEF Procs
<1>8. ASSUME NEW c \in Clients, ReceiveSync(c)  PROVE value' = value /\ Emit(c, Found(c))
  BY <1>8 DEF ReceiveSync
<1> QED
  BY <1>0, <1>1, <1>2, <1>3, <1>4, <1>5, <1>6, <1>7, <1>8, HandleStep
     DEF Kept, ServerPass

\* A write keeps what was remembered, and makes it remembered where it changes
\* what a subscriber sees.
LEMMA WriteRemembers ==
  ASSUME Core, Remembers, Apart, Written, NEW x \in Subscribe
  PROVE  /\ handle'[x] # NoHandle => Held(x)
         /\ told'[x] = told[x] /\ handle'[x].at = handle[x].at
         /\ handle'[x].forceChange = handle[x].forceChange
         /\ handle'[x] # NoHandle /\ told'[x] # value'[x[2]] =>
              handle'[x].forceChange \/ handle'[x].seen # "same"
<1>0. TreeTypes /\ HandleTypes /\ Places
  BY DEF Core
<1>1. told' = told
  BY DEF Written
<1>2. ASSUME NEW val, NEW bumped \in SUBSET Nodes, Write(val, bumped),
             val[x[2]] # value[x[2]] => Prefixes(x[2]) \subseteq bumped
      PROVE  /\ handle'[x] # NoHandle => Held(x)
             /\ handle'[x].at = handle[x].at
             /\ handle'[x].forceChange = handle[x].forceChange
             /\ handle'[x] # NoHandle /\ told'[x] # value'[x[2]] =>
                  handle'[x].forceChange \/ handle'[x].seen # "same"
  <2>1. /\ value' = val
        /\ handle'[x].at = handle[x].at
        /\ handle'[x].forceChange = handle[x].forceChange
        /\ ~Held(x) => handle'[x] = NoHandle
        /\ handle'[x].seen = "same" =>
             handle[x].seen = "same" /\ handle[x].at \notin bumped
    BY <1>0, <1>2, WriteIs
  <2>2. Held(x) => handle[x].at \in Prefixes(x[2])
    BY <1>0 DEF Places
  <2>3. CASE val[x[2]] # value[x[2]]
    BY <1>2, <2>1, <2>2, <2>3
  <2>4. CASE val[x[2]] = value[x[2]]
    BY <1>1, <2>1, <2>4 DEF Remembers, Stale
  <2> QED
    BY <2>1, <2>3, <2>4
<1>3. ASSUME NEW q \in Paths, NEW v \in Values, SetItem(q, v)
      PROVE  \E val : \E bumped \in SUBSET Nodes :
               /\ Write(val, bumped)
              /\ (val[x[2]] # value[x[2]] => Prefixes(x[2]) \subseteq bumped)
  BY <1>0, <1>3, ChangeBumps, BumpedNodes DEF SetItem
<1>4. ASSUME NEW P, RemItems(P)
      PROVE  \E val : \E bumped \in SUBSET Nodes :
               /\ Write(val, bumped)
              /\ (val[x[2]] # value[x[2]] => Prefixes(x[2]) \subseteq bumped)
  BY <1>0, <1>4, ChangeBumps, BumpedNodes DEF RemItems
<1> QED
  BY <1>1, <1>2, <1>3, <1>4 DEF Written

\* Every step leaves a handle remembering what it told last.
LEMMA RemembersStep ==
  Core /\ HandleNotStuck /\ Remembers /\ Apart /\ [Next]_vars => Remembers'
<1> SUFFICES ASSUME Core, HandleNotStuck, Remembers, Apart, [Next]_vars, NEW x \in Subscribe,
                    handle'[x] # NoHandle
             PROVE  /\ told'[x] # Unset => handle'[x].forceChange \/ handle'[x].at = x[2]
                    /\ told'[x] # value'[x[2]] =>
                         handle'[x].forceChange \/ handle'[x].seen # "same"
  BY DEF Remembers, Stale, Held
<1>1. CASE handle'[x] = handle[x] /\ told'[x] = told[x] /\ value' = value
  BY <1>1 DEF Remembers, Stale, Held
<1>2. CASE Written
  BY <1>2, WriteRemembers DEF Remembers, Stale
<1>3. CASE told'[x] = value'[x[2]] /\ (told'[x] # Unset => handle'[x].at = x[2])
  BY <1>3
<1>4. CASE Read(x)
  BY <1>4, ReadRemembers
<1> QED
  BY <1>1, <1>2, <1>3, <1>4, HandleAfter

\* Only a write makes a handle stale.
LEMMA StaleBefore ==
  ASSUME Core, HandleNotStuck, Remembers, Apart, [Next]_vars, NEW x \in Subscribe, Stale(x)'
  PROVE  Stale(x) \/ (Written /\ Held(x) /\ value'[x[2]] # value[x[2]])
<1>1. handle'[x] # NoHandle /\ told'[x] # value'[x[2]]
  BY DEF Stale, Held
<1>2. CASE handle'[x] = handle[x] /\ told'[x] = told[x] /\ value' = value
  BY <1>1, <1>2 DEF Stale, Held
<1>3. CASE Written
  BY <1>1, <1>3, WriteRemembers DEF Stale
<1>4. CASE Read(x)
  BY <1>1, <1>4, Unchanged DEF Read, Stale
<1> QED
  BY <1>1, <1>2, <1>3, <1>4, HandleAfter

\* After a pass nothing of its process is.
LEMMA PassLeavesNone ==
  ASSUME Core, HandleNotStuck, Remembers, NEW q \in Procs, Emit(q, Found(q)), value' = value,
         NEW x \in Subscribe, x[1] = q
  PROVE  ~Stale(x)'
<1>1. CASE Held(x)
  BY <1>1, PassTells DEF Stale
<1>2. CASE ~Held(x)
  <2>1. handle'[x] = handle[x]
    BY <1>2 DEF Emit
  <2> QED
    BY <1>2, <2>1 DEF Stale, Held
<1> QED
  BY <1>1, <1>2

\* A client that is gone holds nothing, and the server is connected to the rest.
LEMMA ConnectedStep == Core /\ Connected /\ [Next]_vars => Connected'
<1> SUFFICES ASSUME Core, Connected, [Next]_vars PROVE Connected'
  OBVIOUS
<1>0. /\ TreeTypes /\ HandleTypes /\ QueueTypes /\ Places
      /\ Server \in Procs /\ \A c \in Clients : c \in Procs /\ c # Server
  BY NamesAssumption DEF Core, Procs
<1>1. ASSUME gone' = gone, connections' = connections,
             \A x \in Subscribe : handle'[x] # NoHandle => Held(x)
      PROVE  Connected'
  BY <1>1 DEF Connected, Held
<1>2. ASSUME gone' = gone, connections' = connections, handle' = handle
      PROVE  Connected'
  BY <1>1, <1>2 DEF Held
<1>3. ASSUME NEW val, NEW bumped \in SUBSET Nodes, Write(val, bumped)
      PROVE  \A x \in Subscribe : handle'[x] # NoHandle => Held(x)
  BY <1>0, <1>3, WriteIs
<1>4. ASSUME NEW q, NEW at, Emit(q, at)
      PROVE  \A x \in Subscribe : handle'[x] # NoHandle => Held(x)
  BY <1>4 DEF Emit, Held
<1>5. ASSUME NEW c \in Clients, Died(c), connections' = connections  PROVE Connected'
  <2>1. /\ gone' = gone \cup {c}
        /\ \A x \in Subscribe : handle'[x] = IF x[1] = c THEN NoHandle ELSE handle[x]
    BY <1>5 DEF Died
  <2> QED
    BY <1>5, <2>1 DEF Connected, Held
<1>6. ASSUME NEW q \in Paths, NEW v \in Values, SetItem(q, v)
      PROVE  \A x \in Subscribe : handle'[x] # NoHandle => Held(x)
  BY <1>3, <1>6, BumpedNodes DEF SetItem
<1>7. ASSUME NEW P, RemItems(P)
      PROVE  \A x \in Subscribe : handle'[x] # NoHandle => Held(x)
  BY <1>3, <1>7, BumpedNodes DEF RemItems
<1>8. CASE UNCHANGED vars
  BY <1>2, <1>8, Unchanged
<1>9. ASSUME NEW c \in Clients, ReceivePacket(c)  PROVE Connected'
  BY <1>2, <1>9, Unchanged DEF ReceivePacket
<1>10. CASE ServeRequest
  <2>1. gone' = gone /\ connections' = connections
    BY <1>10, Unchanged DEF ServeRequest
  <2>2. handle' = handle \/ Written
    <3> DEFINE op == Head(serving.ops)
    <3>1. /\ serving.ops # <<>>
          /\ \/ handle' = handle
             \/ op.kind = "add" /\ SetItem(op.path, op.value)
             \/ RemItems(Owned(serving.from, op.path))
      BY <1>10 DEF ServeRequest
    <3>2. /\ told' = told /\ forceChangeCount' = forceChangeCount
          /\ nodeInterest' = nodeInterest /\ walking' = walking
      BY <1>10, Unchanged DEF ServeRequest
    <3>3. op.kind = "add" => op.path \in Paths /\ op.value \in Values
      BY <1>0, <3>1, ServedRequest
    <3> QED
      BY <3>1, <3>2, <3>3 DEF Written
  <2> QED
    BY <1>1, <1>2, <1>6, <1>7, <2>1, <2>2 DEF Written
<1>11. CASE Reply \/ ServerTimer \/ DropDone
  <2>1. gone' = gone /\ connections' = connections
    BY <1>11, Unchanged DEF Reply, ServerTimer, DropDone
  <2>2. handle' = handle \/ Emit(Server, Found(Server))
    BY <1>11, Unchanged DEF Reply, ServerTimer, DropDone
  <2> QED
    BY <1>1, <1>2, <1>4, <2>1, <2>2
<1>12. ASSUME NEW c \in Clients, Drop(c)  PROVE Connected'
  <2>1. /\ gone' = gone /\ connections' = connections \ {c} /\ c \in gone
        /\ RemItems(Owned(c, Root))
    BY <1>12, Unchanged DEF Drop
  <2>2. \A x \in Subscribe : handle'[x] # NoHandle => Held(x)
    BY <1>7, <2>1
  <2> QED
    BY <2>1, <2>2 DEF Connected, Held
<1>13. ASSUME NEW c \in Clients, ReceiveSync(c)  PROVE Connected'
  <2>1. gone' = gone /\ connections' = connections /\ Emit(c, Found(c))
    BY <1>13, Unchanged DEF ReceiveSync
  <2> QED
    BY <1>1, <1>4, <2>1
<1>14. ASSUME NEW c \in Clients, EndPass(c)  PROVE Connected'
  <2>1. connections' = connections
    BY <1>14, Unchanged DEF EndPass
  <2>2. (gone' = gone /\ Emit(c, walking[c])) \/ Died(c)
    BY <1>14, Unchanged DEF EndPass
  <2> QED
    BY <1>1, <1>4, <1>5, <2>1, <2>2
<1>15. ASSUME NEW c \in Clients, BeginPass(c) \/ ClientTimer(c) \/ Sync(c) \/ SyncReturn(c)
       PROVE  Connected'
  BY <1>2, <1>15, Unchanged DEF BeginPass, ClientTimer, Sync, SyncReturn
<1>16. ASSUME NEW c \in Clients, Exit(c)  PROVE Connected'
  BY <1>5, <1>16, Unchanged DEF Exit
<1>17. ASSUME NEW x \in Publish, NEW v \in Values \cup {Unset}, LocalChange(x[2], v)
       PROVE  Connected'
  <2>1. /\ gone' = gone /\ connections' = connections
        /\ IF v = Unset THEN RemItems(Owned(Server, x[2])) ELSE SetItem(x[2], v)
    BY <1>17, Unchanged DEF LocalChange
  <2>2. x[2] \in Paths
    BY Pairs
  <2> QED
    BY <1>1, <1>6, <1>7, <2>1, <2>2
<1>18. ASSUME NEW x \in Publish, NEW v \in Values \cup {Unset}, Request(x[1], x[2], v)
       PROVE  Connected'
  BY <1>2, <1>18, Unchanged DEF Request
<1>19. ASSUME NEW x \in Subscribe, Hold(x) \/ Read(x) \/ Release(x)  PROVE Connected'
  <2>1. gone' = gone /\ connections' = connections
    BY <1>19, Unchanged DEF Hold, Read, Release
  <2>2. \A y \in Subscribe : y # x => handle'[y] = handle[y]
    BY <1>0, <1>19, OwnStep
  <2>3. x[1] \notin gone
    <3>1. x[1] \in Clients => x[1] # Server /\ x[1] \notin gone
      BY <1>0, <1>19 DEF Hold, Read, Release, Free
    <3>2. Server \notin gone
      BY <1>0 DEF Connected
    <3> QED
      BY <3>1, <3>2 DEF Connected
  <2> QED
    BY <2>1, <2>2, <2>3 DEF Connected, Held
<1> QED
  BY <1>8, <1>9, <1>10, <1>11, <1>12, <1>13, <1>14, <1>15, <1>16, <1>17, <1>18, <1>19
     DEF Next, ServerStep, Deliver

\* Whoever could miss a change is woken.
LEMMA WokenStep ==
  Core /\ HandleNotStuck /\ Connected /\ Remembers /\ Woken /\ Apart /\ [Next]_vars => Woken'
<1> SUFFICES ASSUME Core, HandleNotStuck, Connected, Remembers, Woken, Apart, [Next]_vars,
                    NEW x \in Subscribe, Stale(x)'
             PROVE  /\ x[1] = Server => timer' \/ serving'.any
                    /\ x[1] \in Clients /\ toClient'[x[1]] = <<>> =>
                         /\ serving'.any
                         /\ serving'.from = Server \/ Prefixes(x[2]) \subseteq changedNodes'
  BY DEF Woken
<1> DEFINE Ok == /\ x[1] = Server => timer' \/ serving'.any
                 /\ x[1] \in Clients /\ toClient'[x[1]] = <<>> =>
                      /\ serving'.any
                      /\ serving'.from = Server \/ Prefixes(x[2]) \subseteq changedNodes'
<1>0. /\ TreeTypes /\ HandleTypes /\ QueueTypes /\ Places
      /\ Server \in Procs /\ \A c \in Clients : c \in Procs /\ c # Server
      /\ x[1] \in Procs /\ x[2] \in Paths /\ (x[1] # Server => x[1] \in Clients)
  BY Pairs, NamesAssumption DEF Core, Procs
<1>1. Stale(x) \/ (Written /\ Held(x) /\ value'[x[2]] # value[x[2]])
  BY StaleBefore
<1>2. Stale(x) => /\ x[1] = Server => timer \/ serving.any
                  /\ x[1] \in Clients /\ toClient[x[1]] = <<>> =>
                       /\ serving.any
                       /\ (serving.from = Server \/ Prefixes(x[2]) \subseteq changedNodes)
  BY DEF Woken
<1>3. ASSUME value' = value, timer' = timer, serving' = serving, toClient' = toClient,
             changedNodes' = changedNodes
      PROVE  Ok
  BY <1>1, <1>2, <1>3
<1>4. CASE UNCHANGED vars
  BY <1>3, <1>4, Unchanged
<1>5. serving = Idle => ~serving.any
  BY DEF Idle
<1>6. ASSUME NEW c \in Clients, ReceivePacket(c)  PROVE Ok
  <2>1. serving = Idle /\ value' = value /\ timer' = timer /\ toClient' = toClient
    BY <1>6, Unchanged DEF ReceivePacket, ServerFree
  <2> QED
    BY <1>1, <1>2, <1>5, <2>1
<1>7. CASE ServeRequest
  <2> DEFINE op == Head(serving.ops)
             P == Owned(serving.from, op.path)
  <2>1. /\ serving.ops # <<>> /\ timer' = timer /\ toClient' = toClient
        /\ \/ /\ value' = value /\ changedNodes' = changedNodes
              /\ serving' = [serving EXCEPT !.ops = Tail(@), !.any = @ \/ FALSE]
           \/ /\ op.kind = "add" /\ SetItem(op.path, op.value)
              /\ changedNodes' = changedNodes \cup SetBumps(op.path)
              /\ serving' = [serving EXCEPT !.ops = Tail(@), !.any = @ \/ TRUE]
           \/ /\ RemItems(P)
              /\ changedNodes' = changedNodes \cup RemBumps(P)
              /\ serving' = [serving EXCEPT !.ops = Tail(@), !.any = @ \/ (RemBumps(P) # {})]
    BY <1>7, Unchanged DEF ServeRequest
  <2>2. op.kind = "add" => op.path \in Paths /\ op.value \in Values
    BY <1>0, <2>1, ServedRequest
  <2>3. serving \in [from : Procs, id : Nat, ops : Seq(Requests), any : BOOLEAN]
    BY <1>0 DEF QueueTypes
  <2>4. CASE value'[x[2]] = value[x[2]]
    <3>1. Stale(x)
      BY <1>1, <2>4
    <3>2. serving'.from = serving.from /\ (serving.any => serving'.any)
      BY <2>1, <2>3
    <3>3. changedNodes \subseteq changedNodes'
      BY <2>1
    <3> QED
      BY <1>2, <2>1, <3>1, <3>2, <3>3
  <2>5. CASE value'[x[2]] # value[x[2]]
    <3>1. CASE op.kind = "add" /\ SetItem(op.path, op.value)
               /\ changedNodes' = changedNodes \cup SetBumps(op.path)
               /\ serving' = [serving EXCEPT !.ops = Tail(@), !.any = @ \/ TRUE]
      <4>1. Prefixes(x[2]) = SetBumps(op.path)
        BY <1>0, <2>2, <2>5, <3>1, ChangeBumps DEF SetItem, Write
      <4>2. serving'.any
        BY <2>3, <3>1
      <4> QED
        BY <3>1, <4>1, <4>2
    <3>2. CASE RemItems(P) /\ changedNodes' = changedNodes \cup RemBumps(P)
               /\ serving' = [serving EXCEPT !.ops = Tail(@), !.any = @ \/ (RemBumps(P) # {})]
      <4>1. Prefixes(x[2]) \subseteq RemBumps(P)
        BY <1>0, <2>5, <3>2, ChangeBumps DEF RemItems, Write
      <4>2. RemBumps(P) # {}
        BY <1>0, <4>1, Pairs, MorePrefixes
      <4>3. serving'.any
        BY <2>3, <3>2, <4>2
      <4> QED
        BY <3>2, <4>1, <4>3
    <3> QED
      BY <2>1, <2>5, <3>1, <3>2
  <2> QED
    BY <2>4, <2>5
<1>8. ASSUME NEW first \in [Clients -> Seq(Nat)], Sent(first), Stale(x), x[1] \in Clients,
             toClient[x[1]] = <<>> => Prefixes(x[2]) \subseteq changedNodes
      PROVE  toClient'[x[1]] # <<>>
  <2> DEFINE c == x[1]
             more == IF c \notin mapped \/ Indexed(c) \cap changedNodes # {} THEN <<0>>
                     ELSE <<>>
  <2>1. c \notin gone /\ c \in connections
    BY <1>0, <1>8 DEF Connected, Stale
  <2>2. toClient'[c] = toClient[c] \o first[c] \o more
    BY <1>8, <2>1 DEF Sent
  <2>3. toClient[c] \in Seq(Nat) /\ first[c] \in Seq(Nat) /\ more \in Seq(Nat)
    BY <1>0, <1>8 DEF QueueTypes
  <2>4. CASE toClient[c] # <<>>
    <3> DEFINE a == toClient[c]
               b == first[c]
    <3> HIDE DEF a, b, more
    <3>1. a \in Seq(Nat) /\ b \in Seq(Nat) /\ a # <<>>
      BY <2>3, <2>4 DEF a, b
    <3>2. a \o b \in Seq(Nat) /\ a \o b # <<>>
      BY <3>1, ConcatProperties, ConcatEqualIffEmpty
    <3>3. a \o b \o more # <<>>
      BY <2>3, <3>2, ConcatEqualIffEmpty
    <3> QED
      BY <2>2, <3>3 DEF a, b
  <2>5. CASE Prefixes(x[2]) \subseteq changedNodes
    <3>1. Indexed(c) \cap changedNodes # {}
      <4>1. Held(x) /\ handle[x].at \in Nodes
        BY <1>0, <1>8, HeldSomewhere DEF Stale
      <4>2. nodeInterest[c][handle[x].at] = 1 /\ handle[x].at \in Prefixes(x[2])
        BY <1>0, <1>8, <4>1 DEF Places
      <4>3. handle[x].at \in Indexed(c)
        BY <4>1, <4>2 DEF Indexed
      <4> QED
        BY <2>5, <4>2, <4>3
    <3>2. more # <<>>
      BY <3>1
    <3> DEFINE d == toClient[c] \o first[c]
    <3> HIDE DEF more
    <3>3. d \in Seq(Nat)
      BY <2>3, ConcatProperties
    <3> HIDE DEF d
    <3>4. d \o more # <<>>
      BY <2>3, <3>2, <3>3, ConcatEqualIffEmpty
    <3> QED
      BY <2>2, <3>4 DEF d
  <2> HIDE DEF more
  <2> QED
    BY <1>8, <2>4, <2>5
<1>9. ASSUME Emit(Server, Found(Server)), value' = value  PROVE x[1] # Server
  BY <1>0, <1>9, PassLeavesNone
<1>10. CASE Reply
  <2> DEFINE causal == [Nothing EXCEPT ![serving.from] = <<serving.id>>]
  <2>1. serving.from \in Clients /\ value' = value /\ timer' = timer /\ Stale(x)
    BY <1>1, <1>10 DEF Reply
  <2>2. /\ causal \in [Clients -> Seq(Nat)]
    <3>1. serving.id \in Nat /\ <<serving.id>> \in Seq(Nat) /\ <<>> \in Seq(Nat)
      BY <1>0, NothingYet DEF QueueTypes
    <3> QED
      BY <2>1, <3>1 DEF Nothing
  <2>3. CASE serving.any
    <3>1. Sent(causal) /\ Emit(Server, Found(Server))
      BY <1>10, <2>3 DEF Reply
    <3>2. x[1] # Server /\ x[1] \in Clients
      BY <1>0, <1>9, <2>1, <3>1
    <3>3. toClient[x[1]] = <<>> => Prefixes(x[2]) \subseteq changedNodes
      BY <1>0, <1>2, <2>1, <3>2
    <3> HIDE DEF causal
    <3>4. toClient'[x[1]] # <<>>
      BY <1>8, <2>1, <2>2, <3>1, <3>2, <3>3
    <3> QED
      BY <3>2, <3>4
  <2>4. CASE ~serving.any
    <3>1. CASE x[1] = Server
      BY <1>0, <1>2, <2>1, <2>4, <3>1
    <3>2. CASE x[1] \in Clients
      <4> DEFINE a == toClient[x[1]]
                 b == causal[x[1]]
      <4>1. x[1] \notin gone /\ a # <<>> /\ x[1] # Server
        BY <1>0, <1>2, <2>1, <2>4, <3>2 DEF Connected, Stale
      <4>2. toClient'[x[1]] = a \o b
        BY <1>10, <2>4, <3>2, <4>1 DEF Reply
      <4>3. a \in Seq(Nat) /\ b \in Seq(Nat)
        BY <1>0, <2>2, <3>2 DEF QueueTypes
      <4> HIDE DEF a, b
      <4>4. a \o b # <<>>
        BY <4>1, <4>3, ConcatEqualIffEmpty
      <4> QED
        BY <4>1, <4>2, <4>4
    <3> QED
      BY <1>0, <3>1, <3>2
  <2> QED
    BY <2>3, <2>4
<1>11. CASE ServerTimer
  <2>1. /\ serving = Idle /\ value' = value /\ Sent(Nothing) /\ Emit(Server, Found(Server))
        /\ Stale(x)
    BY <1>1, <1>11 DEF ServerTimer, ServerFree
  <2>2. Nothing \in [Clients -> Seq(Nat)]
    BY NothingYet DEF Nothing
  <2>3. x[1] # Server /\ x[1] \in Clients /\ toClient[x[1]] # <<>>
    BY <1>0, <1>2, <1>5, <1>9, <2>1
  <2>4. toClient'[x[1]] # <<>>
    BY <1>8, <2>1, <2>2, <2>3
  <2> QED
    BY <2>3, <2>4
<1>12. CASE DropDone
  <2>1. /\ value' = value /\ Emit(Server, Found(Server)) /\ Stale(x)
        /\ toClient' = [c \in Clients |-> IF c \in connections \ gone
                                            THEN Append(toClient[c], 0) ELSE <<>>]
    BY <1>1, <1>12 DEF DropDone
  <2>2. x[1] # Server /\ x[1] \in Clients /\ x[1] \in connections \ gone
    BY <1>0, <1>9, <2>1 DEF Connected, Stale
  <2>3. toClient'[x[1]] = Append(toClient[x[1]], 0) /\ toClient[x[1]] \in Seq(Nat)
    BY <1>0, <2>1, <2>2 DEF QueueTypes
  <2>4. toClient'[x[1]] # <<>>
    BY <2>3, AppendProperties
  <2> QED
    BY <2>2, <2>4
<1>13. ASSUME NEW c \in Clients, Drop(c)  PROVE Ok
  <2> DEFINE P == Owned(c, Root)
  <2>1. /\ serving = Idle /\ timer' = timer /\ toClient' = toClient /\ RemItems(P)
        /\ serving' = IF RemBumps(P) = {} THEN Idle
                      ELSE [from |-> Server, id |-> 0, ops |-> <<>>, any |-> TRUE]
    BY <1>13, Unchanged DEF Drop, ServerFree
  <2>2. CASE value'[x[2]] = value[x[2]]
    BY <1>1, <1>2, <1>5, <2>1, <2>2
  <2>3. CASE value'[x[2]] # value[x[2]]
    <3>1. Prefixes(x[2]) \subseteq RemBumps(P)
      BY <1>0, <2>1, <2>3, ChangeBumps DEF RemItems, Write
    <3>2. RemBumps(P) # {}
      BY <1>0, <3>1, Pairs, MorePrefixes
    <3> QED
      BY <2>1, <3>2
  <2> QED
    BY <2>2, <2>3
<1>14. ASSUME NEW c \in Clients, ReceiveSync(c)  PROVE Ok
  <2>1. /\ toClient' = [toClient EXCEPT ![c] = Tail(@)] /\ Emit(c, Found(c))
        /\ value' = value /\ timer' = timer /\ serving' = serving
        /\ changedNodes' = changedNodes
    BY <1>14, Unchanged DEF ReceiveSync, TakeSync
  <2>2. x[1] # c
    BY <1>0, <2>1, PassLeavesNone
  <2>3. x[1] \in Clients => toClient'[x[1]] = toClient[x[1]]
    BY <1>0, <2>1, <2>2 DEF QueueTypes
  <2> QED
    BY <1>1, <1>2, <2>1, <2>3
<1>15. ASSUME NEW c \in Clients, Died(c), value' = value, timer' = timer,
              serving' = serving, changedNodes' = changedNodes
       PROVE  Ok
  <2>1. /\ toClient' = [toClient EXCEPT ![c] = <<>>]
        /\ handle'[x] = IF x[1] = c THEN NoHandle ELSE handle[x]
    BY <1>15 DEF Died
  <2>2. x[1] # c
    BY <2>1 DEF Stale, Held
  <2>3. x[1] \in Clients => toClient'[x[1]] = toClient[x[1]]
    BY <1>0, <2>1, <2>2 DEF QueueTypes
  <2> QED
    BY <1>1, <1>2, <1>15, <2>3
<1>16. ASSUME NEW c \in Clients, BeginPass(c) \/ EndPass(c)  PROVE Ok
  BY <1>0, <1>16 DEF BeginPass, EndPass, Apart, Places
<1>17. ASSUME NEW c \in Clients, Exit(c)  PROVE Ok
  BY <1>15, <1>17, Unchanged DEF Exit
<1>18. ASSUME NEW c \in Clients, ClientTimer(c) \/ Sync(c) \/ SyncReturn(c)  PROVE Ok
  BY <1>3, <1>18, Unchanged DEF ClientTimer, Sync, SyncReturn
<1>19. ASSUME NEW y \in Publish, NEW v \in Values \cup {Unset}, LocalChange(y[2], v)
       PROVE  Ok
  <2> DEFINE P == Owned(Server, y[2])
             bumped == IF v = Unset THEN RemBumps(P) ELSE SetBumps(y[2])
  <2>1. /\ serving = Idle /\ serving' = serving /\ toClient' = toClient
        /\ <<Server, y[2]>> \in Publish
        /\ IF v = Unset THEN RemItems(P) ELSE SetItem(y[2], v)
        /\ timer' = (timer \/ bumped # {})
    BY <1>19, Unchanged DEF LocalChange, ServerFree
  <2>2. CASE value'[x[2]] = value[x[2]]
    BY <1>1, <1>2, <1>5, <2>1, <2>2
  <2>3. CASE value'[x[2]] # value[x[2]]
    <3>1. /\ Prefixes(x[2]) \subseteq bumped
          /\ <<Server, x[2]>> \in Publish
      <4>1. CASE v = Unset
        <5>1. x[2] \in P /\ Prefixes(x[2]) \subseteq RemBumps(P)
          BY <1>0, <2>1, <2>3, <4>1, ChangeBumps DEF RemItems, Write
        <5> QED
          BY <4>1, <5>1 DEF Owned
      <4>2. CASE v # Unset
        <5>1. y[2] \in Paths /\ v \in Values
          BY <4>2, Pairs
        <5>2. y[2] = x[2] /\ Prefixes(x[2]) = SetBumps(y[2])
          BY <1>0, <2>1, <2>3, <4>2, <5>1, ChangeBumps DEF SetItem, Write
        <5> QED
          BY <2>1, <4>2, <5>2
      <4> QED
        BY <4>1, <4>2
    <3>2. x[1] = Server
      BY <1>0, <3>1 DEF Apart
    <3>3. bumped # {}
      BY <1>0, <3>1, Pairs, MorePrefixes
    <3> HIDE DEF bumped
    <3> QED
      BY <1>0, <2>1, <3>2, <3>3
  <2> QED
    BY <2>2, <2>3
<1>20. ASSUME NEW y \in Publish, NEW v \in Values \cup {Unset}, Request(y[1], y[2], v)
       PROVE  Ok
  BY <1>3, <1>20, Unchanged DEF Request
<1>21. ASSUME NEW y \in Subscribe, Hold(y) \/ Read(y) \/ Release(y)  PROVE Ok
  BY <1>3, <1>21, Unchanged DEF Hold, Read, Release
<1> QED
  BY <1>4, <1>6, <1>7, <1>10, <1>11, <1>12, <1>13, <1>14, <1>16, <1>17, <1>18, <1>19,
     <1>20, <1>21 DEF Next, ServerStep, Deliver

\* A subscriber that has not been told of the present value is woken by a message
\* or an event on its way, when no pass can be overtaken and no client subscribes
\* to what the server's own process publishes (whose changes the list of changed
\* nodes, cleared for every packet, may lose).
THEOREM StaleHandlesWoken == Apart => (Spec => []StaleHandleIsWoken)
<1> SUFFICES ASSUME Apart PROVE Spec => []StaleHandleIsWoken
  OBVIOUS
<1>1. Init => HandleNotStuck /\ Connected /\ Remembers /\ Woken
  BY NamesAssumption DEF Init, HandleNotStuck, Connected, Remembers, Woken, Stale, Held
<1>2. Core /\ HandleNotStuck /\ Connected /\ Remembers /\ Woken /\ [Next]_vars
        => (HandleNotStuck /\ Connected /\ Remembers /\ Woken)'
  BY NotStuckStep, ConnectedStep, RemembersStep, WokenStep DEF Apart
<1>3. Core /\ Remembers /\ Woken => StaleHandleIsWoken
  <2> SUFFICES ASSUME Core, Remembers, Woken, NEW x \in Subscribe, Stale(x)
               PROVE  /\ handle[x].seen # "same" \/ handle[x].forceChange
                      /\ \/ x[1] = Server /\ timer
                         \/ x[1] \in Clients /\ toClient[x[1]] # <<>>
                         \/ serving # Idle /\ serving.any
    BY DEF StaleHandleIsWoken, Stale
  <2>1. x[1] = Server \/ x[1] \in Clients
    BY Pairs DEF Procs
  <2>2. serving.any => serving # Idle
    BY DEF Idle
  <2> QED
    BY <2>1, <2>2 DEF Remembers, Woken
<1> QED
  BY <1>1, <1>2, <1>3, CoreAlways, PTL DEF Spec
-----------------------------------------------------------------------------
(***************************************************************************)
(* When sync() returns, what its process last asked for is in the tree:    *)
(* SyncMeansApplied of SharedMemoryLayer, for any processes and bounds.    *)
(*                                                                         *)
(* The last request for a path is in the packet being filled, in one on    *)
(* its way, in the one being served, or its effect is in the tree          *)
(* (Pursued); and the packets with requests are unanswered, the newer the  *)
(* higher their ids (Order).  A sync() that returns has the answer to the  *)
(* newest packet, so only the last case is left.                           *)
(***************************************************************************)

(* The invariant.                                                          *)

\* The ids of the replies that have come or are on their way.
Heard(c) == {lastRecvId[c]} \cup {toClient[c][k] : k \in 1 .. Len(toClient[c])}
Below(c, m) == \A i \in Heard(c) : i < m

\* Requests that change nothing: only where the index is.
Silent(ops) == \A j \in 1 .. Len(ops) : ops[j].kind = "index"
Unanswered(c, id, ops) == Below(c, id) \/ (id = 0 /\ Silent(ops))

\* The packets of a client are unanswered, the newer the higher their ids.
OrderOf(c) ==
  /\ \A i, j \in 1 .. Len(toServer[c]) : i < j => toServer[c][i].id < toServer[c][j].id
  /\ \A i \in 1 .. Len(toServer[c]) : Unanswered(c, toServer[c][i].id, toServer[c][i].ops)
  /\ serving.from = c =>
       /\ Unanswered(c, serving.id, serving.ops)
       /\ \A i \in 1 .. Len(toServer[c]) : serving.id < toServer[c][i].id
  /\ todo[c] # <<>> =>
       /\ Below(c, lastSentId[c])
       /\ \A i \in 1 .. Len(toServer[c]) : toServer[c][i].id < lastSentId[c]
       /\ serving.from = c => serving.id < lastSentId[c]
Order == \A c \in Clients : OrderOf(c)

\* The requests that change the value at a path of their client's own: none, or
\* the last of them leaves v there.
Affects(r, p) == \/ r.kind = "add" /\ r.path = p
                 \/ r.kind = "rem" /\ IsPrefix(r.path, p)
Spares(ops, p) == \A j \in 1 .. Len(ops) : ~Affects(ops[j], p)
Leaves(ops, p, v) ==
  \E j \in 1 .. Len(ops) :
    /\ Affects(ops[j], p) /\ ops[j].value = v
    /\ \A k \in 1 .. Len(ops) : j < k => ~Affects(ops[k], p)

\* The same of the packets on their way.
NoneCarried(packs, p) == \A i \in 1 .. Len(packs) : Spares(packs[i].ops, p)
Carried(packs, p, v) ==
  \E i \in 1 .. Len(packs) :
    /\ Leaves(packs[i].ops, p, v)
    /\ \A k \in 1 .. Len(packs) : i < k => Spares(packs[k].ops, p)

\* Where the last request for a path is, or its effect.
InTodo(c, p) == Leaves(todo[c], p, asked[p])
OnItsWay(c, p) == Spares(todo[c], p) /\ Carried(toServer[c], p, asked[p])
Served(c, p) ==
  /\ Spares(todo[c], p) /\ NoneCarried(toServer[c], p)
  /\ serving.from = c /\ Leaves(serving.ops, p, asked[p])
Applied(c, p) ==
  /\ Spares(todo[c], p) /\ NoneCarried(toServer[c], p)
  /\ serving.from = c => Spares(serving.ops, p)
  /\ value[p] = asked[p]

Pursued ==
  \A c \in Clients, p \in Paths :
    c \notin gone /\ <<c, p>> \in Publish =>
      InTodo(c, p) \/ OnItsWay(c, p) \/ Served(c, p) \/ Applied(c, p)

\* Only a living client waits.
Waiting == syncing \cap gone = {}

-----------------------------------------------------------------------------
(* Sequences of requests and of packets.                                   *)

\* A sequence less its head.
LEMMA TailIs ==
  ASSUME NEW S, NEW s \in Seq(S), s # <<>>
  PROVE  /\ Head(s) = s[1] /\ 1 \in 1 .. Len(s)
         /\ \A i \in 1 .. Len(Tail(s)) : Tail(s)[i] = s[i + 1] /\ i + 1 \in 1 .. Len(s)
         /\ \A i \in 1 .. Len(s) :
              i = 1 \/ (i - 1 \in 1 .. Len(Tail(s)) /\ Tail(s)[i - 1] = s[i])
<1>1. /\ Len(Tail(s)) = Len(s) - 1 /\ Len(s) \in Nat /\ Len(s) # 0
      /\ \A i \in 1 .. Len(Tail(s)) : Tail(s)[i] = s[i + 1]
      /\ Head(s) = s[1]
  BY HeadTailProperties, EmptySeq
<1>2. \A i \in 1 .. Len(s) : i = 1 \/ i - 1 \in 1 .. Len(Tail(s))
  BY <1>1
<1>3. ASSUME NEW i \in 1 .. Len(s), i - 1 \in 1 .. Len(Tail(s))
      PROVE  Tail(s)[i - 1] = s[i]
  <2>1. Tail(s)[i - 1] = s[i - 1 + 1] /\ i - 1 + 1 = i
    BY <1>1, <1>3
  <2> QED
    BY <2>1
<1> QED
  BY <1>1, <1>2, <1>3

\* A sequence and one more.
LEMMA AppendIs ==
  ASSUME NEW S, NEW s \in Seq(S), NEW e
  PROVE  /\ Len(s) \in Nat /\ Len(Append(s, e)) = Len(s) + 1
         /\ \A i \in 1 .. Len(s) : i \in 1 .. Len(Append(s, e)) /\ Append(s, e)[i] = s[i]
         /\ Append(s, e)[Len(s) + 1] = e
         /\ \A i \in 1 .. Len(Append(s, e)) : i \in 1 .. Len(s) \/ i = Len(s) + 1
<1>1. /\ s \in Seq(S \cup {e}) /\ e \in S \cup {e} /\ Len(s) \in Nat
  <2>1. s \in Seq(S \cup {e})
    BY SeqDef, ElementOfSeq
  <2> QED
    BY <2>1, LenProperties
<1>2. /\ Len(Append(s, e)) = Len(s) + 1
      /\ \A i \in 1 .. Len(s) : Append(s, e)[i] = s[i]
      /\ Append(s, e)[Len(s) + 1] = e
  BY <1>1, AppendProperties
<1> QED
  BY <1>1, <1>2

\* The last request for a path, of a packet being served.
LEMMA ServedParts ==
  ASSUME NEW s \in Seq(Requests), NEW p, NEW v, s # <<>>
  PROVE  /\ Spares(s, p) => ~Affects(Head(s), p) /\ Spares(Tail(s), p)
         /\ Leaves(s, p, v) => \/ Leaves(Tail(s), p, v)
                               \/ /\ Affects(Head(s), p) /\ Head(s).value = v
                                  /\ Spares(Tail(s), p)
         /\ Leaves(s, p, v) /\ ~Affects(Head(s), p) => Leaves(Tail(s), p, v)
         /\ Silent(s) => Silent(Tail(s))
<1>1. /\ Head(s) = s[1] /\ 1 \in 1 .. Len(s) /\ Len(s) \in Nat
      /\ \A i \in 1 .. Len(Tail(s)) : Tail(s)[i] = s[i + 1] /\ i + 1 \in 1 .. Len(s)
      /\ \A i \in 1 .. Len(s) :
              i = 1 \/ (i - 1 \in 1 .. Len(Tail(s)) /\ Tail(s)[i - 1] = s[i])
  BY TailIs, LenProperties
<1>2. ASSUME NEW j \in 1 .. Len(s), Affects(s[j], p), s[j].value = v,
             \A k \in 1 .. Len(s) : j < k => ~Affects(s[k], p)
      PROVE  \/ j # 1 /\ Leaves(Tail(s), p, v)
             \/ /\ j = 1 /\ Affects(Head(s), p) /\ Head(s).value = v
                /\ Spares(Tail(s), p)
  <2>1. CASE j = 1
    <3>1. \A i \in 1 .. Len(Tail(s)) : ~Affects(Tail(s)[i], p)
      <4>1. ASSUME NEW i \in 1 .. Len(Tail(s))  PROVE ~Affects(Tail(s)[i], p)
        <5>1. Tail(s)[i] = s[i + 1] /\ i + 1 \in 1 .. Len(s) /\ 1 < i + 1
          BY <1>1
        <5> QED
          BY <1>2, <2>1, <5>1
      <4> QED
        BY <4>1
    <3> QED
      BY <1>1, <1>2, <2>1, <3>1 DEF Spares
  <2>2. CASE j # 1
    <3>1. j - 1 \in 1 .. Len(Tail(s)) /\ Tail(s)[j - 1] = s[j]
      BY <1>1, <2>2
    <3>2. ASSUME NEW k \in 1 .. Len(Tail(s)), j - 1 < k  PROVE ~Affects(Tail(s)[k], p)
      <4>1. Tail(s)[k] = s[k + 1] /\ k + 1 \in 1 .. Len(s) /\ j < k + 1
        BY <1>1, <3>2
      <4> QED
        BY <1>2, <4>1
    <3>3. Affects(Tail(s)[j - 1], p) /\ Tail(s)[j - 1].value = v
      BY <1>2, <3>1
    <3> QED
      BY <2>2, <3>1, <3>2, <3>3 DEF Leaves
  <2> QED
    BY <2>1, <2>2
<1>3. Spares(s, p) => ~Affects(Head(s), p) /\ Spares(Tail(s), p)
  BY <1>1 DEF Spares
<1>4. Silent(s) => Silent(Tail(s))
  BY <1>1 DEF Silent
<1>5. ASSUME Leaves(s, p, v)
      PROVE  /\ \/ Leaves(Tail(s), p, v)
                \/ /\ Affects(Head(s), p) /\ Head(s).value = v
                   /\ Spares(Tail(s), p)
             /\ ~Affects(Head(s), p) => Leaves(Tail(s), p, v)
  BY <1>2, <1>5 DEF Leaves
<1> QED
  BY <1>3, <1>4, <1>5

\* ... and of one that is filled.
LEMMA FilledParts ==
  ASSUME NEW s \in Seq(Requests), NEW r, NEW p
  PROVE  /\ Affects(r, p) => Leaves(Append(s, r), p, r.value)
         /\ ~Affects(r, p) /\ Spares(s, p) => Spares(Append(s, r), p)
         /\ \A v : ~Affects(r, p) /\ Leaves(s, p, v) => Leaves(Append(s, r), p, v)
         /\ Append(s, r) # <<>>
<1> DEFINE t == Append(s, r)
           l == Len(s) + 1
<1>1. /\ Len(s) \in Nat /\ Len(t) = l
      /\ \A i \in 1 .. Len(s) : i \in 1 .. Len(t) /\ t[i] = s[i]
      /\ t[l] = r
      /\ \A i \in 1 .. Len(t) : i \in 1 .. Len(s) \/ i = l
  BY AppendIs
<1>2. l \in 1 .. Len(t) /\ \A k \in 1 .. Len(t) : ~(l < k)
  BY <1>1
<1>3. t # <<>>
  BY <1>1, EmptySeq
<1> HIDE DEF t, l
<1>4. Affects(r, p) => Leaves(t, p, r.value)
  BY <1>1, <1>2 DEF Leaves
<1>5. ~Affects(r, p) /\ Spares(s, p) => Spares(t, p)
  BY <1>1 DEF Spares
<1>6. ASSUME NEW v, ~Affects(r, p), Leaves(s, p, v)  PROVE Leaves(t, p, v)
  <2>1. PICK j \in 1 .. Len(s) : /\ Affects(s[j], p) /\ s[j].value = v
                                 /\ \A k \in 1 .. Len(s) : j < k => ~Affects(s[k], p)
    BY <1>6 DEF Leaves
  <2>2. j \in 1 .. Len(t) /\ t[j] = s[j]
    BY <1>1
  <2>3. \A k \in 1 .. Len(t) : j < k => ~Affects(t[k], p)
    BY <1>1, <1>6, <2>1
  <2> QED
    BY <2>1, <2>2, <2>3 DEF Leaves
<1> QED
  BY <1>3, <1>4, <1>5, <1>6 DEF t

\* A packet that leaves a value has a request to do so.
LEMMA LeavesSays ==
  ASSUME NEW s, NEW p, NEW v, Leaves(s, p, v)
  PROVE  s # <<>> /\ ~Silent(s) /\ ~Spares(s, p)
<1>1. PICK j \in 1 .. Len(s) : Affects(s[j], p)
  BY DEF Leaves
<1>2. s # <<>>
  <2>1. Len(<<>>) = 0
    OBVIOUS
  <2> QED
    BY <1>1, <2>1
<1>3. s[j].kind # "index"
  BY <1>1 DEF Affects
<1> QED
  BY <1>1, <1>2, <1>3 DEF Silent, Spares

\* The packets on their way, the first one taken off.
LEMMA TakenParts ==
  ASSUME NEW s \in Seq(Packets), NEW p, NEW v, s # <<>>
  PROVE  /\ NoneCarried(s, p) => Spares(Head(s).ops, p) /\ NoneCarried(Tail(s), p)
         /\ Carried(s, p, v) => \/ Carried(Tail(s), p, v)
                                \/ Leaves(Head(s).ops, p, v) /\ NoneCarried(Tail(s), p)
<1>1. /\ Head(s) = s[1] /\ 1 \in 1 .. Len(s) /\ Len(s) \in Nat
      /\ \A i \in 1 .. Len(Tail(s)) : Tail(s)[i] = s[i + 1] /\ i + 1 \in 1 .. Len(s)
      /\ \A i \in 1 .. Len(s) :
              i = 1 \/ (i - 1 \in 1 .. Len(Tail(s)) /\ Tail(s)[i - 1] = s[i])
  BY TailIs, LenProperties
<1>2. ASSUME NEW j \in 1 .. Len(s), Leaves(s[j].ops, p, v),
             \A k \in 1 .. Len(s) : j < k => Spares(s[k].ops, p)
      PROVE  \/ Carried(Tail(s), p, v)
             \/ Leaves(Head(s).ops, p, v) /\ NoneCarried(Tail(s), p)
  <2>1. CASE j = 1
    <3>1. ASSUME NEW i \in 1 .. Len(Tail(s))  PROVE Spares(Tail(s)[i].ops, p)
      <4>1. Tail(s)[i] = s[i + 1] /\ i + 1 \in 1 .. Len(s) /\ 1 < i + 1
        BY <1>1
      <4> QED
        BY <1>2, <2>1, <4>1
    <3> QED
      BY <1>1, <1>2, <2>1, <3>1 DEF NoneCarried
  <2>2. CASE j # 1
    <3>1. j - 1 \in 1 .. Len(Tail(s)) /\ Tail(s)[j - 1] = s[j]
      BY <1>1, <2>2
    <3>2. ASSUME NEW k \in 1 .. Len(Tail(s)), j - 1 < k  PROVE Spares(Tail(s)[k].ops, p)
      <4>1. Tail(s)[k] = s[k + 1] /\ k + 1 \in 1 .. Len(s) /\ j < k + 1
        BY <1>1, <3>2
      <4> QED
        BY <1>2, <4>1
    <3>3. Leaves(Tail(s)[j - 1].ops, p, v)
      BY <1>2, <3>1
    <3> QED
      BY <3>1, <3>2, <3>3 DEF Carried
  <2> QED
    BY <2>1, <2>2
<1>3. NoneCarried(s, p) => Spares(Head(s).ops, p) /\ NoneCarried(Tail(s), p)
  BY <1>1 DEF NoneCarried
<1> QED
  BY <1>2, <1>3 DEF Carried

\* ... and one more sent.
LEMMA SentPackets ==
  ASSUME NEW s \in Seq(Packets), NEW r, NEW p, NEW v
  PROVE  /\ Leaves(r.ops, p, v) => Carried(Append(s, r), p, v)
         /\ Spares(r.ops, p) /\ NoneCarried(s, p) => NoneCarried(Append(s, r), p)
         /\ Spares(r.ops, p) /\ Carried(s, p, v) => Carried(Append(s, r), p, v)
<1> DEFINE t == Append(s, r)
           l == Len(s) + 1
<1>1. /\ Len(s) \in Nat /\ Len(t) = l
      /\ \A i \in 1 .. Len(s) : i \in 1 .. Len(t) /\ t[i] = s[i]
      /\ t[l] = r
      /\ \A i \in 1 .. Len(t) : i \in 1 .. Len(s) \/ i = l
  BY AppendIs
<1>2. l \in 1 .. Len(t) /\ \A k \in 1 .. Len(t) : ~(l < k)
  BY <1>1
<1> HIDE DEF t, l
<1>3. Leaves(r.ops, p, v) => Carried(t, p, v)
  BY <1>1, <1>2 DEF Carried
<1>4. Spares(r.ops, p) /\ NoneCarried(s, p) => NoneCarried(t, p)
  BY <1>1 DEF NoneCarried
<1>5. ASSUME Spares(r.ops, p), Carried(s, p, v)  PROVE Carried(t, p, v)
  <2>1. PICK j \in 1 .. Len(s) : /\ Leaves(s[j].ops, p, v)
                                 /\ \A k \in 1 .. Len(s) : j < k => Spares(s[k].ops, p)
    BY <1>5 DEF Carried
  <2>2. j \in 1 .. Len(t) /\ t[j] = s[j]
    BY <1>1
  <2>3. \A k \in 1 .. Len(t) : j < k => Spares(t[k].ops, p)
    BY <1>1, <1>5, <2>1
  <2> QED
    BY <2>1, <2>2, <2>3 DEF Carried
<1> QED
  BY <1>3, <1>4, <1>5 DEF t

-----------------------------------------------------------------------------
(* Replies.                                                                *)

\* What a step does to the replies that have come, or are on their way, to a
\* client: it adds the id of the packet that is done, or none.
Replied(c) ==
  \A i \in Heard(c)' :
    \/ i \in Heard(c) \/ i = 0
    \/ serving.from = c /\ i = serving.id /\ serving' = Idle

\* Every step does no more to them.
LEMMA RepliedStep ==
  ASSUME Core, [Next]_vars, NEW c \in Clients
  PROVE  Replied(c)
<1>0. /\ QueueTypes /\ toClient[c] \in Seq(Nat) /\ lastRecvId[c] \in Nat
      /\ lastRecvId \in [Clients -> Nat] /\ toClient \in [Clients -> Seq(Nat)]
  BY DEF Core, QueueTypes
<1>1. ASSUME lastRecvId'[c] = lastRecvId[c], toClient'[c] = toClient[c] \/ toClient'[c] = <<>>
      PROVE  Replied(c)
  <2>1. Len(<<>>) = 0
    OBVIOUS
  <2> QED
    BY <1>1, <2>1 DEF Replied, Heard
<1>2. ASSUME NEW id, Longer(c, id), lastRecvId'[c] = lastRecvId[c],
             id = 0 \/ (serving.from = c /\ id = serving.id /\ serving' = Idle)
      PROVE  Replied(c)
  <2>1. CASE toClient'[c] = <<>>
    BY <1>1, <1>2, <2>1
  <2>2. ASSUME NEW t \in Seq(Nat), toClient'[c] = toClient[c] \o t,
               \A i \in 1 .. Len(t) : t[i] = 0 \/ t[i] = id
        PROVE  Replied(c)
    <3> DEFINE s == toClient[c]
    <3>1. s \in Seq(Nat)
      BY <1>0
    <3>2. \A i \in 1 .. Len(s \o t) :
            (\E k \in 1 .. Len(s) : (s \o t)[i] = s[k]) \/ (s \o t)[i] = 0 \/ (s \o t)[i] = id
      <4> HIDE DEF s
      <4>1. /\ Len(s \o t) = Len(s) + Len(t)
            /\ Len(s) \in Nat /\ Len(t) \in Nat
            /\ \A i \in 1 .. Len(s) + Len(t) :
                 (s \o t)[i] = IF i <= Len(s) THEN s[i] ELSE t[i - Len(s)]
        BY <3>1, ConcatProperties, LenProperties
      <4>2. ASSUME NEW i \in 1 .. Len(s \o t)
            PROVE  \/ \E k \in 1 .. Len(s) : (s \o t)[i] = s[k]
                   \/ (s \o t)[i] = 0 \/ (s \o t)[i] = id
        <5>1. CASE i <= Len(s)
          BY <4>1, <5>1
        <5>2. CASE i > Len(s)
          <6>1. i - Len(s) \in 1 .. Len(t) /\ (s \o t)[i] = t[i - Len(s)]
            BY <4>1, <5>2
          <6> QED
            BY <2>2, <6>1
        <5>3. i <= Len(s) \/ i > Len(s)
          BY <4>1
        <5> QED
          BY <5>1, <5>2, <5>3
      <4> QED
        BY <4>2
    <3> QED
      BY <1>2, <2>2, <3>2 DEF Replied, Heard
  <2> QED
    BY <1>2, <2>1, <2>2 DEF Longer
<1>3. ASSUME TakeSync(c)  PROVE Replied(c)
  <2>1. /\ toClient[c] # <<>> /\ toClient'[c] = Tail(toClient[c])
        /\ lastRecvId'[c] = Received(c, Head(toClient[c]))
    BY <1>0, <1>3 DEF TakeSync
  <2>2. /\ Head(toClient[c]) = toClient[c][1] /\ 1 \in 1 .. Len(toClient[c])
        /\ \A i \in 1 .. Len(Tail(toClient[c])) :
             Tail(toClient[c])[i] = toClient[c][i + 1] /\ i + 1 \in 1 .. Len(toClient[c])
    BY <1>0, <2>1, TailIs
  <2>3. lastRecvId'[c] \in Heard(c)
    BY <2>1, <2>2 DEF Received, Heard
  <2> QED
    BY <2>1, <2>2, <2>3 DEF Replied, Heard
<1>4. ASSUME NEW first \in [Clients -> Seq(Nat)], Sent(first), lastRecvId' = lastRecvId,
             NEW id, id = 0 \/ (serving.from = c /\ id = serving.id /\ serving' = Idle),
             \A i \in 1 .. Len(first[c]) : first[c][i] = 0 \/ first[c][i] = id
      PROVE  Replied(c)
  <2>1. Longer(c, id)
    BY <1>0, <1>4, SyncsSent
  <2> QED
    BY <1>2, <1>4, <2>1
<1>5. CASE UNCHANGED net /\ lastRecvId' = lastRecvId
  BY <1>1, <1>5, Unchanged
<1>6. CASE UNCHANGED vars
  BY <1>5, <1>6, Unchanged
<1>7. ASSUME NEW d \in Clients, \/ ReceivePacket(d) \/ Drop(d) \/ ClientTimer(d) \/ Sync(d)
                                \/ SyncReturn(d)
      PROVE  Replied(c)
  <2>1. lastRecvId' = lastRecvId /\ toClient' = toClient
    BY <1>7, Unchanged DEF ReceivePacket, Drop, ClientTimer, Sync, SyncReturn
  <2> QED
    BY <1>1, <2>1
<1>8. CASE ServeRequest
  BY <1>5, <1>8, Unchanged DEF ServeRequest
<1>9. CASE Reply
  <2> DEFINE causal == [Nothing EXCEPT ![serving.from] = <<serving.id>>]
             id == IF serving.from = c THEN serving.id ELSE 0
  <2>1. /\ serving.from \in Clients /\ serving' = Idle /\ lastRecvId' = lastRecvId
        /\ serving.id \in Nat
    BY <1>0, <1>9, Unchanged DEF Reply, QueueTypes
  <2>2. causal \in [Clients -> Seq(Nat)]
    <3>1. <<serving.id>> \in Seq(Nat)
      BY <2>1
    <3>2. Nothing \in [Clients -> Seq(Nat)]
      BY NothingYet DEF Nothing
    <3> QED
      BY <2>1, <3>1, <3>2
  <2>3. causal[c] = IF serving.from = c THEN <<serving.id>> ELSE <<>>
    BY <2>1 DEF Nothing
  <2>4. \A i \in 1 .. Len(causal[c]) : causal[c][i] = 0 \/ causal[c][i] = id
    <3>1. CASE serving.from = c
      <4>1. causal[c] = <<serving.id>> /\ id = serving.id
        BY <2>3, <3>1
      <4> QED
        BY <4>1
    <3>2. CASE serving.from # c
      <4>1. Len(causal[c]) = 0
        BY <2>3, <3>2, NothingYet
      <4> QED
        BY <4>1
    <3> QED
      BY <3>1, <3>2
  <2>5. \/ Sent(causal)
        \/ toClient' = [d \in Clients |->
                         IF d \in gone THEN <<>> ELSE toClient[d] \o causal[d]]
    BY <1>9 DEF Reply
  <2>6. id = 0 \/ (serving.from = c /\ id = serving.id /\ serving' = Idle)
    BY <2>1
  <2> HIDE DEF causal, id
  <2>7. CASE Sent(causal)
    BY <1>4, <2>1, <2>2, <2>4, <2>6, <2>7
  <2>8. CASE toClient' = [d \in Clients |->
                         IF d \in gone THEN <<>> ELSE toClient[d] \o causal[d]]
    <3>1. Longer(c, id)
      BY <2>2, <2>4, <2>8 DEF Longer
    <3> QED
      BY <1>2, <2>1, <2>6, <3>1
  <2> QED
    BY <2>5, <2>7, <2>8
<1>10. CASE ServerTimer
  <2>1. Sent(Nothing) /\ lastRecvId' = lastRecvId
    BY <1>10, Unchanged DEF ServerTimer
  <2>2. Nothing \in [Clients -> Seq(Nat)] /\ Len(Nothing[c]) = 0
    BY NothingYet DEF Nothing
  <2>3. \A i \in 1 .. Len(Nothing[c]) : Nothing[c][i] = 0 \/ Nothing[c][i] = 0
    BY <2>2
  <2> QED
    BY <1>4, <2>1, <2>2, <2>3
<1>11. CASE DropDone
  <2>1. /\ toClient' = [d \in Clients |-> IF d \in connections \ gone
                                            THEN Append(toClient[d], 0) ELSE <<>>]
        /\ lastRecvId' = lastRecvId
    BY <1>11, Unchanged DEF DropDone
  <2>2. Append(toClient[c], 0) = toClient[c] \o <<0>>
    BY <1>0, AppendIsConcat
  <2>3. <<0>> \in Seq(Nat) /\ \A i \in 1 .. Len(<<0>>) : <<0>>[i] = 0
    OBVIOUS
  <2>4. Longer(c, 0)
    BY <2>1, <2>2, <2>3 DEF Longer
  <2> QED
    BY <1>2, <2>1, <2>4
<1>12. ASSUME NEW d \in Clients, ReceiveSync(d) \/ BeginPass(d)  PROVE Replied(c)
  <2>1. TakeSync(d)
    BY <1>12 DEF ReceiveSync, BeginPass
  <2>2. CASE d = c
    BY <1>3, <2>1, <2>2
  <2>3. CASE d # c
    <3>1. toClient'[c] = toClient[c] /\ lastRecvId'[c] = lastRecvId[c]
      BY <1>0, <2>1, <2>3 DEF TakeSync
    <3> QED
      BY <1>1, <3>1
  <2> QED
    BY <2>2, <2>3
<1>13. ASSUME NEW d \in Clients, Died(d), lastRecvId' = lastRecvId  PROVE Replied(c)
  <2>1. toClient'[c] = toClient[c] \/ toClient'[c] = <<>>
    BY <1>0, <1>13 DEF Died
  <2> QED
    BY <1>1, <1>13, <2>1
<1>14. ASSUME NEW d \in Clients, EndPass(d) \/ Exit(d)  PROVE Replied(c)
  <2>1. (UNCHANGED net /\ lastRecvId' = lastRecvId) \/ (Died(d) /\ lastRecvId' = lastRecvId)
    BY <1>14, Unchanged DEF EndPass, Exit
  <2> QED
    BY <1>5, <1>13, <2>1
<1>15. ASSUME NEW x \in Publish, NEW v \in Values \cup {Unset},
              LocalChange(x[2], v) \/ Request(x[1], x[2], v)
       PROVE  Replied(c)
  BY <1>5, <1>15, Unchanged DEF LocalChange, Request
<1>16. ASSUME NEW x \in Subscribe, Hold(x) \/ Read(x) \/ Release(x)  PROVE Replied(c)
  BY <1>5, <1>16, Unchanged DEF Hold, Read, Release
<1> QED
  BY <1>6, <1>7, <1>8, <1>9, <1>10, <1>11, <1>12, <1>14, <1>15, <1>16
     DEF Next, ServerStep, Deliver

-----------------------------------------------------------------------------
(* What a step does to the packets of a client.                            *)

\* Nothing, or it serves another client; it dies; it asks for something.
Untouched(c) ==
  /\ toServer'[c] = toServer[c] /\ todo'[c] = todo[c] /\ lastSentId'[c] = lastSentId[c]
  /\ serving' = serving \/ (serving.from # c /\ serving'.from # c)
Lost(c) ==
  /\ Died(c) /\ toServer' = toServer /\ lastSentId' = lastSentId /\ serving' = serving
  /\ value' = value
Asks(c) == \E p \in Paths, v \in Values \cup {Unset} :
             <<c, p>> \in Publish /\ Request(c, p, v)

\* Every step is one of these to a client.
LEMMA PacketStep ==
  ASSUME Core, [Next]_vars, NEW c \in Clients
  PROVE  \/ Untouched(c) \/ ReceivePacket(c) \/ Drop(c) \/ ClientTimer(c) \/ Sync(c)
         \/ Lost(c) \/ Asks(c)
         \/ serving.from = c /\ (ServeRequest \/ Reply)
<1>0. /\ QueueTypes /\ c # Server
      /\ toServer \in [Clients -> Seq(Packets)] /\ todo \in [Clients -> Seq(Requests)]
      /\ lastSentId \in [Clients -> Nat]
  BY NamesAssumption DEF Core, QueueTypes
<1>1. ASSUME toServer' = toServer, todo' = todo, lastSentId' = lastSentId,
             serving' = serving \/ (serving.from # c /\ serving'.from # c)
      PROVE  Untouched(c)
  BY <1>1 DEF Untouched
<1>2. CASE UNCHANGED vars
  BY <1>1, <1>2, Unchanged
<1>3. ASSUME NEW d \in Clients, ReceivePacket(d) \/ Drop(d), d # c
      PROVE  Untouched(c)
  <2>1. /\ toServer'[c] = toServer[c] /\ todo'[c] = todo[c] /\ lastSentId'[c] = lastSentId[c]
        /\ serving = Idle
    BY <1>0, <1>3, Unchanged DEF ReceivePacket, Drop, ServerFree
  <2>2. serving'.from = d \/ serving'.from = Server
    <3>1. CASE ReceivePacket(d)
      BY <3>1 DEF ReceivePacket
    <3>2. CASE Drop(d)
      BY <3>2 DEF Drop, Idle
    <3> QED
      BY <1>3, <3>1, <3>2
  <2> QED
    BY <1>0, <1>3, <2>1, <2>2 DEF Untouched, Idle
<1>4. CASE ServeRequest /\ serving.from # c
  <2>1. toServer' = toServer /\ todo' = todo /\ lastSentId' = lastSentId
    BY <1>4, Unchanged DEF ServeRequest
  <2>2. \E a : serving' = [serving EXCEPT !.ops = Tail(@), !.any = a]
    BY <1>4 DEF ServeRequest
  <2>3. serving'.from = serving.from
    BY <1>0, <2>2 DEF QueueTypes
  <2> QED
    BY <1>1, <1>4, <2>1, <2>3
<1>5. ASSUME serving.from # c, Reply \/ ServerTimer \/ DropDone  PROVE Untouched(c)
  <2>1. toServer' = toServer /\ todo' = todo /\ lastSentId' = lastSentId
    BY <1>5, Unchanged DEF Reply, ServerTimer, DropDone
  <2>2. serving' = Idle \/ serving' = serving
    BY <1>5, Unchanged DEF Reply, ServerTimer, DropDone
  <2> QED
    BY <1>0, <1>1, <1>5, <2>1, <2>2 DEF Idle
<1>6. ServerTimer \/ DropDone => serving.from # c
  BY <1>0 DEF ServerTimer, DropDone, ServerFree, Idle
<1>7. ASSUME NEW d \in Clients, ClientTimer(d) \/ Sync(d), d # c  PROVE Untouched(c)
  <2>1. /\ serving' = serving /\ lastSentId' = lastSentId /\ Transmitted(d)
    BY <1>7, Unchanged DEF ClientTimer, Sync
  <2>2. toServer'[c] = toServer[c] /\ todo'[c] = todo[c]
    BY <1>0, <1>7, <2>1 DEF Transmitted
  <2> QED
    BY <2>1, <2>2 DEF Untouched
<1>8. ASSUME NEW d \in Clients, \/ ReceiveSync(d) \/ BeginPass(d) \/ SyncReturn(d)
      PROVE  Untouched(c)
  BY <1>1, <1>8, Unchanged DEF ReceiveSync, BeginPass, SyncReturn
<1>9. ASSUME NEW d \in Clients, EndPass(d) \/ Exit(d)  PROVE Untouched(c) \/ Lost(c)
  <2>1. value' = value /\ serving' = serving
    BY <1>9, Unchanged DEF EndPass, Exit
  <2>2. \/ UNCHANGED net /\ UNCHANGED ids
        \/ Died(d) /\ toServer' = toServer /\ lastSentId' = lastSentId
    BY <1>9 DEF EndPass, Exit
  <2>3. CASE UNCHANGED net /\ UNCHANGED ids
    BY <1>1, <2>1, <2>3, Unchanged
  <2>4. CASE Died(d) /\ toServer' = toServer /\ lastSentId' = lastSentId
    <3>1. CASE d = c
      BY <2>1, <2>4, <3>1 DEF Lost
    <3>2. CASE d # c
      <4>1. todo'[c] = todo[c]
        BY <1>0, <2>4, <3>2 DEF Died
      <4> QED
        BY <2>1, <2>4, <4>1 DEF Untouched
    <3> QED
      BY <3>1, <3>2
  <2> QED
    BY <2>2, <2>3, <2>4
<1>10. ASSUME NEW x \in Publish, NEW v \in Values \cup {Unset}, LocalChange(x[2], v)
       PROVE  Untouched(c)
  BY <1>1, <1>10, Unchanged DEF LocalChange
<1>11. ASSUME NEW x \in Publish, NEW v \in Values \cup {Unset}, x[1] \in Clients,
              Request(x[1], x[2], v)
       PROVE  Untouched(c) \/ Asks(c)
  <2>1. CASE x[1] = c
    BY <1>11, <2>1, Pairs DEF Asks
  <2>2. CASE x[1] # c
    <3>1. /\ toServer' = toServer /\ serving' = serving
          /\ todo'[c] = todo[c] /\ lastSentId'[c] = lastSentId[c]
      BY <1>0, <1>11, <2>2, Unchanged DEF Request, NewPackId
    <3> QED
      BY <3>1 DEF Untouched
  <2> QED
    BY <2>1, <2>2
<1>12. ASSUME NEW x \in Subscribe, Hold(x) \/ Read(x) \/ Release(x)  PROVE Untouched(c)
  BY <1>1, <1>12, Unchanged DEF Hold, Read, Release
<1> QED
  BY <1>2, <1>3, <1>4, <1>5, <1>6, <1>7, <1>8, <1>9, <1>10, <1>11, <1>12
     DEF Next, ServerStep, Deliver

-----------------------------------------------------------------------------
(* The packets of a client stay in order.                                  *)

\* A reply that is new is to the packet that is done.
LEMMA BelowStep ==
  ASSUME QueueTypes, NEW c \in Clients, Replied(c), NEW m \in Nat, Below(c, m),
         serving.from = c /\ serving' = Idle => serving.id < m
  PROVE  \A k \in Heard(c)' : k < m
<1>1. lastRecvId[c] \in Heard(c) /\ lastRecvId[c] \in Nat
  BY DEF Heard, QueueTypes
<1>2. lastRecvId[c] < m
  BY <1>1 DEF Below
<1>3. 0 < m
  BY <1>1, <1>2
<1> QED
  BY <1>3 DEF Replied, Below

\* The order after a step, taken together.
LEMMA PrimedOrder ==
  ASSUME NEW c \in Clients,
         \A i, j \in 1 .. Len(toServer'[c]) : i < j => toServer'[c][i].id < toServer'[c][j].id,
         \A i \in 1 .. Len(toServer'[c]) :
           \/ \A k \in Heard(c)' : k < toServer'[c][i].id
           \/ toServer'[c][i].id = 0 /\ Silent(toServer'[c][i].ops),
         serving'.from = c =>
           /\ \/ \A k \in Heard(c)' : k < serving'.id
              \/ serving'.id = 0 /\ Silent(serving'.ops)
           /\ \A i \in 1 .. Len(toServer'[c]) : serving'.id < toServer'[c][i].id,
         todo'[c] # <<>> =>
           /\ \A k \in Heard(c)' : k < lastSentId'[c]
           /\ \A i \in 1 .. Len(toServer'[c]) : toServer'[c][i].id < lastSentId'[c]
           /\ serving'.from = c => serving'.id < lastSentId'[c]
  PROVE  OrderOf(c)'
BY DEF OrderOf, Unanswered, Silent, Below

\* The packets of a client in parts.
LEMMA PacketParts ==
  ASSUME Core, NEW c \in Clients
  PROVE  /\ toServer[c] \in Seq(Packets) /\ Len(toServer[c]) \in Nat
         /\ \A i \in 1 .. Len(toServer[c]) :
              /\ toServer[c][i] \in Packets /\ toServer[c][i].id \in Nat
              /\ toServer[c][i].ops \in Seq(Requests)
              /\ toServer[c][i].id <= lastSentId[c]
         /\ todo[c] \in Seq(Requests) /\ lastSentId[c] \in Nat
         /\ serving.id \in Nat /\ serving.ops \in Seq(Requests)
         /\ serving.from = c => serving.id <= lastSentId[c]
         /\ \A i \in Heard(c) : i \in Nat /\ i <= lastSentId[c]
         /\ c # Server
<1>1. /\ QueueTypes /\ Ids
      /\ toServer[c] \in Seq(Packets) /\ toClient[c] \in Seq(Nat)
  BY DEF Core, QueueTypes
<1>2. \A i \in 1 .. Len(toServer[c]) : toServer[c][i] \in Packets
  BY <1>1, ElementOfSeq
<1>3. \A i \in 1 .. Len(toClient[c]) : toClient[c][i] \in Nat
  BY <1>1, ElementOfSeq
<1>4. Len(toServer[c]) \in Nat
  BY <1>1, LenProperties
<1>5. /\ \A i \in 1 .. Len(toServer[c]) : toServer[c][i].id <= lastSentId[c]
      /\ serving.from = c => serving.id <= lastSentId[c]
      /\ \A i \in 1 .. Len(toClient[c]) : toClient[c][i] <= lastSentId[c]
      /\ lastRecvId[c] <= lastSentId[c]
  BY <1>1 DEF Ids
<1>6. /\ todo[c] \in Seq(Requests) /\ lastSentId[c] \in Nat /\ lastRecvId[c] \in Nat
      /\ serving.id \in Nat /\ serving.ops \in Seq(Requests)
  BY <1>1 DEF QueueTypes
<1>7. \A i \in Heard(c) : i \in Nat /\ i <= lastSentId[c]
  BY <1>3, <1>5, <1>6 DEF Heard
<1> QED
  BY <1>1, <1>2, <1>4, <1>5, <1>6, <1>7, NamesAssumption DEF Packets

\* The packets of a client stay in order.
LEMMA OrderStep ==
  ASSUME Core, Order, [Next]_vars, NEW c \in Clients
  PROVE  OrderOf(c)'
<1>0. /\ QueueTypes /\ OrderOf(c) /\ Replied(c)
      /\ toServer \in [Clients -> Seq(Packets)] /\ todo \in [Clients -> Seq(Requests)]
      /\ lastSentId \in [Clients -> Nat]
  BY RepliedStep DEF Core, QueueTypes, Order
<1> DEFINE s == toServer[c]
           last == lastSentId[c]
<1>1. /\ s \in Seq(Packets) /\ Len(s) \in Nat
      /\ \A i \in 1 .. Len(s) :
           s[i].id \in Nat /\ s[i].ops \in Seq(Requests) /\ s[i].id <= last
      /\ todo[c] \in Seq(Requests) /\ last \in Nat
      /\ serving.id \in Nat /\ serving.ops \in Seq(Requests)
      /\ serving.from = c => serving.id <= last
      /\ \A i \in Heard(c) : i \in Nat /\ i <= last
      /\ c # Server
  BY PacketParts
<1>2. /\ \A i, j \in 1 .. Len(s) : i < j => s[i].id < s[j].id
      /\ \A i \in 1 .. Len(s) : Below(c, s[i].id) \/ (s[i].id = 0 /\ Silent(s[i].ops))
      /\ serving.from = c =>
           /\ Below(c, serving.id) \/ (serving.id = 0 /\ Silent(serving.ops))
           /\ \A i \in 1 .. Len(s) : serving.id < s[i].id
      /\ todo[c] # <<>> =>
           /\ Below(c, last)
           /\ \A i \in 1 .. Len(s) : s[i].id < last
           /\ serving.from = c => serving.id < last
  BY <1>0 DEF OrderOf, Unanswered
<1>3. ASSUME NEW m \in Nat, Below(c, m), serving.from = c /\ serving' = Idle => serving.id < m
      PROVE  \A k \in Heard(c)' : k < m
  BY <1>0, <1>3, BelowStep
<1>4. /\ \A i \in 1 .. Len(s) : \/ \A k \in Heard(c)' : k < s[i].id
                                \/ s[i].id = 0 /\ Silent(s[i].ops)
      /\ todo[c] # <<>> => \A k \in Heard(c)' : k < last
  <2>1. ASSUME NEW i \in 1 .. Len(s), Below(c, s[i].id)  PROVE \A k \in Heard(c)' : k < s[i].id
    BY <1>1, <1>2, <1>3, <2>1
  <2>2. ASSUME todo[c] # <<>>  PROVE \A k \in Heard(c)' : k < last
    BY <1>1, <1>2, <1>3, <2>2
  <2> QED
    BY <1>2, <2>1, <2>2
<1>5. ASSUME serving' # Idle, serving.from = c, Below(c, serving.id)
      PROVE  \A k \in Heard(c)' : k < serving.id
  BY <1>1, <1>3, <1>5
<1> HIDE DEF s, last
<1>6. CASE Untouched(c)
  <2>1. /\ toServer'[c] = s /\ todo'[c] = todo[c] /\ lastSentId'[c] = last
        /\ serving' = serving \/ (serving.from # c /\ serving'.from # c)
    BY <1>6 DEF Untouched, s, last
  <2>2. serving'.from = c => serving' = serving /\ serving' # Idle
    BY <1>1, <2>1 DEF Idle
  <2>3. serving'.from = c =>
          /\ \/ \A k \in Heard(c)' : k < serving'.id
             \/ serving'.id = 0 /\ Silent(serving'.ops)
          /\ \A i \in 1 .. Len(s) : serving'.id < s[i].id
    BY <1>2, <1>5, <2>2
  <2>4. todo[c] # <<>> /\ serving'.from = c => serving'.id < last
    BY <1>2, <2>2
  <2> QED
    BY <1>2, <1>4, <2>1, <2>3, <2>4, PrimedOrder
<1>7. CASE ReceivePacket(c)
  <2>1. /\ serving = Idle /\ s # <<>>
        /\ serving' = [from |-> c, id |-> Head(s).id, ops |-> Head(s).ops, any |-> FALSE]
        /\ toServer'[c] = Tail(s) /\ todo'[c] = todo[c] /\ lastSentId'[c] = last
    BY <1>0, <1>7, Unchanged DEF ReceivePacket, ServerFree, s, last
  <2>2. /\ Head(s) = s[1] /\ 1 \in 1 .. Len(s)
        /\ \A i \in 1 .. Len(Tail(s)) : Tail(s)[i] = s[i + 1] /\ i + 1 \in 1 .. Len(s)
    BY <1>1, <2>1, TailIs
  <2>3. serving'.id = s[1].id /\ serving'.ops = s[1].ops
    BY <2>1, <2>2
  <2> DEFINE t == Tail(s)
  <2>4. Len(t) \in Nat
    BY <1>1, <2>1, HeadTailProperties, LenProperties
  <2>5. /\ toServer'[c] = t
        /\ \A i \in 1 .. Len(t) : t[i] = s[i + 1] /\ i + 1 \in 1 .. Len(s)
    BY <2>1, <2>2
  <2> HIDE DEF t
  <2>6. \A i, j \in 1 .. Len(t) : i < j => t[i].id < t[j].id
    <3>1. ASSUME NEW i \in 1 .. Len(t), NEW j \in 1 .. Len(t), i < j  PROVE t[i].id < t[j].id
      <4>1. i + 1 < j + 1
        BY <2>4, <3>1
      <4> QED
        BY <1>2, <2>5, <4>1
    <3> QED
      BY <3>1
  <2>7. \A i \in 1 .. Len(t) : s[1].id < t[i].id
    <3>1. ASSUME NEW i \in 1 .. Len(t)  PROVE s[1].id < t[i].id
      <4>1. 1 < i + 1
        BY <2>4
      <4> QED
        BY <1>2, <2>2, <2>5, <4>1
    <3> QED
      BY <3>1
  <2>8. \A i \in 1 .. Len(t) : \/ \A k \in Heard(c)' : k < t[i].id
                               \/ t[i].id = 0 /\ Silent(t[i].ops)
    BY <1>4, <2>5
  <2>9. todo[c] # <<>> => s[1].id < last /\ \A i \in 1 .. Len(t) : t[i].id < last
    BY <1>2, <2>2, <2>5
  <2>10. \/ \A k \in Heard(c)' : k < serving'.id
         \/ serving'.id = 0 /\ Silent(serving'.ops)
    BY <1>4, <2>2, <2>3
  <2>11. todo'[c] = todo[c] /\ lastSentId'[c] = last
    BY <2>1
  <2> QED
    BY <1>4, <2>3, <2>5, <2>6, <2>7, <2>8, <2>9, <2>10, <2>11, PrimedOrder
<1>8. CASE serving.from = c /\ ServeRequest
  <2>1. /\ toServer'[c] = s /\ todo'[c] = todo[c] /\ lastSentId'[c] = last
        /\ serving.ops # <<>>
    BY <1>8, Unchanged DEF ServeRequest, s, last
  <2>2. \E a : serving' = [serving EXCEPT !.ops = Tail(@), !.any = a]
    BY <1>8 DEF ServeRequest
  <2>3. serving'.from = c /\ serving'.id = serving.id /\ serving'.ops = Tail(serving.ops)
    BY <1>0, <1>8, <2>2 DEF QueueTypes
  <2>4. serving' # Idle
    BY <1>1, <2>3 DEF Idle
  <2>5. Silent(serving.ops) => Silent(Tail(serving.ops))
    BY <1>1, <2>1, ServedParts
  <2>6. \/ \A k \in Heard(c)' : k < serving'.id
        \/ serving'.id = 0 /\ Silent(serving'.ops)
    BY <1>2, <1>5, <1>8, <2>3, <2>4, <2>5
  <2> QED
    BY <1>2, <1>4, <1>8, <2>1, <2>3, <2>6, PrimedOrder
<1>9. CASE serving.from = c /\ Reply
  <2>1. /\ toServer'[c] = s /\ todo'[c] = todo[c] /\ lastSentId'[c] = last
        /\ serving' = Idle
    BY <1>9, Unchanged DEF Reply, s, last
  <2>2. serving'.from # c
    BY <1>1, <2>1 DEF Idle
  <2> QED
    BY <1>2, <1>4, <2>1, <2>2, PrimedOrder
<1>10. CASE Drop(c)
  <2>1. /\ toServer'[c] = <<>> /\ todo'[c] = todo[c] /\ lastSentId'[c] = last
        /\ serving'.from = Server
    BY <1>0, <1>10, Unchanged DEF Drop, Idle, last
  <2>2. Len(<<>>) = 0
    OBVIOUS
  <2> QED
    BY <1>1, <1>4, <2>1, <2>2, PrimedOrder
<1>11. CASE ClientTimer(c) \/ Sync(c)
  <2> DEFINE p == [id |-> last, ops |-> todo[c]]
  <2>1. /\ todo'[c] = <<>> /\ lastSentId'[c] = last /\ serving' = serving
        /\ toServer'[c] = IF todo[c] = <<>> THEN s ELSE Append(s, p)
    BY <1>0, <1>11, Unchanged DEF ClientTimer, Sync, Transmitted, s, last
  <2>2. serving'.from = c => serving' # Idle
    BY <1>1, <2>1 DEF Idle
  <2>3. serving'.from = c =>
          /\ \/ \A k \in Heard(c)' : k < serving'.id
             \/ serving'.id = 0 /\ Silent(serving'.ops)
          /\ \A i \in 1 .. Len(s) : serving'.id < s[i].id
    BY <1>2, <1>5, <2>1, <2>2
  <2>4. CASE todo[c] = <<>>
    <3>1. toServer'[c] = s
      BY <2>1, <2>4
    <3> QED
      BY <1>2, <1>4, <2>1, <2>3, <3>1, PrimedOrder
  <2>5. CASE todo[c] # <<>>
    <3> DEFINE t == Append(s, p)
               l == Len(s) + 1
    <3>1. /\ Len(s) \in Nat /\ Len(t) = l
          /\ \A i \in 1 .. Len(s) : i \in 1 .. Len(t) /\ t[i] = s[i]
          /\ t[l] = p
          /\ \A i \in 1 .. Len(t) : i \in 1 .. Len(s) \/ i = l
      BY <1>1, AppendIs
    <3>2. toServer'[c] = t /\ p.id = last /\ todo'[c] = <<>>
      BY <2>1, <2>5
    <3>3. /\ \A i \in 1 .. Len(s) : s[i].id < last
          /\ serving'.from = c => serving'.id < last
          /\ \A k \in Heard(c)' : k < last
      BY <1>2, <1>4, <2>1, <2>5
    <3>4. \A i \in 1 .. Len(t) : ~(l < i)
      BY <3>1
    <3> HIDE DEF t, l, p
    <3>5. \A i, j \in 1 .. Len(t) : i < j => t[i].id < t[j].id
      <4>1. ASSUME NEW i \in 1 .. Len(t), NEW j \in 1 .. Len(t), i < j  PROVE t[i].id < t[j].id
        <5>1. i \in 1 .. Len(s) /\ t[i] = s[i]
          BY <3>1, <3>4, <4>1
        <5>2. CASE j \in 1 .. Len(s)
          BY <1>2, <3>1, <4>1, <5>1, <5>2
        <5>3. CASE j = l
          BY <3>1, <3>2, <3>3, <5>1, <5>3
        <5> QED
          BY <3>1, <5>2, <5>3
      <4> QED
        BY <4>1
    <3>6. \A i \in 1 .. Len(t) : \/ \A k \in Heard(c)' : k < t[i].id
                                 \/ t[i].id = 0 /\ Silent(t[i].ops)
      <4>1. ASSUME NEW i \in 1 .. Len(t)
            PROVE  \/ \A k \in Heard(c)' : k < t[i].id
                   \/ t[i].id = 0 /\ Silent(t[i].ops)
        <5>1. CASE i \in 1 .. Len(s)
          BY <1>4, <3>1, <5>1
        <5>2. CASE i = l
          BY <3>1, <3>2, <3>3, <5>2
        <5> QED
          BY <3>1, <5>1, <5>2
      <4> QED
        BY <4>1
    <3>7. serving'.from = c => \A i \in 1 .. Len(t) : serving'.id < t[i].id
      BY <2>3, <3>1, <3>2, <3>3
    <3> QED
      BY <2>3, <3>2, <3>5, <3>6, <3>7, PrimedOrder
  <2> QED
    BY <2>4, <2>5
<1>12. CASE Lost(c)
  <2>1. /\ todo'[c] = <<>> /\ lastSentId'[c] = last /\ serving' = serving
        /\ toServer'[c] = s
    BY <1>0, <1>12 DEF Lost, Died, s, last
  <2>2. serving'.from = c => serving' # Idle
    BY <1>1, <2>1 DEF Idle
  <2>3. serving'.from = c =>
          /\ \/ \A k \in Heard(c)' : k < serving'.id
             \/ serving'.id = 0 /\ Silent(serving'.ops)
          /\ \A i \in 1 .. Len(s) : serving'.id < s[i].id
    BY <1>2, <1>5, <2>1, <2>2
  <2> QED
    BY <1>2, <1>4, <2>1, <2>3, PrimedOrder
<1>13. CASE Asks(c)
  <2>1. PICK p \in Paths, v \in Values \cup {Unset} : Request(c, p, v)
    BY <1>13 DEF Asks
  <2>2. /\ toServer'[c] = s /\ serving' = serving
        /\ lastSentId'[c] = IF todo[c] = <<>> THEN last + 1 ELSE last
        /\ toClient' = toClient /\ lastRecvId' = lastRecvId
    BY <1>0, <2>1, Unchanged DEF Request, NewPackId, s, last
  <2>3. serving'.from = c => serving' # Idle
    BY <1>1, <2>2 DEF Idle
  <2>4. serving'.from = c =>
          /\ \/ \A k \in Heard(c)' : k < serving'.id
             \/ serving'.id = 0 /\ Silent(serving'.ops)
          /\ \A i \in 1 .. Len(s) : serving'.id < s[i].id
    BY <1>2, <1>5, <2>2, <2>3
  <2>5. CASE todo[c] # <<>>
    <3>1. /\ \A k \in Heard(c)' : k < lastSentId'[c]
          /\ \A i \in 1 .. Len(s) : s[i].id < lastSentId'[c]
          /\ serving'.from = c => serving'.id < lastSentId'[c]
      BY <1>2, <1>4, <2>2, <2>5
    <3> QED
      BY <1>2, <1>4, <2>2, <2>4, <3>1, PrimedOrder
  <2>6. CASE todo[c] = <<>>
    <3>1. Heard(c)' = Heard(c) /\ lastSentId'[c] = last + 1
      BY <2>2, <2>6 DEF Heard
    <3>2. \A k \in Heard(c) : k < last + 1
      BY <1>1
    <3>3. \A i \in 1 .. Len(s) : s[i].id < last + 1
      BY <1>1
    <3>4. serving.from = c => serving.id < last + 1
      BY <1>1
    <3> QED
      BY <1>2, <1>4, <2>2, <2>4, <3>1, <3>2, <3>3, <3>4, PrimedOrder
  <2> QED
    BY <2>5, <2>6
<1> QED
  BY <1>6, <1>7, <1>8, <1>9, <1>10, <1>11, <1>12, <1>13, PacketStep

-----------------------------------------------------------------------------
(* What a client asked for is pursued.                                     *)

PursuedFor(c, p) == InTodo(c, p) \/ OnItsWay(c, p) \/ Served(c, p) \/ Applied(c, p)

\* A path has one publisher.
LEMMA OthersMiss ==
  ASSUME NEW c, NEW p, <<c, p>> \in Publish, NEW d, d # c
  PROVE  <<d, p>> \notin Publish /\ \A q : p \notin Owned(d, q)
<1>1. ASSUME <<d, p>> \in Publish  PROVE FALSE
  <2>1. <<d, p>> = <<c, p>>
    BY <1>1, OnePublisher
  <2> QED
    BY <2>1
<1> QED
  BY <1>1 DEF Owned

\* What its publisher asked for at a path changes when it asks or dies.
LEMMA AskedStep ==
  ASSUME Core, [Next]_vars, NEW c \in Clients, NEW p \in Paths, <<c, p>> \in Publish
  PROVE  \/ asked'[p] = asked[p]
         \/ Died(c)
         \/ Asks(c)
<1>0. asked \in [Paths -> Values \cup {Unset}] /\ c # Server
  BY NamesAssumption DEF Core, TreeTypes
<1>1. ASSUME asked' = asked  PROVE asked'[p] = asked[p]
  BY <1>1
<1>2. ASSUME NEW d, d # c, NEW x \in Publish, x[1] = d, NEW v,
             asked' = Put(asked, Changed(d, x[2], v), v)
      PROVE  asked'[p] = asked[p]
  <2>1. p \notin Owned(d, x[2]) /\ <<d, p>> \notin Publish
    BY <1>2, OthersMiss
  <2>2. x = <<d, x[2]>>
    BY <1>2, Pairs
  <2>3. p \notin Changed(d, x[2], v)
    BY <1>2, <2>1, <2>2 DEF Changed
  <2> QED
    BY <1>2, <2>3 DEF Put
<1>3. ASSUME NEW d \in Clients, Died(d)  PROVE asked'[p] = asked[p] \/ Died(c)
  <2>1. CASE d = c
    BY <1>3, <2>1
  <2>2. CASE d # c
    <3>1. <<d, p>> \notin Publish
      BY <2>2, OthersMiss
    <3> QED
      BY <1>3, <3>1 DEF Died
  <2> QED
    BY <2>1, <2>2
<1>4. ASSUME NEW x \in Publish, NEW v \in Values \cup {Unset}, LocalChange(x[2], v)
      PROVE  asked'[p] = asked[p]
  <2>1. /\ <<Server, x[2]>> \in Publish
        /\ asked' = Put(asked, Changed(Server, x[2], v), v)
    BY <1>4 DEF LocalChange
  <2>2. x = <<Server, x[2]>>
    BY <2>1, OnePublisher
  <2>3. x[1] = Server
    BY <2>2
  <2> QED
    BY <1>0, <1>2, <2>1, <2>3
<1>5. ASSUME NEW x \in Publish, NEW v \in Values \cup {Unset}, x[1] \in Clients,
             Request(x[1], x[2], v)
      PROVE  asked'[p] = asked[p] \/ Asks(c)
  <2>1. CASE x[1] = c
    BY <1>5, <2>1, Pairs DEF Asks
  <2>2. CASE x[1] # c
    <3>1. asked' = Put(asked, Changed(x[1], x[2], v), v)
      BY <1>5 DEF Request
    <3> QED
      BY <1>2, <2>2, <3>1
  <2> QED
    BY <2>1, <2>2
<1>6. ASSUME NEW d \in Clients, EndPass(d) \/ Exit(d)
      PROVE  asked' = asked \/ Died(d)
  BY <1>6 DEF EndPass, Exit
<1>7. ASSUME NEW d \in Clients, \/ ReceivePacket(d) \/ Drop(d) \/ ReceiveSync(d)
                                \/ BeginPass(d) \/ ClientTimer(d) \/ Sync(d) \/ SyncReturn(d)
      PROVE  asked' = asked
  BY <1>7 DEF ReceivePacket, Drop, ReceiveSync, BeginPass, ClientTimer, Sync, SyncReturn
<1>8. ServeRequest \/ Reply \/ ServerTimer \/ DropDone => asked' = asked
  BY DEF ServeRequest, Reply, ServerTimer, DropDone
<1>9. ASSUME NEW x \in Subscribe, Hold(x) \/ Read(x) \/ Release(x)  PROVE asked' = asked
  BY <1>9 DEF Hold, Read, Release
<1>10. UNCHANGED vars => asked' = asked
  BY Unchanged
<1> QED
  BY <1>1, <1>3, <1>4, <1>5, <1>6, <1>7, <1>8, <1>9, <1>10 DEF Next, ServerStep, Deliver

\* The value at a path changes when a request of its publisher is served, or its
\* publisher is dropped.
LEMMA ValueStep ==
  ASSUME Core, [Next]_vars, NEW c \in Clients, NEW p \in Paths, <<c, p>> \in Publish
  PROVE  \/ value'[p] = value[p]
         \/ serving.from = c /\ ServeRequest
         \/ Drop(c)
<1>0. value \in [Paths -> Values \cup {Unset}] /\ c # Server /\ QueueTypes
  BY NamesAssumption DEF Core, TreeTypes
<1>1. ASSUME NEW d, d # c, NEW q, RemItems(Owned(d, q))  PROVE value'[p] = value[p]
  <2>1. p \notin Owned(d, q)
    BY <1>1, OthersMiss
  <2>2. value' = Put(value, Owned(d, q), Unset)
    BY <1>1 DEF RemItems, Write
  <2> QED
    BY <2>1, <2>2 DEF Put
<1>2. ASSUME NEW q, NEW v, p # q, SetItem(q, v)  PROVE value'[p] = value[p]
  BY <1>2 DEF SetItem, Write, Put
<1>3. CASE ServeRequest /\ serving.from # c
  <2> DEFINE op == Head(serving.ops)
  <2>1. serving.ops # <<>>
    BY <1>3 DEF ServeRequest
  <2>2. op.kind # "index" => <<serving.from, op.path>> \in Publish /\ op.path \in Paths
    BY <1>0, <2>1, ServedRequest
  <2>3. \/ value' = value
        \/ op.kind = "add" /\ SetItem(op.path, op.value)
        \/ RemItems(Owned(serving.from, op.path))
    BY <1>3 DEF ServeRequest
  <2> HIDE DEF op
  <2>4. op.kind = "add" => op.path # p
    <3>1. <<serving.from, p>> \notin Publish
      BY <1>3, OthersMiss
    <3> QED
      BY <2>2, <3>1
  <2> QED
    BY <1>1, <1>2, <1>3, <2>3, <2>4
<1>4. ASSUME NEW d \in Clients, Drop(d)  PROVE value'[p] = value[p] \/ Drop(c)
  <2>1. CASE d = c
    BY <1>4, <2>1
  <2>2. CASE d # c
    BY <1>1, <1>4, <2>2 DEF Drop
  <2> QED
    BY <2>1, <2>2
<1>5. ASSUME NEW x \in Publish, NEW v \in Values \cup {Unset}, LocalChange(x[2], v)
      PROVE  value'[p] = value[p]
  <2>1. /\ <<Server, x[2]>> \in Publish
        /\ RemItems(Owned(Server, x[2])) \/ SetItem(x[2], v)
    BY <1>5 DEF LocalChange
  <2>2. x[2] # p
    <3>1. <<Server, p>> \notin Publish
      BY <1>0, OthersMiss
    <3> QED
      BY <2>1, <3>1
  <2> QED
    BY <1>0, <1>1, <1>2, <2>1, <2>2
<1>6. ASSUME NEW d \in Clients, \/ ReceivePacket(d) \/ ReceiveSync(d) \/ BeginPass(d)
                                \/ EndPass(d) \/ Exit(d)
                                \/ ClientTimer(d) \/ Sync(d) \/ SyncReturn(d)
      PROVE  value' = value
  BY <1>6
     DEF ReceivePacket, ReceiveSync, BeginPass, EndPass, Exit, ClientTimer, Sync, SyncReturn
<1>7. Reply \/ ServerTimer \/ DropDone => value' = value
  BY DEF Reply, ServerTimer, DropDone
<1>8. ASSUME NEW x \in Subscribe, Hold(x) \/ Read(x) \/ Release(x)  PROVE value' = value
  BY <1>8 DEF Hold, Read, Release
<1>9. ASSUME NEW x \in Publish, NEW v \in Values \cup {Unset}, Request(x[1], x[2], v)
      PROVE  value' = value
  BY <1>9 DEF Request
<1>10. UNCHANGED vars => value' = value
  BY Unchanged
<1> QED
  BY <1>3, <1>4, <1>5, <1>6, <1>7, <1>8, <1>9, <1>10 DEF Next, ServerStep, Deliver

\* The pursuit after a step, taken together.
LEMMA PrimedPursuit ==
  ASSUME NEW c, NEW p,
         \/ Leaves(todo'[c], p, asked'[p])
         \/ Spares(todo'[c], p) /\ Carried(toServer'[c], p, asked'[p])
         \/ /\ Spares(todo'[c], p) /\ NoneCarried(toServer'[c], p)
            /\ serving'.from = c /\ Leaves(serving'.ops, p, asked'[p])
         \/ /\ Spares(todo'[c], p) /\ NoneCarried(toServer'[c], p)
            /\ serving'.from = c => Spares(serving'.ops, p)
            /\ value'[p] = asked'[p]
  PROVE  PursuedFor(c, p)'
BY DEF PursuedFor, InTodo, OnItsWay, Served, Applied, Leaves, Spares, Carried, NoneCarried,
       Affects

\* A request that is served changes the value at the paths it affects, to what
\* it says.
LEMMA ServedEffect ==
  ASSUME Core, NEW c \in Clients, NEW p \in Paths, <<c, p>> \in Publish,
         serving.from = c, ServeRequest
  PROVE  LET op == Head(serving.ops) IN
         /\ Affects(op, p) => value'[p] = op.value
         /\ ~Affects(op, p) => value'[p] = value[p]
<1> DEFINE op == Head(serving.ops)
<1>1. /\ QueueTypes /\ serving.ops # <<>>
      /\ value \in [Paths -> Values \cup {Unset}]
  BY DEF Core, TreeTypes, ServeRequest
<1>2. /\ op.kind # "index" => <<c, op.path>> \in Publish /\ op.path \in Paths
      /\ op.kind = "add" => op.value \in Values
      /\ op.kind = "rem" => op.value = Unset
  BY <1>1, ServedRequest
<1>3. \/ op.kind = "index" /\ value' = value
      \/ op.kind = "add" /\ SetItem(op.path, op.value)
      \/ op.kind = "rem" /\ RemItems(Owned(c, op.path))
  BY DEF ServeRequest
<1> HIDE DEF op
<1>4. ASSUME op.kind = "index", value' = value
      PROVE  /\ Affects(op, p) => value'[p] = op.value
             /\ ~Affects(op, p) => value'[p] = value[p]
  BY <1>4 DEF Affects
<1>5. ASSUME op.kind = "add", SetItem(op.path, op.value)
      PROVE  /\ Affects(op, p) => value'[p] = op.value
             /\ ~Affects(op, p) => value'[p] = value[p]
  <2>1. value' = Put(value, {op.path}, op.value)
    BY <1>5 DEF SetItem, Write
  <2>2. value'[p] = IF p = op.path THEN op.value ELSE value[p]
    BY <2>1 DEF Put
  <2> QED
    BY <1>5, <2>2 DEF Affects
<1>6. ASSUME op.kind = "rem", RemItems(Owned(c, op.path))
      PROVE  /\ Affects(op, p) => value'[p] = op.value
             /\ ~Affects(op, p) => value'[p] = value[p]
  <2>1. value' = Put(value, Owned(c, op.path), Unset)
    BY <1>6 DEF RemItems, Write
  <2>2. p \in Owned(c, op.path) <=> IsPrefix(op.path, p)
    BY DEF Owned
  <2>3. value'[p] = IF IsPrefix(op.path, p) THEN Unset ELSE value[p]
    BY <2>1, <2>2 DEF Put
  <2> QED
    BY <1>2, <1>6, <2>3 DEF Affects
<1> QED
  BY <1>3, <1>4, <1>5, <1>6 DEF op

\* A client that is gone stays gone, and waits for nothing.
LEMMA GoneStep ==
  ASSUME [Next]_vars
  PROVE  /\ gone \subseteq gone'
         /\ \A c \in Clients : Died(c) => c \in gone'
         /\ Waiting => Waiting'
<1>1. \/ gone' = gone /\ syncing' \subseteq syncing
      \/ \E d \in Clients : Died(d)
      \/ \E d \in Clients : /\ gone' = gone /\ d \notin gone
                            /\ syncing' = syncing \cup {d}
  <2>1. ASSUME NEW d \in Clients, EndPass(d) \/ Exit(d)
        PROVE  Died(d) \/ (gone' = gone /\ syncing' \subseteq syncing)
    BY <2>1, Unchanged DEF EndPass, Exit
  <2>2. ASSUME NEW d \in Clients, Sync(d)
        PROVE  gone' = gone /\ d \notin gone /\ syncing' = syncing \cup {d}
    BY <2>2, Unchanged DEF Sync, Free
  <2>3. ASSUME NEW d \in Clients, \/ ReceivePacket(d) \/ Drop(d) \/ ReceiveSync(d)
                                  \/ BeginPass(d) \/ ClientTimer(d) \/ SyncReturn(d)
        PROVE  gone' = gone /\ syncing' \subseteq syncing
    BY <2>3, Unchanged
       DEF ReceivePacket, Drop, ReceiveSync, BeginPass, ClientTimer, SyncReturn
  <2>4. ServeRequest \/ Reply \/ ServerTimer \/ DropDone =>
          gone' = gone /\ syncing' \subseteq syncing
    BY Unchanged DEF ServeRequest, Reply, ServerTimer, DropDone
  <2>5. ASSUME NEW x \in Publish, NEW v \in Values \cup {Unset},
               LocalChange(x[2], v) \/ Request(x[1], x[2], v)
        PROVE  gone' = gone /\ syncing' \subseteq syncing
    BY <2>5, Unchanged DEF LocalChange, Request
  <2>6. ASSUME NEW x \in Subscribe, Hold(x) \/ Read(x) \/ Release(x)
        PROVE  gone' = gone /\ syncing' \subseteq syncing
    BY <2>6, Unchanged DEF Hold, Read, Release
  <2>7. UNCHANGED vars => gone' = gone /\ syncing' \subseteq syncing
    BY Unchanged
  <2> QED
    BY <2>1, <2>2, <2>3, <2>4, <2>5, <2>6, <2>7 DEF Next, ServerStep, Deliver
<1>2. \A d \in Clients : Died(d) => gone' = gone \cup {d} /\ syncing' = syncing \ {d}
  BY DEF Died
<1> QED
  BY <1>1, <1>2 DEF Waiting

\* The last request for a path stays where it is, goes on, or takes effect.
LEMMA PursuedStep ==
  ASSUME Core, Pursued, [Next]_vars,
         NEW c \in Clients, NEW p \in Paths, c \notin gone', <<c, p>> \in Publish
  PROVE  PursuedFor(c, p)'
<1> DEFINE s == toServer[c]
           a == asked[p]
           ops == serving.ops
<1>0. /\ QueueTypes /\ c \notin gone /\ ~Died(c) /\ ~Drop(c)
      /\ toServer \in [Clients -> Seq(Packets)] /\ todo \in [Clients -> Seq(Requests)]
      /\ asked \in [Paths -> Values \cup {Unset}]
  BY GoneStep DEF Core, QueueTypes, TreeTypes, Drop
<1>1. /\ s \in Seq(Packets) /\ todo[c] \in Seq(Requests) /\ ops \in Seq(Requests)
      /\ c # Server
  BY PacketParts
<1>2. \/ Leaves(todo[c], p, a)
      \/ Spares(todo[c], p) /\ Carried(s, p, a)
      \/ Spares(todo[c], p) /\ NoneCarried(s, p) /\ serving.from = c /\ Leaves(ops, p, a)
      \/ /\ Spares(todo[c], p) /\ NoneCarried(s, p)
         /\ serving.from = c => Spares(ops, p)
         /\ value[p] = a
  BY <1>0 DEF Pursued, InTodo, OnItsWay, Served, Applied
<1>3. asked'[p] = a \/ Asks(c)
  BY <1>0, AskedStep
<1>4. value'[p] = value[p] \/ (serving.from = c /\ ServeRequest)
  BY <1>0, ValueStep
<1>5. Asks(c) \/ ~Asks(c)
  OBVIOUS
<1> HIDE DEF s, a, ops
<1>6. CASE Untouched(c) /\ asked'[p] = a /\ value'[p] = value[p]
  <2>1. /\ toServer'[c] = s /\ todo'[c] = todo[c]
        /\ serving' = serving \/ (serving.from # c /\ serving'.from # c)
    BY <1>6 DEF Untouched, s
  <2>2. serving'.from = c => serving.from = c /\ serving'.ops = ops
    BY <2>1 DEF ops
  <2>3. serving.from = c => serving'.from = c /\ serving'.ops = ops
    BY <2>1 DEF ops
  <2> QED
    BY <1>2, <1>6, <2>1, <2>2, <2>3, PrimedPursuit
<1>7. CASE ReceivePacket(c)
  <2>1. /\ serving = Idle /\ s # <<>>
        /\ serving'.from = c /\ serving'.ops = Head(s).ops
        /\ toServer'[c] = Tail(s) /\ todo'[c] = todo[c]
        /\ asked'[p] = a /\ value'[p] = value[p]
    BY <1>0, <1>7, Unchanged DEF ReceivePacket, ServerFree, s, a
  <2>2. serving.from # c
    BY <1>1, <2>1 DEF Idle
  <2>3. /\ NoneCarried(s, p) => Spares(Head(s).ops, p) /\ NoneCarried(Tail(s), p)
        /\ Carried(s, p, a) => \/ Carried(Tail(s), p, a)
                               \/ Leaves(Head(s).ops, p, a) /\ NoneCarried(Tail(s), p)
    BY <1>1, <2>1, TakenParts
  <2> QED
    BY <1>2, <2>1, <2>2, <2>3, PrimedPursuit
<1>8. CASE serving.from = c /\ ServeRequest
  <2> DEFINE op == Head(ops)
  <2>1. /\ toServer'[c] = s /\ todo'[c] = todo[c] /\ asked'[p] = a /\ ops # <<>>
    BY <1>8, Unchanged DEF ServeRequest, s, a, ops
  <2>2. \E b : serving' = [serving EXCEPT !.ops = Tail(@), !.any = b]
    BY <1>8 DEF ServeRequest
  <2>3. serving'.from = c /\ serving'.ops = Tail(ops)
    BY <1>0, <1>8, <2>2 DEF QueueTypes, ops
  <2>4. /\ Affects(op, p) => value'[p] = op.value
        /\ ~Affects(op, p) => value'[p] = value[p]
    BY <1>8, ServedEffect DEF ops
  <2>5. /\ Spares(ops, p) => ~Affects(op, p) /\ Spares(Tail(ops), p)
        /\ Leaves(ops, p, a) => \/ Leaves(Tail(ops), p, a)
                                \/ /\ Affects(op, p) /\ op.value = a
                                   /\ Spares(Tail(ops), p)
    BY <1>1, <2>1, ServedParts
  <2> HIDE DEF op
  <2> QED
    BY <1>2, <1>8, <2>1, <2>3, <2>4, <2>5, PrimedPursuit
<1>9. CASE serving.from = c /\ Reply
  <2>1. /\ toServer'[c] = s /\ todo'[c] = todo[c] /\ asked'[p] = a /\ value'[p] = value[p]
        /\ serving' = Idle /\ ops = <<>>
    BY <1>9, Unchanged DEF Reply, s, a, ops
  <2>2. serving'.from # c
    BY <1>1, <2>1 DEF Idle
  <2>3. ~Leaves(ops, p, a)
    BY <2>1, LeavesSays
  <2> QED
    BY <1>2, <2>1, <2>2, <2>3, PrimedPursuit
<1>10. CASE ClientTimer(c) \/ Sync(c)
  <2> DEFINE r == [id |-> lastSentId[c], ops |-> todo[c]]
  <2>1. /\ todo'[c] = <<>> /\ serving' = serving /\ asked'[p] = a /\ value'[p] = value[p]
        /\ toServer'[c] = IF todo[c] = <<>> THEN s ELSE Append(s, r)
    BY <1>0, <1>10, Unchanged DEF ClientTimer, Sync, Transmitted, s, a
  <2>2. Spares(<<>>, p) /\ ~Leaves(<<>>, p, a)
    <3>1. Spares(<<>>, p)
      BY DEF Spares
    <3> QED
      BY <3>1, LeavesSays
  <2>3. serving'.from = serving.from /\ serving'.ops = ops
    BY <2>1 DEF ops
  <2>4. CASE todo[c] = <<>>
    <3>1. toServer'[c] = s /\ ~Leaves(todo[c], p, a)
      BY <2>1, <2>2, <2>4
    <3> QED
      BY <1>2, <2>1, <2>2, <2>3, <3>1, PrimedPursuit
  <2>5. CASE todo[c] # <<>>
    <3>1. toServer'[c] = Append(s, r) /\ r.ops = todo[c]
      BY <2>1, <2>5
    <3> HIDE DEF r
    <3>2. /\ Leaves(r.ops, p, a) => Carried(Append(s, r), p, a)
          /\ Spares(r.ops, p) /\ NoneCarried(s, p) => NoneCarried(Append(s, r), p)
          /\ Spares(r.ops, p) /\ Carried(s, p, a) => Carried(Append(s, r), p, a)
      BY <1>1, SentPackets
    <3> QED
      BY <1>2, <2>1, <2>2, <2>3, <3>1, <3>2, PrimedPursuit
  <2> QED
    BY <2>4, <2>5
<1>11. CASE Asks(c)
  <2>1. PICK q \in Paths, v \in Values \cup {Unset} : <<c, q>> \in Publish /\ Request(c, q, v)
    BY <1>11 DEF Asks
  <2> DEFINE r == [kind |-> IF v = Unset THEN "rem" ELSE "add", path |-> q, value |-> v]
  <2>2. /\ toServer'[c] = s /\ serving' = serving /\ todo'[c] = Append(todo[c], r)
        /\ asked' = Put(asked, Changed(c, q, v), v) /\ value'[p] = value[p]
    BY <1>0, <2>1, Unchanged DEF Request, s
  <2>3. Affects(r, p) <=> p \in Changed(c, q, v)
    BY DEF Affects, Changed, Owned
  <2>4. asked'[p] = IF Affects(r, p) THEN v ELSE a
    BY <2>2, <2>3 DEF Put, a
  <2>5. r.value = v
    OBVIOUS
  <2> HIDE DEF r
  <2>6. /\ Affects(r, p) => Leaves(Append(todo[c], r), p, r.value)
        /\ ~Affects(r, p) /\ Spares(todo[c], p) => Spares(Append(todo[c], r), p)
        /\ ~Affects(r, p) /\ Leaves(todo[c], p, a) => Leaves(Append(todo[c], r), p, a)
    BY <1>1, FilledParts
  <2>7. serving'.from = serving.from /\ serving'.ops = ops
    BY <2>2 DEF ops
  <2>8. CASE Affects(r, p)
    BY <2>2, <2>4, <2>5, <2>6, <2>8, PrimedPursuit
  <2>9. CASE ~Affects(r, p)
    BY <1>2, <2>2, <2>4, <2>6, <2>7, <2>9, PrimedPursuit
  <2> QED
    BY <2>8, <2>9
<1>12. ~Lost(c)
  BY <1>0 DEF Lost
<1> QED
  BY <1>0, <1>3, <1>4, <1>6, <1>7, <1>8, <1>9, <1>10, <1>11, <1>12, PacketStep

-----------------------------------------------------------------------------
(* sync() means applied.                                                   *)

Pursuit == Waiting /\ Order /\ Pursued

\* Nothing has been asked for, and an arriving client's packet changes nothing.
LEMMA PursuitInit == Init => Pursuit
<1> SUFFICES ASSUME Init PROVE Pursuit
  OBVIOUS
<1> DEFINE r == [kind |-> "index", path |-> Root, value |-> Unset]
           k == [id |-> 0, ops |-> <<r>>]
<1>1. /\ todo = Nothing /\ serving = Idle /\ syncing = {} /\ gone = {}
      /\ value = [p \in Paths |-> Unset] /\ asked = [p \in Paths |-> Unset]
      /\ toServer = [c \in Clients |-> IF c \notin Arriving THEN <<>> ELSE <<k>>]
  BY DEF Init
<1>2. k.id = 0 /\ Len(k.ops) = 1 /\ k.ops[1].kind = "index"
  OBVIOUS
<1>3. Silent(k.ops) /\ \A p : Spares(k.ops, p)
  BY <1>2 DEF Silent, Spares, Affects
<1> HIDE DEF k
<1>4. ASSUME NEW c \in Clients
      PROVE  /\ todo[c] = <<>> /\ serving.from # c
             /\ toServer[c] = <<>> \/ toServer[c] = <<k>>
  BY <1>1, NamesAssumption DEF Nothing, Idle
<1>5. /\ Len(<<>>) = 0 /\ Len(<<k>>) = 1 /\ <<k>>[1] = k
      /\ \A p : Spares(<<>>, p)
  BY DEF Spares
<1>6. ASSUME NEW c \in Clients  PROVE OrderOf(c)
  <2>1. \A i \in 1 .. Len(toServer[c]) : i = 1 /\ toServer[c][i] = k
    <3>1. CASE toServer[c] = <<>>
      BY <1>5, <3>1
    <3>2. CASE toServer[c] = <<k>>
      BY <1>5, <3>2
    <3> QED
      BY <1>4, <3>1, <3>2
  <2>2. \A i \in 1 .. Len(toServer[c]) : Unanswered(c, toServer[c][i].id, toServer[c][i].ops)
    BY <1>2, <1>3, <2>1 DEF Unanswered
  <2> QED
    BY <1>4, <2>1, <2>2 DEF OrderOf
<1>7. ASSUME NEW c \in Clients, NEW p \in Paths  PROVE Applied(c, p)
  <2>1. NoneCarried(toServer[c], p)
    BY <1>3, <1>4, <1>5 DEF NoneCarried
  <2> QED
    BY <1>1, <1>4, <1>5, <2>1 DEF Applied
<1> QED
  BY <1>1, <1>6, <1>7 DEF Pursuit, Waiting, Order, Pursued

\* Every step keeps it.
LEMMA PursuitStep == Core /\ Pursuit /\ [Next]_vars => Pursuit'
<1> SUFFICES ASSUME Core, Pursuit, [Next]_vars PROVE Pursuit'
  OBVIOUS
<1>1. Waiting'
  BY GoneStep DEF Pursuit
<1>2. Order'
  <2>1. \A c \in Clients : OrderOf(c)'
    BY OrderStep DEF Pursuit
  <2> QED
    BY <2>1 DEF Order
<1>3. Pursued'
  <2>1. \A c \in Clients, p \in Paths :
          c \notin gone' /\ <<c, p>> \in Publish => PursuedFor(c, p)'
    BY PursuedStep DEF Pursuit
  <2> QED
    BY <2>1 DEF Pursued, PursuedFor
<1> QED
  BY <1>1, <1>2, <1>3 DEF Pursuit

\* A sync() that returns finds in the tree what its process last asked for, as
\* doClientSync() waiting for the newest packet's id is meant to ensure
\* (qvaluespacepublisher.cpp:269-271), whatever the server, the other processes
\* and their deaths have done in between.
THEOREM SyncsApplied == Spec => SyncMeansApplied
<1>1. ASSUME Core, Pursuit, NEW c \in Clients, SyncReturn(c), NEW p \in Owned(c, Root)
      PROVE  value[p] = asked[p]
  <2>1. /\ c \in syncing /\ c \notin gone /\ lastRecvId[c] >= lastSentId[c]
        /\ p \in Paths /\ <<c, p>> \in Publish
    BY <1>1 DEF SyncReturn, Pursuit, Waiting, Owned
  <2>2. /\ \A i \in 1 .. Len(toServer[c]) :
             toServer[c][i].id \in Nat /\ toServer[c][i].id <= lastSentId[c]
        /\ lastSentId[c] \in Nat
        /\ serving.from = c => serving.id <= lastSentId[c]
        /\ serving.id \in Nat
        /\ lastRecvId[c] \in Nat
    BY <1>1, PacketParts DEF Core, QueueTypes
  <2>3. ASSUME NEW m \in Nat, m <= lastSentId[c]  PROVE ~Below(c, m)
    <3>1. lastRecvId[c] \in Heard(c) /\ ~(lastRecvId[c] < m)
      BY <2>1, <2>2, <2>3 DEF Heard
    <3> QED
      BY <3>1 DEF Below
  <2>4. OrderOf(c)
    BY <1>1 DEF Pursuit, Order
  <2>5. todo[c] = <<>>
    <3>1. ~Below(c, lastSentId[c])
      BY <2>2, <2>3
    <3> QED
      BY <2>4, <3>1 DEF OrderOf
  <2>6. \A i \in 1 .. Len(toServer[c]) : Silent(toServer[c][i].ops)
    BY <2>2, <2>3, <2>4 DEF OrderOf, Unanswered
  <2>7. serving.from = c => Silent(serving.ops)
    BY <2>2, <2>3, <2>4 DEF OrderOf, Unanswered
  <2>8. ~InTodo(c, p)
    BY <2>5, LeavesSays DEF InTodo
  <2>9. ~OnItsWay(c, p)
    BY <2>6, LeavesSays DEF OnItsWay, Carried
  <2>10. ~Served(c, p)
    BY <2>7, LeavesSays DEF Served
  <2> QED
    BY <1>1, <2>1, <2>8, <2>9, <2>10 DEF Pursuit, Pursued, Applied
<1>2. Core /\ Pursuit /\ [Next]_vars =>
        [\A c \in Clients :
           SyncReturn(c) => \A p \in Owned(c, Root) : value[p] = asked[p]]_vars
  BY <1>1
<1> QED
  BY <1>2, CoreAlways, PursuitInit, PursuitStep, PTL DEF Spec, SyncMeansApplied
================================================================================
