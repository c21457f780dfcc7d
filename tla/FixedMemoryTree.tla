--------------------------- MODULE FixedMemoryTree ---------------------------
(***************************************************************************)
(* The tree of published values kept in shared memory by the value space   *)
(* server (class FixedMemoryTree, sharedmemorylayer.cpp): nodes named by   *)
(* entries of a fixed version table, data and watches at each node, and    *)
(* the four operations the server runs on it under the write lock.         *)
(*                                                                         *)
(* A tree is a record, an operation maps a tree to the tree it leaves, the *)
(* entries whose version it bumped and the value it returned, so that      *)
(* other modules can run operations too.  What is abstracted: a path is a  *)
(* sequence of names; a value is the room it takes; siblings are a set; a  *)
(* node bumped twice by one operation is bumped once; a block has exactly  *)
(* the room it was allocated with, whatever the allocator rounds it to.    *)
(* Lists are sequences, their growing and shrinking is left out.           *)
(* Nobody sets a value at the root, or one longer than MAX_DATA_SIZE:      *)
(* insert() refuses both (525, 531).                                       *)
(*                                                                         *)
(* A definition that no other one uses is a slip: the definition after it  *)
(* as a wrong edit of the code would have it.  None is part of Next.       *)
(***************************************************************************)
EXTENDS Integers, Sequences, FiniteSets, SequencesExt

CONSTANTS
  Owners,     \* data owners: records [client, publisher]
  Publish,    \* pairs <<owner, path>>: who may publish where
  Watch,      \* pairs <<owner, path>>: who may watch where
  Values,     \* values, each named by its length in bytes
  TableSize   \* entries of the version table, the root's included

ASSUME TableAssumption == TableSize \in Nat \ {0}
ASSUME ValuesAssumption == Values \subseteq Nat \ {0}
ASSUME PathsAssumption ==
  \A x \in Publish \cup Watch : x = <<x[1], x[2]>> /\ x[2] \in Seq(STRING)

VARIABLE tree
-----------------------------------------------------------------------------
Entries == 0 .. TableSize - 1
Root == 0         \* ROOT_VERSION_ENTRY
Invalid == -1     \* INVALID_HANDLE
Everyone == "all" \* owner.data2 = 0xFFFFFFFF: any publisher of the client
Freed == [memory |-> "free entry"]  \* on the free list, nodePtr overwritten
Dangling == [memory |-> "freed"]    \* nodePtr still names a freed block
NoName == ""
Garbage == [client |-> "garbage", publisher |-> "garbage"]

Blank(name, parent, id) ==
  [name |-> name, parent |-> parent, creationId |-> id, sub |-> {},
   watches |-> <<>>, data |-> <<>>, room |-> 0]

\* The free list of a new tree: every entry but the root's.
RootListed == [i \in 1 .. TableSize |-> i % TableSize]
FreeEntries == [i \in 1 .. TableSize - 1 |-> i]

\* FixedMemoryTree(mem, size, true): the root, everything else on the list.
EmptyTree ==
  [node |-> [e \in Entries |-> IF e = Root THEN Blank(NoName, Invalid, 0) ELSE Freed],
   version |-> [e \in Entries |-> IF e = Root THEN 1 ELSE 0],
   free |-> FreeEntries,
   nextCreationId |-> 1]

Result(t, bumped, rv) == [tree |-> t, bumped |-> bumped, rv |-> rv]

\* bump(): the version moves; whoever remembers another one looks again.
Bumped(t, S) ==
  [t EXCEPT !.version = [e \in Entries |-> @[e] + IF e \in S THEN 1 ELSE 0]]

\* Node::valid(): something still needs the node.
Valid(n) == n.watches # <<>> \/ n.data # <<>> \/ n.sub # {}

Child(t, e, name) ==
  LET C == {c \in t.node[e].sub : t.node[c].name = name}
  IN IF C = {} THEN Invalid ELSE CHOOSE c \in C : TRUE

\* findRecur(): the entry reached after each name of a path, or Invalid.
Walk(t, path) ==
  LET w[i \in 0 .. Len(path)] ==
        IF i = 0 THEN Root
        ELSE LET parent == w[i - 1]
             IN IF parent = Invalid THEN Invalid ELSE Child(t, parent, path[i])
  IN w

Matched(t, path) ==
  CHOOSE i \in 0 .. Len(path) :
    /\ Walk(t, path)[i] # Invalid
    /\ i < Len(path) => Walk(t, path)[i + 1] = Invalid

\* findClosest(): the deepest existing node on the way to a path.
Closest(t, path) == Walk(t, path)[Matched(t, path)]

\* data(): the datum subscribers see, as a sequence of at most one.
Visible(t, e) == IF t.node[e].data = <<>> THEN <<>> ELSE <<t.node[e].data[1].value>>
-----------------------------------------------------------------------------
(* Insertion and watching.                                                 *)

\* Only the last node of a new chain gets the leaf's datum or watch.
LostLeaf(leaf, last) == Blank(NoName, Invalid, 0)
AsMade(leaf, last) == IF last THEN leaf ELSE Blank(NoName, Invalid, 0)

\* newNode() takes entries from the head of the free list.
NotTaken(free, c) == free
Taken(free, c) == SubSeq(free, c + 1, Len(free))

\* The creation id of the i-th node made by one operation.
SameId(t, i) == t.nextCreationId
NextId(t, i) == t.nextCreationId + i - 1

\* Every node already there on the way to a new one is bumped.
BumpedParent(w, m) == {w[m]}
BumpedWay(w, m) == {w[i] : i \in 0 .. m}

\* newNode() for every name of the path not there yet, as far as there are
\* free entries.
Grown(t, path, leaf) ==
  LET m == Matched(t, path)
      w == Walk(t, path)
      made == SubSeq(t.free, 1, Min({Len(path) - m, Len(t.free)}))
      c == Len(made)
      At(e) == CHOOSE i \in 1 .. c : made[i] = e
      New(i) ==
        [AsMade(leaf, m + i = Len(path)) EXCEPT
           !.name = path[m + i],
           !.parent = IF i = 1 THEN w[m] ELSE made[i - 1],
           !.creationId = NextId(t, i),
           !.sub = IF i < c THEN {made[i + 1]} ELSE {}]
      touched == IF c = 0 THEN {} ELSE BumpedWay(w, m)
  IN Result(
       [Bumped(t, touched) EXCEPT
          !.node = [e \in Entries |->
             IF e \in ToSet(made) THEN New(At(e))
             ELSE IF c > 0 /\ e = w[m]
               THEN [t.node[e] EXCEPT !.sub = @ \cup {made[1]}]
             ELSE t.node[e]],
          !.version = [e \in Entries |->
             IF e \in ToSet(made) THEN IF At(e) < c THEN 3 ELSE 2 ELSE @[e]],
          !.free = Taken(@, c),
          !.nextCreationId = @ + c],
       touched \cup ToSet(made), c > 0)

\* A node's watches lie behind its datum (watchBegin()).  When a datum comes
\* to a node that has none, or the last one goes, they are looked for where
\* the datum's owner is or was: one watch reads as that owner, a pointer to a
\* list of them as memory of something else.
Overlaid(watches, owner) ==
  IF Len(watches) <= 1 THEN [i \in DOMAIN watches |-> owner]
                       ELSE [i \in DOMAIN watches |-> Garbage]

\* setData(): the node afterwards, whether its own version moved, and the
\* return value.  A datum too big for an empty node's block goes into a new
\* block, but the datum count is set in the old one (1207-1225).  No node of an
\* instance has three watches: watchBlockSize() gives them no room (232), and a
\* new block would lose them.
SetData(n, owner, v) ==
  LET datum == [owner |-> owner, value |-> v]
      mine == {i \in DOMAIN n.data : n.data[i].owner = owner}
      first == CHOOSE i \in mine : \A j \in mine : i <= j
      R(x, moved, rv) == [node |-> x, moved |-> moved, rv |-> rv]
  IN IF n.data = <<>> \/ (Len(n.data) = 1 /\ mine # {})
       THEN R([n EXCEPT !.data = IF v <= n.room \/ @ # <<>> THEN <<datum>> ELSE @,
                        !.room = IF v <= @ THEN @ ELSE v,
                        !.watches = IF mine # {} THEN @ ELSE Overlaid(@, owner)],
              TRUE, TRUE)
     ELSE IF mine # {}
       THEN R([n EXCEPT !.data[first] = datum], FALSE, first = 1)
       ELSE R([n EXCEPT !.data = Append(@, datum)], FALSE, FALSE)

Insert(t, path, owner, v) ==
  LET w == Walk(t, path)
      e == w[Len(path)]
      s == SetData(t.node[e], owner, v)
      touched == (IF s.moved THEN {e} ELSE {})
                 \cup (IF s.rv THEN {w[i] : i \in 0 .. Len(path) - 1} ELSE {})
  IN IF e = Invalid
       THEN Grown(t, path, [Blank(NoName, Invalid, 0) EXCEPT
              !.data = <<[owner |-> owner, value |-> v]>>, !.room = v])
       ELSE Result([Bumped(t, touched) EXCEPT !.node[e] = s.node], touched, s.rv)

\* addWatch(): the node itself is not bumped, its ancestors are.  The first
\* watch takes a new block, or what room there was (1117-1127).
AddWatch(t, path, owner) ==
  LET w == Walk(t, path)
      e == w[Len(path)]
      n == t.node[e]
      touched == {w[i] : i \in 0 .. Len(path) - 1}
  IN IF e = Invalid
       THEN Grown(t, path, [Blank(NoName, Invalid, 0) EXCEPT !.watches = <<owner>>])
       ELSE Result([Bumped(t, touched) EXCEPT
                      !.node[e] =
                        [n EXCEPT !.watches = Append(@, owner),
                                  !.room = IF n.watches # <<>> THEN @
                                           ELSE IF Len(n.data) = 1 THEN n.data[1].value
                                           ELSE 0]],
                    touched, TRUE)
-----------------------------------------------------------------------------
(* Removal.                                                                *)

\* The entry and everything below it.
Under(t, e) ==
  LET r[i \in 0 .. TableSize] ==
        IF i = 0 THEN {e}
        ELSE LET above == r[i - 1] IN above \cup UNION {t.node[x].sub : x \in above}
  IN r[TableSize]

Reachable(t) == Under(t, Root)

\* On the way back from a removal at w[k], every node on the path that
\* nothing needs any more is cut from its parent; its block is freed, its
\* entry is not put on the free list.  `cut' says whether w[k] itself went.
Prune(t, w, k, cut) ==
  LET Needed(j) == \/ t.node[w[j]].data # <<>> \/ t.node[w[j]].watches # <<>>
                   \/ ~(t.node[w[j]].sub \subseteq {w[j + 1]})
      gone == {i \in 1 .. k : cut /\ \A j \in i .. k - 1 : ~Needed(j)}
  IN [t EXCEPT !.node = [e \in Entries |->
        IF \E i \in gone \ {k} : e = w[i] THEN Dangling
        ELSE IF \E i \in gone : e = w[i - 1]
          THEN [t.node[e] EXCEPT !.sub = @ \ {w[i] : i \in 1 .. k}]
        ELSE t.node[e]]]

\* remWatch() on one node's list: for two watches the index is assigned
\* where it should be compared, so the first one is always kept (1062); for
\* more the list is shifted but not shortened (1071-1092).
WithoutWatch(watches, owner) ==
  LET i == CHOOSE j \in DOMAIN watches :
             watches[j] = owner /\ \A l \in 1 .. j - 1 : watches[l] # owner
      n == Len(watches)
  IN CASE n = 1 -> <<>>
       [] n = 2 -> <<watches[1]>>
       [] OTHER -> [j \in 1 .. n |-> IF j < i \/ j = n THEN watches[j]
                                                     ELSE watches[j + 1]]

\* The watch's node is cut when nothing else needs it: its block is not
\* freed, so whoever still points there finds it as it was.
RemWatch(t, path, owner) ==
  LET w == Walk(t, path)
      k == Len(path)
      e == w[k]
      n == [t.node[e] EXCEPT !.watches = WithoutWatch(@, owner)]
      t1 == [t EXCEPT !.node[e] = n]
      cut == ~Valid(n)
      touched == IF cut THEN {w[i] : i \in 0 .. k - 1} ELSE {w[k - 1]}
  IN IF e = Invalid \/ owner \notin ToSet(t.node[e].watches)
       THEN Result(t, {}, FALSE)
     ELSE IF k = 0 THEN Result(t1, {}, TRUE)
     ELSE Result(Bumped(Prune(t1, w, k, cut), touched), touched, cut)

\* Those of a list that are in a set, in their order.
Picked(list, S) ==
  LET picked[i \in 0 .. Len(list)] ==
        IF i = 0 THEN <<>>
        ELSE picked[i - 1] \o IF list[i] \in S THEN <<list[i]>> ELSE <<>>
  IN picked[Len(list)]

\* Whose a datum is, for a removal: a single datum is compared by client
\* only; Everyone stands for every publisher of the client.
TakenFrom(d, owner, single) ==
  d.owner = owner \/ owner.publisher = Everyone \/ single
OwnedBy(d, owner, single) ==
  \/ d.owner = owner
  \/ d.owner.client = owner.client /\ (single \/ owner.publisher = Everyone)

\* What removeRecur() leaves of one node's own data and watches.  Comparing a
\* single datum overwrites the publisher the watches are then compared with
\* (748).
Stripped(n, owner) ==
  LET single == Len(n.data) = 1
      clobbered == single /\ n.data[1].owner # owner
      left == Picked(n.data, {d \in ToSet(n.data) : ~OwnedBy(d, owner, single)})
      collapsed == Len(left) = 1 /\ Len(n.data) > 1
      n1 == IF left = n.data THEN n
            ELSE IF collapsed
              THEN SetData([n EXCEPT !.data = <<>>], left[1].owner, left[1].value).node
            ELSE [n EXCEPT !.data = left,
                           !.watches = IF left # <<>> THEN @
                                       ELSE Overlaid(@, IF single THEN n.data[1].owner
                                                                  ELSE Garbage)]
      unwatched(x) == /\ x.client = owner.client
                      /\ ~clobbered
                      /\ owner.publisher \in {Everyone, x.publisher}
  IN [node |-> [n1 EXCEPT !.watches = Picked(@, {x \in ToSet(@) : ~unwatched(x)})],
      moved |-> collapsed]

\* Freed entries go to the head of the list, so the last is first: a parent is
\* ahead of its children.
HandedBack(t, R) ==
  LET size == [x \in R |-> Cardinality(Under(t, x))]
      Ahead(x, y) == size[x] > size[y] \/ (size[x] = size[y] /\ x < y)
  IN [i \in 1 .. Cardinality(R) |->
        CHOOSE x \in R : Cardinality({y \in R : Ahead(y, x)}) = i - 1]

\* removeRecur(node, owner): strip the subtree, free what nothing needs.
RemoveUnder(t, e, owner) ==
  LET S == Under(t, e)
      s == [x \in S |-> Stripped(t.node[x], owner)]
      Bare(x) == \E n \in {s[x].node} : n.data = <<>> /\ n.watches = <<>>
      R == {x \in S \ {Root} : \A y \in Under(t, x) : Bare(y)}
      touched == {x \in S : s[x].moved \/ Under(t, x) \cap R # {}}
  IN [tree |-> [Bumped(t, touched) EXCEPT
                  !.node = [x \in Entries |->
                     IF x \in R THEN Freed
                     ELSE IF x \in S THEN [s[x].node EXCEPT !.sub = @ \ R]
                     ELSE @[x]],
                  !.free = HandedBack(t, R) \o @],
      bumped |-> touched, removed |-> R]

\* remove(): true when some node went.
RemoveItems(t, path, owner) ==
  LET w == Walk(t, path)
      k == Len(path)
      r == RemoveUnder(t, w[k], owner)
      touched == IF r.removed = {} THEN {} ELSE {w[i] : i \in 0 .. k - 1}
  IN IF w[k] = Invalid THEN Result(t, {}, FALSE)
     ELSE Result(Bumped(IF k = 0 THEN r.tree
                                 ELSE Prune(r.tree, w, k, w[k] \in r.removed),
                        touched),
                 r.bumped \cup touched, r.removed # {})
-----------------------------------------------------------------------------
(* The operations the server runs for itself and for its clients.          *)

Init == tree = EmptyTree

\* doSetItem(): a publisher sets a value.
SetItem(o, p, v) == <<o, p>> \in Publish /\ tree' = Insert(tree, p, o, v).tree

\* doRemItems(): a publisher removes a value or all it has under a path.
RemItems(o, p) ==
  /\ <<o, p>> \in Publish \cup Watch
  /\ tree' = RemoveItems(tree, p, o).tree

\* doSetWatch(): a publisher registers for interest in its path, once.
SetWatch(o, p) ==
  LET e == Walk(tree, p)[Len(p)]
  IN /\ <<o, p>> \in Watch
     /\ e # Invalid => o \notin ToSet(tree.node[e].watches)
     /\ tree' = AddWatch(tree, p, o).tree

DropWatch(o, p) == <<o, p>> \in Watch /\ tree' = RemWatch(tree, p, o).tree

\* disconnected(): everything of a client that went away.
Disconnect(c) ==
  tree' = RemoveItems(tree, <<>>, [client |-> c, publisher |-> Everyone]).tree

Next ==
  \/ \E x \in Publish, v \in Values : SetItem(x[1], x[2], v)
  \/ \E x \in Publish \cup Watch : RemItems(x[1], x[2])
  \/ \E x \in Watch : SetWatch(x[1], x[2]) \/ DropWatch(x[1], x[2])
  \/ \E o \in Owners : Disconnect(o.client)

Spec == Init /\ [][Next]_tree

\* Versions and creation ids only ever grow; states that differ in nothing
\* else behave alike.
Shape == <<[e \in Entries |-> IF e \in Reachable(tree)
              THEN [tree.node[e] EXCEPT !.creationId = 0] ELSE Freed], tree.free>>
-----------------------------------------------------------------------------
Live(t, e) == t.node[e] \notin {Freed, Dangling}

\* The version table and the nodes have their shape.
TypeOK ==
  /\ tree.free \in Seq(Entries \ {Root})
  /\ tree.version \in [Entries -> Nat]
  /\ \A e \in Reachable(tree) : Live(tree, e) => tree.node[e].sub \subseteq Entries

\* No entry is in the tree and on the free list, none is on the list twice,
\* and following sub nodes never leads to a block that was freed: a node
\* handed out again is nobody's node (newNode(), 875-883, 971-974, 1029-1032).
FreeListSound ==
  /\ IsInjective(tree.free)
  /\ \A e \in Reachable(tree) : Live(tree, e) /\ e \notin ToSet(tree.free)

\* Every node is under the parent it names, siblings have different names,
\* and no two nodes share a creation id.
LinksConsistent ==
  /\ \A e \in Reachable(tree) : \A c \in tree.node[e].sub :
       /\ tree.node[c].parent = e
       /\ \A d \in tree.node[e].sub : tree.node[d].name = tree.node[c].name => d = c
  /\ \A d, e \in Reachable(tree) :
       tree.node[d].creationId = tree.node[e].creationId => d = e

\* The names of the paths below an entry.
Names(t, e) == {<<t.node[x].parent, t.node[x].name>> : x \in Under(t, e) \ {e}}
SameNode(e) ==
  /\ e \in Reachable(tree) /\ e \in Reachable(tree)'
  /\ tree.node[e].creationId = tree'.node[e].creationId

\* Whoever remembers a node's version can tell that a path below the node has
\* appeared or gone: subscribers waiting at the closest node rely on it.
GrowthIsVisible ==
  [][\A e \in Entries :
       SameNode(e) /\ Names(tree, e) # Names(tree, e)' =>
         tree.version[e] < tree'.version[e]]_tree

PublishedAt(t, o, p) ==
  LET e == Walk(t, p)[Len(p)]
      D == IF e = Invalid THEN {} ELSE ToSet(t.node[e].data)
  IN {d.value : d \in {x \in D : x.owner = o}}

\* Whoever remembers a node's version can tell that the value seen there has
\* changed ("Returns true if the version number of node has increased to
\* handle this set", sharedmemorylayer.cpp:1158).
ChangeIsVisible ==
  [][\A e \in Entries :
       SameNode(e) /\ Visible(tree, e) # Visible(tree, e)' =>
         tree.version[e] < tree'.version[e]]_tree

\* A value set where there is a free entry for every new node is there
\* afterwards ("Inserts data ... at path", sharedmemorylayer.cpp:518).
SetIsStored ==
  [][\A x \in Publish, v \in Values :
       /\ SetItem(x[1], x[2], v)
       /\ Len(tree.free) >= Len(x[2]) - Matched(tree, x[2])
       => PublishedAt(tree', x[1], x[2]) = {v}]_tree

\* Each owner's value at each path it publishes, 0 where it has none.
Published ==
  [x \in Publish |-> LET V == PublishedAt(tree, x[1], x[2])
                     IN IF V = {} THEN 0 ELSE CHOOSE v \in V : TRUE]

Promise == INSTANCE PublishedValues WITH value <- Published

\* Seen through the paths the owners publish, every operation on the tree is
\* the owner's own setting or taking back, or a client's leaving: none moves,
\* loses or keeps what another owner published.
ImplementsPublishedValues == Promise!Spec
=============================================================================
