---------------------- MODULE InterestNotificationProofs -----------------------
(***************************************************************************)
(* Interest is counted right: for any number of processes, publishers,     *)
(* subscribers and paths, and whatever requests are on their way, clients  *)
(* die or are disconnected (sharedmemorylayer.cpp, doNotify() and          *)
(* disconnected()).                                                        *)
(*                                                                         *)
(* The sum of InterestCounted is not inductive: it allows a disinterest to *)
(* be served before the interest it ends, and then the count would wrap    *)
(* below zero.  So the proof says which subscribers are counted: those     *)
(* whose interest is no longer on its way and whose disinterest is still   *)
(* to be made or served; a count is their number.                          *)
(*                                                                         *)
(* The second half proves the types and that publishers are told the       *)
(* truth.  The tree is that of FixedMemoryTree, and what                   *)
(* FixedMemoryTreeProofs proves of its operations is used here for the     *)
(* tree the server keeps.  A publisher knows what it was told last, or     *)
(* will once it has heard the notices on their way; that this agrees with  *)
(* the counts (Known) holds while its watch is in the tree, which needs    *)
(* room for it.  What the program does not provide for is a hypothesis of  *)
(* the theorem, and without any one of them it is false: OneProcess,       *)
(* Apart, NotValues and Enough.                                            *)
(***************************************************************************)
EXTENDS InterestNotification, FiniteSetTheorems, SequenceTheorems, TLAPS

\* The requests of a subscriber.
Notifies == {"interest", "disinterest"}
Kinds == {"watch", "unwatch", "set", "remove"} \cup Notifies
\* All requests.
Requests == [kind : Kinds, owner : Owners \cup Subscribers,
             path : InterestPaths \cup {PathOf[o] : o \in Owners} \cup {Attribute(o) : o \in Owners}]

\* How far a subscriber may have got.
States == {"new", "interested", "destroyed"}

\* Types of the variables the counts depend on; the tree is not among them.
Types ==
  /\ toServer \in [Clients -> Seq(Requests)]
  /\ pathsOfInterest \in [InterestPaths -> [Procs -> Nat]]
  /\ connections \subseteq Clients
  /\ subscribers \in [Subscribers -> States]

\* A request of kind k of subscriber x is in the queue q.
Pending(q, k, x) == \E i \in 1 .. Len(q) : q[i].kind = k /\ q[i].owner = x

\* What the queue q of a client c holds when its subscribers have got as far as subs:
\* requests of c's own subscribers, at their paths, made by subscribers that have
\* got so far;
Own(q, c, subs) ==
  \A i \in 1 .. Len(q) : q[i].kind \in Notifies =>
    /\ q[i].owner \in Subscribers
    /\ q[i].owner.client = c /\ q[i].path = q[i].owner.path
    /\ subs[q[i].owner] \in (IF q[i].kind = "interest" THEN {"interested", "destroyed"}
                             ELSE {"destroyed"})
\* each request once;
Once(q) ==
  \A i, j \in 1 .. Len(q) :
    q[i].kind \in Notifies /\ q[i].kind = q[j].kind /\ q[i].owner = q[j].owner => i = j
\* the interest of a subscriber before its disinterest;
InOrder(q) ==
  \A i, j \in 1 .. Len(q) :
    q[i].kind = "interest" /\ q[j].kind = "disinterest" /\ q[i].owner = q[j].owner => i < j
\* and the disinterest of one that is destroyed, if its interest is still there.
Followed(q, c, subs) ==
  \A x \in Subscribers :
    x.client = c /\ subs[x] = "destroyed" /\ Pending(q, "interest", x)
      => Pending(q, "disinterest", x)
Proper(q, c, subs) == Own(q, c, subs) /\ Once(q) /\ InOrder(q) /\ Followed(q, c, subs)

\* Every queue is like that.
Queues == \A c \in Clients : Proper(toServer[c], c, subscribers)

\* The server has heard of x's interest and not of its end: what one count counts.
Counted(q, subs, x) ==
  /\ subs[x] # "new" /\ ~Pending(q, "interest", x)
  /\ subs[x] = "interested" \/ Pending(q, "disinterest", x)
\* The subscribers of client c at path p that are counted.
Tally(q, subs, p, c) ==
  {x \in Subscribers : x.client = c /\ x.path = p /\ Counted(q, subs, x)}
\* The server's own requests do not wait.
Queue(c) == IF c = Server THEN <<>> ELSE toServer[c]
\* Every count is the number of subscribers counted, and none is left of a client
\* whose disconnection has been seen.
Counts ==
  \A p \in InterestPaths, c \in Procs :
    pathsOfInterest[p][c] =
      IF c \in Clients \ connections THEN 0
      ELSE Cardinality(Tally(Queue(c), subscribers, p, c))


\* A request that is sent is pending (sendMessage()).
LEMMA PendingAppend ==
  ASSUME NEW q \in Seq(Requests), NEW r \in Requests, NEW k, NEW x
  PROVE  Pending(Append(q, r), k, x) <=> Pending(q, k, x) \/ (r.kind = k /\ r.owner = x)
<1> DEFINE a == Append(q, r)
           n == Len(q)
<1>1. n \in Nat /\ Len(a) = n + 1 /\ a[n + 1] = r /\ \A i \in 1 .. n : a[i] = q[i]
  BY AppendProperties
<1>2. Pending(a, k, x) <=> \E i \in 1 .. Len(a) : a[i].kind = k /\ a[i].owner = x
  BY DEF Pending
<1>3. Pending(q, k, x) <=> \E i \in 1 .. n : q[i].kind = k /\ q[i].owner = x
  BY DEF Pending
<1> HIDE DEF a, n
<1>4. ASSUME NEW i \in 1 .. Len(a), a[i].kind = k /\ a[i].owner = x
      PROVE  Pending(q, k, x) \/ (r.kind = k /\ r.owner = x)
  <2>1. i \in 1 .. n \/ i = n + 1
    BY <1>1
  <2> QED
    BY <1>1, <1>3, <1>4, <2>1
<1>5. ASSUME NEW i \in 1 .. n, q[i].kind = k /\ q[i].owner = x
      PROVE  Pending(a, k, x)
  <2>1. i \in 1 .. Len(a)
    BY <1>1
  <2> QED
    BY <1>1, <1>2, <1>5, <2>1
<1>6. ASSUME r.kind = k /\ r.owner = x
      PROVE  Pending(a, k, x)
  <2>1. n + 1 \in 1 .. Len(a)
    BY <1>1
  <2> QED
    BY <1>1, <1>2, <1>6, <2>1
<1>7. Pending(a, k, x) => Pending(q, k, x) \/ (r.kind = k /\ r.owner = x)
  BY <1>2, <1>4
<1>8. Pending(q, k, x) => Pending(a, k, x)
  BY <1>3, <1>5
<1> QED
  BY <1>6, <1>7, <1>8 DEF a

\* A request that is served is not pending any more, as it was there once.
LEMMA PendingOnce ==
  ASSUME NEW q \in Seq(Requests), q # <<>>, NEW k, NEW x,
         \A i, j \in 1 .. Len(q) :
           q[i].kind = k /\ q[j].kind = k /\ q[i].owner = q[j].owner => i = j
  PROVE  Pending(Tail(q), k, x) <=> Pending(q, k, x) /\ ~(Head(q).kind = k /\ Head(q).owner = x)
<1> DEFINE t == Tail(q)
           n == Len(q)
<1>1. /\ n \in Nat /\ n > 0 /\ Len(t) = n - 1 /\ q[1] = Head(q)
      /\ \A i \in 1 .. Len(t) : t[i] = q[i + 1]
  <2>1. Len(q) \in Nat /\ Len(q) > 0
    BY EmptySeq, LenProperties
  <2>2. q[1] = Head(q)
    OBVIOUS
  <2> QED
    BY <2>1, <2>2, HeadTailProperties
<1>2. Pending(t, k, x) <=> \E i \in 1 .. Len(t) : t[i].kind = k /\ t[i].owner = x
  BY DEF Pending
<1>3. Pending(q, k, x) <=> \E i \in 1 .. n : q[i].kind = k /\ q[i].owner = x
  BY DEF Pending
<1>4. \A i, j \in 1 .. n : q[i].kind = k /\ q[j].kind = k /\ q[i].owner = q[j].owner => i = j
  OBVIOUS
<1> HIDE DEF t, n
<1>5. ASSUME NEW i \in 1 .. Len(t), t[i].kind = k /\ t[i].owner = x
      PROVE  Pending(q, k, x) /\ ~(Head(q).kind = k /\ Head(q).owner = x)
  <2>1. i + 1 \in 1 .. n /\ 1 \in 1 .. n /\ i + 1 # 1
    BY <1>1
  <2>2. q[i + 1].kind = k /\ q[i + 1].owner = x
    BY <1>1, <1>5
  <2> QED
    BY <1>1, <1>3, <1>4, <2>1, <2>2
<1>6. ASSUME NEW i \in 1 .. n, q[i].kind = k /\ q[i].owner = x,
             ~(Head(q).kind = k /\ Head(q).owner = x)
      PROVE  Pending(t, k, x)
  <2>1. i # 1
    BY <1>1, <1>6
  <2>2. i - 1 \in 1 .. Len(t) /\ (i - 1) + 1 = i
    BY <1>1, <2>1
  <2>3. t[i - 1] = q[i]
    BY <1>1, <2>2
  <2> QED
    BY <1>2, <1>6, <2>2, <2>3
<1>7. Pending(t, k, x) => Pending(q, k, x) /\ ~(Head(q).kind = k /\ Head(q).owner = x)
  BY <1>2, <1>5
<1>8. Pending(q, k, x) /\ ~(Head(q).kind = k /\ Head(q).owner = x) => Pending(t, k, x)
  BY <1>3, <1>6
<1> QED
  BY <1>7, <1>8 DEF t

\* The requests of a subscriber are there once.
LEMMA PendingTail ==
  ASSUME NEW q \in Seq(Requests), q # <<>>, Once(q), NEW k \in Notifies, NEW x
  PROVE  Pending(Tail(q), k, x) <=> Pending(q, k, x) /\ ~(Head(q).kind = k /\ Head(q).owner = x)
<1>1. \A i, j \in 1 .. Len(q) :
        q[i].kind = k /\ q[j].kind = k /\ q[i].owner = q[j].owner => i = j
  BY DEF Once
<1> QED
  BY <1>1, PendingOnce

\* Serving a request leaves a queue in order.
LEMMA ProperTail ==
  ASSUME NEW q \in Seq(Requests), q # <<>>, NEW c, NEW subs, Proper(q, c, subs)
  PROVE  Proper(Tail(q), c, subs)
<1> DEFINE t == Tail(q)
           n == Len(q)
<1>1. /\ n \in Nat /\ n > 0 /\ Len(t) = n - 1 /\ q[1] = Head(q)
      /\ \A i \in 1 .. Len(t) : t[i] = q[i + 1]
  <2>1. Len(q) \in Nat /\ Len(q) > 0
    BY EmptySeq, LenProperties
  <2>2. q[1] = Head(q)
    OBVIOUS
  <2> QED
    BY <2>1, <2>2, HeadTailProperties
<1>2. Own(q, c, subs) /\ Once(q) /\ InOrder(q) /\ Followed(q, c, subs)
  BY DEF Proper
<1>3. \A x : \A k \in Notifies :
        Pending(t, k, x) <=> Pending(q, k, x) /\ ~(Head(q).kind = k /\ Head(q).owner = x)
  BY <1>2, PendingTail
<1> HIDE DEF t
<1>4. \A i \in 1 .. Len(t) : i + 1 \in 1 .. Len(q) /\ t[i] = q[i + 1]
  BY <1>1
<1>5. Own(t, c, subs)
  BY <1>2, <1>4 DEF Own
<1>6. Once(t)
  <2> SUFFICES ASSUME NEW i \in 1 .. Len(t), NEW j \in 1 .. Len(t),
                      t[i].kind \in Notifies, t[i].kind = t[j].kind, t[i].owner = t[j].owner
               PROVE  i = j
    BY DEF Once
  <2>1. i + 1 = j + 1
    BY <1>2, <1>4 DEF Once
  <2>2. i \in Int /\ j \in Int
    BY <1>1
  <2> QED
    BY <2>1, <2>2
<1>7. InOrder(t)
  <2> SUFFICES ASSUME NEW i \in 1 .. Len(t), NEW j \in 1 .. Len(t),
                      t[i].kind = "interest", t[j].kind = "disinterest", t[i].owner = t[j].owner
               PROVE  i < j
    BY DEF InOrder
  <2>1. i + 1 < j + 1
    BY <1>2, <1>4 DEF InOrder
  <2>2. i \in Int /\ j \in Int
    BY <1>1
  <2> QED
    BY <2>1, <2>2
<1>8. Followed(t, c, subs)
  <2> SUFFICES ASSUME NEW x \in Subscribers, x.client = c, subs[x] = "destroyed",
                      Pending(t, "interest", x)
               PROVE  Pending(t, "disinterest", x)
    BY DEF Followed
  <2>1. Pending(q, "interest", x) /\ Pending(q, "disinterest", x)
    BY <1>2, <1>3 DEF Followed, Notifies
  <2>2. ASSUME Head(q).kind = "disinterest", Head(q).owner = x  PROVE FALSE
    <3>1. PICK i \in 1 .. Len(q) : q[i].kind = "interest" /\ q[i].owner = x
      BY <2>1 DEF Pending
    <3>2. i < 1
      BY <1>1, <1>2, <2>2, <3>1 DEF InOrder
    <3> QED
      BY <3>2, <1>1
  <2> QED
    BY <1>3, <2>1, <2>2 DEF Notifies
<1> QED
  BY <1>5, <1>6, <1>7, <1>8 DEF Proper, t

\* So does sending one that is not there yet and is not overtaken.
LEMMA ProperAppend ==
  ASSUME NEW q \in Seq(Requests), NEW r \in Requests, NEW c, NEW subs,
         Own(q, c, subs), Once(q), InOrder(q), Followed(Append(q, r), c, subs),
         r.kind \in Notifies =>
           /\ r.owner \in Subscribers /\ r.owner.client = c /\ r.path = r.owner.path
           /\ subs[r.owner] \in (IF r.kind = "interest" THEN {"interested", "destroyed"}
                                 ELSE {"destroyed"})
           /\ ~Pending(q, r.kind, r.owner),
         r.kind = "interest" => ~Pending(q, "disinterest", r.owner)
  PROVE  Proper(Append(q, r), c, subs)
<1> DEFINE a == Append(q, r)
           n == Len(q)
<1>1. n \in Nat /\ Len(a) = n + 1 /\ a[n + 1] = r /\ \A i \in 1 .. n : a[i] = q[i]
  BY AppendProperties
<1> HIDE DEF a
<1>2. ASSUME NEW i \in 1 .. Len(a)
      PROVE  \/ i \in 1 .. Len(q) /\ a[i] = q[i]
             \/ i = n + 1 /\ a[i] = r
  BY <1>1
<1>3. Own(a, c, subs)
  <2> SUFFICES ASSUME NEW i \in 1 .. Len(a), a[i].kind \in Notifies
               PROVE  /\ a[i].owner \in Subscribers
                      /\ a[i].owner.client = c /\ a[i].path = a[i].owner.path
                      /\ subs[a[i].owner] \in (IF a[i].kind = "interest" THEN {"interested", "destroyed"}
                                               ELSE {"destroyed"})
    BY DEF Own
  <2> QED
    BY <1>2 DEF Own
<1>4. Once(a)
  <2> SUFFICES ASSUME NEW i \in 1 .. Len(a), NEW j \in 1 .. Len(a),
                      a[i].kind \in Notifies, a[i].kind = a[j].kind, a[i].owner = a[j].owner
               PROVE  i = j
    BY DEF Once
  <2>1. CASE i \in 1 .. Len(q) /\ a[i] = q[i] /\ j \in 1 .. Len(q) /\ a[j] = q[j]
    BY <2>1 DEF Once
  <2>2. CASE i \in 1 .. Len(q) /\ a[i] = q[i] /\ j = n + 1 /\ a[j] = r
    BY <2>2 DEF Pending
  <2>3. CASE i = n + 1 /\ a[i] = r /\ j \in 1 .. Len(q) /\ a[j] = q[j]
    BY <2>3 DEF Pending
  <2>4. CASE i = n + 1 /\ j = n + 1
    BY <2>4
  <2> QED
    BY <1>2, <2>1, <2>2, <2>3, <2>4
<1>5. InOrder(a)
  <2> SUFFICES ASSUME NEW i \in 1 .. Len(a), NEW j \in 1 .. Len(a),
                      a[i].kind = "interest", a[j].kind = "disinterest", a[i].owner = a[j].owner
               PROVE  i < j
    BY DEF InOrder
  <2>1. CASE i \in 1 .. Len(q) /\ a[i] = q[i] /\ j \in 1 .. Len(q) /\ a[j] = q[j]
    BY <2>1 DEF InOrder
  <2>2. CASE i \in 1 .. Len(q) /\ a[i] = q[i] /\ j = n + 1 /\ a[j] = r
    BY <1>1, <2>2
  <2>3. CASE i = n + 1 /\ a[i] = r /\ j \in 1 .. Len(q) /\ a[j] = q[j]
    BY <2>3 DEF Pending
  <2>4. CASE i = n + 1 /\ j = n + 1
    BY <2>4
  <2> QED
    BY <1>2, <2>1, <2>2, <2>3, <2>4
<1> QED
  BY <1>3, <1>4, <1>5 DEF Proper, a

\* A publisher's request changes nothing about interest.
LEMMA OtherAppended ==
  ASSUME NEW q \in Seq(Requests), NEW r \in Requests, r.kind \notin Notifies,
         NEW c, NEW subs, Proper(q, c, subs)
  PROVE  /\ Proper(Append(q, r), c, subs)
         /\ \A p, d : Tally(Append(q, r), subs, p, d) = Tally(q, subs, p, d)
<1>1. \A k \in Notifies : \A x : Pending(Append(q, r), k, x) <=> Pending(q, k, x)
  BY PendingAppend
<1>2. Followed(Append(q, r), c, subs)
  BY <1>1 DEF Proper, Followed, Notifies
<1>3. Proper(Append(q, r), c, subs)
  BY <1>2, ProperAppend DEF Proper, Notifies
<1>4. \A p, d : Tally(Append(q, r), subs, p, d) = Tally(q, subs, p, d)
  BY <1>1 DEF Tally, Counted, Notifies
<1> QED
  BY <1>3, <1>4

\* The interest of a new subscriber waits in order, and nobody is counted by it.
LEMMA InterestAppended ==
  ASSUME NEW q \in Seq(Requests), NEW x \in Subscribers,
         NEW subs \in [Subscribers -> States], subs[x] = "new", Proper(q, x.client, subs),
         NEW new, new[x] = "interested", \A y \in Subscribers \ {x} : new[y] = subs[y]
  PROVE  /\ Proper(Append(q, Asks("interest", x, x.path)), x.client, new)
         /\ \A y \in Subscribers :
              Counted(Append(q, Asks("interest", x, x.path)), new, y) <=> Counted(q, subs, y)
<1> DEFINE r == Asks("interest", x, x.path)
           c == x.client
<1>1. r \in Requests /\ r.kind = "interest" /\ r.owner = x /\ r.path = x.path
  BY DEF Asks, Requests, Kinds, Notifies, InterestPaths
<1>2. Own(q, c, subs) /\ Once(q) /\ InOrder(q) /\ Followed(q, c, subs)
  BY DEF Proper
<1>3. \A k \in Notifies : ~Pending(q, k, x)
  BY <1>2 DEF Own, Pending, Notifies
<1>4. new[x] = "interested" /\ \A y \in Subscribers : y # x => new[y] = subs[y]
  OBVIOUS
<1> HIDE DEF r
<1>5. Own(q, c, new)
  BY <1>2, <1>4 DEF Own, Notifies
<1>6. \A k \in Notifies : \A y :
        Pending(Append(q, r), k, y) <=> Pending(q, k, y) \/ (k = "interest" /\ y = x)
  BY <1>1, PendingAppend
<1>7. Followed(Append(q, r), c, new)
  BY <1>2, <1>4, <1>6 DEF Followed, Notifies
<1>8. Proper(Append(q, r), c, new)
  BY <1>1, <1>2, <1>3, <1>4, <1>5, <1>7, ProperAppend DEF Notifies
<1>9. ASSUME NEW y \in Subscribers
      PROVE  Counted(Append(q, r), new, y) <=> Counted(q, subs, y)
  <2>1. CASE y = x
    BY <1>1, <1>6, <2>1 DEF Counted, Notifies
  <2>2. CASE y # x
    BY <1>4, <1>6, <2>2 DEF Counted, Notifies
  <2> QED
    BY <2>1, <2>2
<1> QED
  BY <1>8, <1>9 DEF r

\* Nor is anybody by a disinterest that waits.
LEMMA DisinterestAppended ==
  ASSUME NEW q \in Seq(Requests), NEW x \in Subscribers,
         NEW subs \in [Subscribers -> States], subs[x] = "interested", Proper(q, x.client, subs),
         NEW new, new[x] = "destroyed", \A y \in Subscribers \ {x} : new[y] = subs[y]
  PROVE  /\ Proper(Append(q, Asks("disinterest", x, x.path)), x.client, new)
         /\ \A y \in Subscribers :
              Counted(Append(q, Asks("disinterest", x, x.path)), new, y) <=> Counted(q, subs, y)
<1> DEFINE r == Asks("disinterest", x, x.path)
           c == x.client
<1>1. r \in Requests /\ r.kind = "disinterest" /\ r.owner = x /\ r.path = x.path
  BY DEF Asks, Requests, Kinds, Notifies, InterestPaths
<1>2. Own(q, c, subs) /\ Once(q) /\ InOrder(q) /\ Followed(q, c, subs)
  BY DEF Proper
<1>3. ~Pending(q, "disinterest", x)
  BY <1>2 DEF Own, Pending, Notifies
<1>4. new[x] = "destroyed" /\ \A y \in Subscribers : y # x => new[y] = subs[y]
  OBVIOUS
<1> HIDE DEF r
<1>5. Own(q, c, new)
  BY <1>2, <1>4 DEF Own, Notifies
<1>6. \A k \in Notifies : \A y :
        Pending(Append(q, r), k, y) <=> Pending(q, k, y) \/ (k = "disinterest" /\ y = x)
  BY <1>1, PendingAppend
<1>7. Followed(Append(q, r), c, new)
  BY <1>2, <1>4, <1>6 DEF Followed, Notifies
<1>8. Proper(Append(q, r), c, new)
  BY <1>1, <1>2, <1>3, <1>4, <1>5, <1>7, ProperAppend DEF Notifies
<1>9. ASSUME NEW y \in Subscribers
      PROVE  Counted(Append(q, r), new, y) <=> Counted(q, subs, y)
  <2>1. CASE y = x
    BY <1>3, <1>4, <1>6, <2>1 DEF Counted, Notifies
  <2>2. CASE y # x
    BY <1>4, <1>6, <2>2 DEF Counted, Notifies
  <2> QED
    BY <2>1, <2>2
<1> QED
  BY <1>8, <1>9 DEF r

\* A subscriber of another process does not matter to a queue.
LEMMA ElsewhereChanged ==
  ASSUME NEW q, NEW c, NEW x \in Subscribers, x.client # c,
         NEW subs, NEW new, \A y \in Subscribers \ {x} : new[y] = subs[y], NEW p
  PROVE  /\ Proper(q, c, subs) => Proper(q, c, new)
         /\ Tally(q, new, p, c) = Tally(q, subs, p, c)
<1>1. \A y \in Subscribers : y.client = c => new[y] = subs[y]
  OBVIOUS
<1>2. Own(q, c, subs) => Own(q, c, new)
  BY <1>1 DEF Own
<1>3. Followed(q, c, subs) => Followed(q, c, new)
  BY <1>1 DEF Followed
<1>4. Tally(q, new, p, c) = Tally(q, subs, p, c)
  BY <1>1 DEF Tally, Counted
<1> QED
  BY <1>2, <1>3, <1>4 DEF Proper

\* The request to be served next is of a subscriber that may have made it.
LEMMA HeadAbout ==
  ASSUME NEW q \in Seq(Requests), q # <<>>, NEW c, NEW subs, Proper(q, c, subs),
         Head(q).kind \in Notifies
  PROVE  /\ Head(q).owner \in Subscribers
         /\ Head(q).owner.client = c /\ Head(q).path = Head(q).owner.path
         /\ subs[Head(q).owner] \in {"interested", "destroyed"}
         /\ Head(q).kind = "disinterest" =>
              subs[Head(q).owner] = "destroyed" /\ ~Pending(q, "interest", Head(q).owner)
         /\ Pending(q, Head(q).kind, Head(q).owner)
<1>1. Len(q) \in Nat /\ Len(q) > 0
  BY EmptySeq, LenProperties
<1>2. q[1] = Head(q) /\ 1 \in 1 .. Len(q)
  BY <1>1
<1>3. /\ q[1].owner \in Subscribers
      /\ q[1].owner.client = c /\ q[1].path = q[1].owner.path
      /\ subs[q[1].owner] \in (IF q[1].kind = "interest" THEN {"interested", "destroyed"}
                               ELSE {"destroyed"})
  BY <1>2 DEF Proper, Own
<1>4. Pending(q, q[1].kind, q[1].owner)
  BY <1>2 DEF Pending
<1>5. ASSUME q[1].kind = "disinterest", Pending(q, "interest", q[1].owner)
      PROVE  FALSE
  <2>1. PICK i \in 1 .. Len(q) : q[i].kind = "interest" /\ q[i].owner = q[1].owner
    BY <1>5 DEF Pending
  <2>2. i < 1
    BY <1>2, <1>5, <2>1 DEF Proper, InOrder
  <2> QED
    BY <1>1, <2>2
<1>6. q[1].kind = "disinterest" => q[1].kind # "interest"
  OBVIOUS
<1>7. q[1].kind = "disinterest" => subs[q[1].owner] = "destroyed"
  BY <1>3, <1>6
<1>8. subs[q[1].owner] \in {"interested", "destroyed"}
  BY <1>3
<1> QED
  BY <1>2, <1>3, <1>4, <1>5, <1>7, <1>8

\* Serving an interest counts the subscriber, which was not counted.
LEMMA InterestServed ==
  ASSUME NEW q \in Seq(Requests), q # <<>>, NEW c, NEW subs, Proper(q, c, subs),
         Head(q).kind = "interest", NEW p
  PROVE  LET x == Head(q).owner
             after == Tally(Tail(q), subs, p, c)
             before == Tally(q, subs, p, c)
         IN IF p = Head(q).path THEN x \notin before /\ after = before \cup {x}
            ELSE after = before
<1> DEFINE x == Head(q).owner
<1>1. /\ x \in Subscribers /\ x.client = c /\ Head(q).path = x.path
      /\ subs[x] \in {"interested", "destroyed"} /\ Pending(q, "interest", x)
  BY HeadAbout DEF Notifies
<1>2. \A k \in Notifies : \A y :
        Pending(Tail(q), k, y) <=> Pending(q, k, y) /\ ~(k = "interest" /\ y = x)
  BY PendingTail DEF Proper
<1>3. subs[x] = "destroyed" => Pending(q, "disinterest", x)
  BY <1>1 DEF Proper, Followed
<1> HIDE DEF x
<1>4. ~Counted(q, subs, x)
  BY <1>1 DEF Counted
<1>5. Counted(Tail(q), subs, x)
  <2>1. ~Pending(Tail(q), "interest", x)
    BY <1>2 DEF Notifies
  <2>2. Pending(Tail(q), "disinterest", x) <=> Pending(q, "disinterest", x)
    BY <1>2 DEF Notifies
  <2> QED
    BY <1>1, <1>3, <2>1, <2>2 DEF Counted
<1>6. \A y \in Subscribers : y # x => (Counted(Tail(q), subs, y) <=> Counted(q, subs, y))
  BY <1>2 DEF Counted, Notifies
<1>7. CASE p = Head(q).path
  <2>1. x \notin Tally(q, subs, p, c)
    BY <1>4 DEF Tally
  <2>2. Tally(Tail(q), subs, p, c) = Tally(q, subs, p, c) \cup {x}
    BY <1>1, <1>5, <1>6, <1>7 DEF Tally
  <2> QED
    BY <1>7, <2>1, <2>2 DEF x
<1>8. CASE p # Head(q).path
  <2>1. Tally(Tail(q), subs, p, c) = Tally(q, subs, p, c)
    BY <1>1, <1>6, <1>8 DEF Tally
  <2> QED
    BY <1>8, <2>1
<1> QED
  BY <1>7, <1>8

\* Serving a disinterest takes the subscriber off, which was counted.
LEMMA DisinterestServed ==
  ASSUME NEW q \in Seq(Requests), q # <<>>, NEW c, NEW subs, Proper(q, c, subs),
         Head(q).kind = "disinterest", NEW p
  PROVE  LET x == Head(q).owner
             after == Tally(Tail(q), subs, p, c)
             before == Tally(q, subs, p, c)
         IN IF p = Head(q).path THEN x \in before /\ after = before \ {x}
            ELSE after = before
<1> DEFINE x == Head(q).owner
<1>1. /\ x \in Subscribers /\ x.client = c /\ Head(q).path = x.path
      /\ subs[x] = "destroyed" /\ ~Pending(q, "interest", x) /\ Pending(q, "disinterest", x)
  BY HeadAbout DEF Notifies
<1>2. \A k \in Notifies : \A y :
        Pending(Tail(q), k, y) <=> Pending(q, k, y) /\ ~(k = "disinterest" /\ y = x)
  BY PendingTail DEF Proper
<1> HIDE DEF x
<1>4. Counted(q, subs, x)
  BY <1>1 DEF Counted
<1>5. ~Counted(Tail(q), subs, x)
  <2>1. ~Pending(Tail(q), "disinterest", x)
    BY <1>2 DEF Notifies
  <2> QED
    BY <1>1, <2>1 DEF Counted
<1>6. \A y \in Subscribers : y # x => (Counted(Tail(q), subs, y) <=> Counted(q, subs, y))
  BY <1>2 DEF Counted, Notifies
<1>7. CASE p = Head(q).path
  <2>1. x \in Tally(q, subs, p, c)
    BY <1>1, <1>4, <1>7 DEF Tally
  <2>2. Tally(Tail(q), subs, p, c) = Tally(q, subs, p, c) \ {x}
    BY <1>5, <1>6 DEF Tally
  <2> QED
    BY <1>7, <2>1, <2>2 DEF x
<1>8. CASE p # Head(q).path
  <2>1. Tally(Tail(q), subs, p, c) = Tally(q, subs, p, c)
    BY <1>1, <1>6, <1>8 DEF Tally
  <2> QED
    BY <1>8, <2>1
<1> QED
  BY <1>7, <1>8

\* Serving a publisher's request counts nobody.
LEMMA OtherServed ==
  ASSUME NEW q \in Seq(Requests), q # <<>>, NEW c, NEW subs, Proper(q, c, subs),
         Head(q).kind \notin Notifies, NEW p
  PROVE  Tally(Tail(q), subs, p, c) = Tally(q, subs, p, c)
<1>1. \A k \in Notifies : \A y : Pending(Tail(q), k, y) <=> Pending(q, k, y)
  BY PendingTail DEF Proper
<1> QED
  BY <1>1 DEF Tally, Counted, Notifies

\* What doNotify() does to the counts, and the other handlers do not.
LEMMA HandleOther ==
  ASSUME NEW r, NEW from, NEW listening, Handle(r, from, listening), r.kind \notin Notifies
  PROVE  UNCHANGED pathsOfInterest
BY DEF Handle, DoNotify, Notifies

\* An interest counts one more ...
LEMMA HandleInterest ==
  ASSUME NEW r, NEW from, NEW listening, Handle(r, from, listening), r.kind = "interest"
  PROVE  pathsOfInterest' =
           [pathsOfInterest EXCEPT ![r.path][from] = CountUp(pathsOfInterest[r.path][from])]
BY DEF Handle, DoNotify, Notifies

\* ... a disinterest one less.
LEMMA HandleDisinterest ==
  ASSUME NEW r, NEW from, NEW listening, Handle(r, from, listening), r.kind = "disinterest"
  PROVE  pathsOfInterest' =
           [pathsOfInterest EXCEPT ![r.path][from] = CountDown(pathsOfInterest[r.path][from])]
BY DEF Handle, DoNotify, Notifies

\* The server's own subscribers are counted at once.
LEMMA OwnInterest ==
  ASSUME NEW r, NEW listening, Ask(Server, r, listening), r.kind = "interest"
  PROVE  /\ UNCHANGED toServer
         /\ pathsOfInterest' =
              [pathsOfInterest EXCEPT ![r.path][Server] = CountUp(pathsOfInterest[r.path][Server])]
<1>1. Handle(r, Server, listening) /\ UNCHANGED toServer
  BY DEF Ask
<1>2. pathsOfInterest' =
        [pathsOfInterest EXCEPT ![r.path][Server] = CountUp(pathsOfInterest[r.path][Server])]
  BY <1>1, HandleInterest
<1> QED
  BY <1>1, <1>2

\* The server's own subscribers are taken off at once.
LEMMA OwnDisinterest ==
  ASSUME NEW r, NEW listening, Ask(Server, r, listening), r.kind = "disinterest"
  PROVE  /\ UNCHANGED toServer
         /\ pathsOfInterest' =
              [pathsOfInterest EXCEPT ![r.path][Server] = CountDown(pathsOfInterest[r.path][Server])]
<1>1. Handle(r, Server, listening) /\ UNCHANGED toServer
  BY DEF Ask
<1>2. pathsOfInterest' =
        [pathsOfInterest EXCEPT ![r.path][Server] = CountDown(pathsOfInterest[r.path][Server])]
  BY <1>1, HandleDisinterest
<1> QED
  BY <1>1, <1>2

\* A tally is finite and within the range of a count.
LEMMA TallyBound ==
  ASSUME NEW q, NEW subs, NEW p, NEW c
  PROVE  /\ IsFiniteSet(Tally(q, subs, p, c))
         /\ Cardinality(Tally(q, subs, p, c)) \in Nat
         /\ Cardinality(Tally(q, subs, p, c)) <= Cardinality(Subscribers)
         /\ Cardinality(Subscribers) \in Nat /\ Cardinality(Subscribers) < UintRange
<1>1. IsFiniteSet(Subscribers) /\ UintRange \in Nat /\ UintRange > Cardinality(Subscribers)
  BY RangeAssumption
<1>2. Cardinality(Subscribers) \in Nat
  BY <1>1, FS_CardinalityType
<1>3. Tally(q, subs, p, c) \in SUBSET Subscribers
  BY DEF Tally
<1>4. /\ IsFiniteSet(Tally(q, subs, p, c))
      /\ Cardinality(Tally(q, subs, p, c)) <= Cardinality(Subscribers)
  BY <1>1, <1>3, FS_Subset
<1> QED
  BY <1>1, <1>2, <1>4, FS_CardinalityType

\* Counting down does not wrap where there is something to take off.
LEMMA CountDownType ==
  ASSUME NEW n \in Nat
  PROVE  CountDown(n) \in Nat /\ (n > 0 /\ n < UintRange => CountDown(n) = n - 1)
<1>1. UintRange \in Nat /\ UintRange > 0
  <2>1. Cardinality(Subscribers) \in Nat
    BY RangeAssumption, FS_CardinalityType
  <2> QED
    BY <2>1, RangeAssumption
<1>2. n - 1 \in Int
  OBVIOUS
<1>3. (n - 1) % UintRange \in Nat
  BY <1>1, <1>2
<1>4. ASSUME n > 0, n < UintRange  PROVE (n - 1) % UintRange = n - 1
  <2>1. n - 1 >= 0 /\ n - 1 < UintRange
    BY <1>1, <1>4
  <2> QED
    BY <1>1, <1>2, <2>1
<1> QED
  BY <1>3, <1>4 DEF CountDown

\* The counts stay right when neither they nor the tallies change ...
LEMMA CountsSame ==
  ASSUME Counts, UNCHANGED <<connections, pathsOfInterest>>,
         \A p \in InterestPaths, c \in Procs :
           Tally(Queue(c)', subscribers', p, c) = Tally(Queue(c), subscribers, p, c)
  PROVE  Counts'
BY DEF Counts

\* ... and when one count and its tally change alike.
LEMMA CountsMoved ==
  ASSUME Types, Counts, UNCHANGED connections,
         NEW p0 \in InterestPaths, NEW c0 \in Procs, c0 \notin Clients \ connections, NEW x,
         NEW n, pathsOfInterest' = [pathsOfInterest EXCEPT ![p0][c0] = n],
         \A p \in InterestPaths, c \in Procs : (p # p0 \/ c # c0) =>
           Tally(Queue(c)', subscribers', p, c) = Tally(Queue(c), subscribers, p, c),
         LET before == Tally(Queue(c0), subscribers, p0, c0)
             after == Tally(Queue(c0)', subscribers', p0, c0)
         IN \/ n = CountUp(pathsOfInterest[p0][c0]) /\ x \notin before /\ after = before \cup {x}
            \/ n = CountDown(pathsOfInterest[p0][c0]) /\ x \in before /\ after = before \ {x}
  PROVE  pathsOfInterest' \in [InterestPaths -> [Procs -> Nat]] /\ Counts'
<1> DEFINE before == Tally(Queue(c0), subscribers, p0, c0)
           after == Tally(Queue(c0)', subscribers', p0, c0)
           k == pathsOfInterest[p0][c0]
<1>1. k = Cardinality(before) /\ k \in Nat
  BY TallyBound DEF Counts
<1>2. IsFiniteSet(before) /\ k < UintRange
  <2>1. /\ IsFiniteSet(before) /\ Cardinality(before) \in Nat
        /\ Cardinality(before) <= Cardinality(Subscribers)
        /\ Cardinality(Subscribers) \in Nat /\ Cardinality(Subscribers) < UintRange
    BY TallyBound
  <2>2. UintRange \in Nat
    BY RangeAssumption
  <2> HIDE DEF before
  <2> QED
    BY <1>1, <2>1, <2>2
<1>3. n = Cardinality(after) /\ n \in Nat
  <2>1. CASE n = CountUp(k) /\ x \notin before /\ after = before \cup {x}
    <3>1. Cardinality(after) = Cardinality(before) + 1
      BY <1>2, <2>1, FS_AddElement
    <3> QED
      BY <1>1, <2>1, <3>1 DEF CountUp
  <2>2. CASE n = CountDown(k) /\ x \in before /\ after = before \ {x}
    <3>1. Cardinality(after) = Cardinality(before) - 1
      BY <1>2, <2>2, FS_RemoveElement
    <3>2. Cardinality(before) # 0
      BY <1>2, <2>2, FS_EmptySet
    <3>3. CountDown(k) = k - 1 /\ k - 1 \in Nat
      BY <1>1, <1>2, <3>2, CountDownType
    <3> QED
      BY <1>1, <2>2, <3>1, <3>3
  <2> QED
    BY <2>1, <2>2
<1>4. pathsOfInterest \in [InterestPaths -> [Procs -> Nat]]
  BY DEF Types
<1>5. pathsOfInterest' \in [InterestPaths -> [Procs -> Nat]]
  BY <1>3, <1>4
<1>6. pathsOfInterest'[p0][c0] = n
  BY <1>4
<1>7. \A p \in InterestPaths, c \in Procs :
        (p # p0 \/ c # c0) => pathsOfInterest'[p][c] = pathsOfInterest[p][c]
  BY <1>4
<1> HIDE DEF before, after, k
<1>8. ASSUME NEW p \in InterestPaths, NEW c \in Procs
      PROVE  pathsOfInterest'[p][c] =
               IF c \in Clients \ connections' THEN 0
               ELSE Cardinality(Tally(Queue(c)', subscribers', p, c))
  <2>1. CASE p = p0 /\ c = c0
    BY <1>3, <1>6, <2>1 DEF after
  <2>2. CASE p # p0 \/ c # c0
    <3>1. pathsOfInterest'[p][c] = pathsOfInterest[p][c]
      BY <1>7, <2>2
    <3>2. Tally(Queue(c)', subscribers', p, c) = Tally(Queue(c), subscribers, p, c)
      BY <2>2
    <3> QED
      BY <3>1, <3>2 DEF Counts
  <2> QED
    BY <2>1, <2>2
<1>9. Counts'
  BY <1>8 DEF Counts
<1> QED
  BY <1>5, <1>9

\* The two ways in which they do.
LEMMA CountsUp ==
  ASSUME Types, Counts, UNCHANGED connections,
         NEW p0 \in InterestPaths, NEW c0 \in Procs, c0 \notin Clients \ connections, NEW x,
         pathsOfInterest' =
           [pathsOfInterest EXCEPT ![p0][c0] = CountUp(pathsOfInterest[p0][c0])],
         \A p \in InterestPaths, c \in Procs : (p # p0 \/ c # c0) =>
           Tally(Queue(c)', subscribers', p, c) = Tally(Queue(c), subscribers, p, c),
         x \notin Tally(Queue(c0), subscribers, p0, c0),
         Tally(Queue(c0)', subscribers', p0, c0) = Tally(Queue(c0), subscribers, p0, c0) \cup {x}
  PROVE  pathsOfInterest' \in [InterestPaths -> [Procs -> Nat]] /\ Counts'
BY CountsMoved

\* The second one.
LEMMA CountsDown ==
  ASSUME Types, Counts, UNCHANGED connections,
         NEW p0 \in InterestPaths, NEW c0 \in Procs, c0 \notin Clients \ connections, NEW x,
         pathsOfInterest' =
           [pathsOfInterest EXCEPT ![p0][c0] = CountDown(pathsOfInterest[p0][c0])],
         \A p \in InterestPaths, c \in Procs : (p # p0 \/ c # c0) =>
           Tally(Queue(c)', subscribers', p, c) = Tally(Queue(c), subscribers, p, c),
         x \in Tally(Queue(c0), subscribers, p0, c0),
         Tally(Queue(c0)', subscribers', p0, c0) = Tally(Queue(c0), subscribers, p0, c0) \ {x}
  PROVE  pathsOfInterest' \in [InterestPaths -> [Procs -> Nat]] /\ Counts'
BY CountsMoved

\* The server serves a request of a client (readyRead()).
LEMMA ServeStep ==
  ASSUME Types, Queues, Counts, NEW c0 \in Clients, Serve(c0)
  PROVE  Types' /\ Queues' /\ Counts'
<1> DEFINE q == toServer[c0]
           r == Head(q)
<1>1. /\ q \in Seq(Requests) /\ q # <<>> /\ Proper(q, c0, subscribers)
      /\ toServer' = [toServer EXCEPT ![c0] = Tail(q)]
      /\ UNCHANGED connections /\ UNCHANGED subscribers
      /\ c0 \in connections
  BY DEF Serve, lives, Types, Queues, ReadIfConnected
<1>2. r \in Requests /\ Tail(q) \in Seq(Requests)
  BY <1>1, HeadTailProperties
<1>3. toServer' \in [Clients -> Seq(Requests)]
  BY <1>1, <1>2 DEF Types
<1>4. toServer'[c0] = Tail(q) /\ \A c \in Clients \ {c0} : toServer'[c] = toServer[c]
  BY <1>1 DEF Types
<1>5. Queues'
  <2>1. Proper(Tail(q), c0, subscribers)
    BY <1>1, ProperTail
  <2>2. \A c \in Clients : Proper(toServer'[c], c, subscribers)
    BY <1>4, <2>1 DEF Queues
  <2> QED
    BY <1>1, <2>2 DEF Queues
<1>6. c0 # Server /\ c0 \in Procs
  BY ProcessAssumption DEF Procs
<1>7. Queue(c0) = q /\ Queue(c0)' = Tail(q)
  BY <1>4, <1>6 DEF Queue
<1>8. \A c \in Procs \ {c0} : Queue(c)' = Queue(c)
  BY <1>4 DEF Queue, Procs
<1>9. Handle(r, c0, watchObjects)
  BY DEF Serve
<1>10. connections' \subseteq Clients /\ subscribers' \in [Subscribers -> States]
  BY <1>1 DEF Types, States
<1>11. pathsOfInterest' \in [InterestPaths -> [Procs -> Nat]] /\ Counts'
  <2>1. CASE r.kind \notin Notifies
    <3>1. UNCHANGED pathsOfInterest
      BY <1>9, <2>1, HandleOther
    <3>2. \A p : Tally(Tail(q), subscribers, p, c0) = Tally(q, subscribers, p, c0)
      BY <1>1, <2>1, OtherServed
    <3>3. \A p \in InterestPaths, c \in Procs :
            Tally(Queue(c)', subscribers', p, c) = Tally(Queue(c), subscribers, p, c)
      BY <1>1, <1>7, <1>8, <3>2
    <3>4. Counts'
      BY <1>1, <3>1, <3>3, CountsSame
    <3> QED
      BY <3>1, <3>4 DEF Types
  <2>2. CASE r.kind \in Notifies
    <3>1. r.owner \in Subscribers /\ r.path = r.owner.path
      BY <1>1, <2>2, HeadAbout
    <3>2. r.path \in InterestPaths
      BY <3>1 DEF InterestPaths
    <3>3. CASE r.kind = "interest"
      <4>1. pathsOfInterest' =
              [pathsOfInterest EXCEPT ![r.path][c0] = CountUp(pathsOfInterest[r.path][c0])]
        BY <1>9, <3>3, HandleInterest
      <4>2. \A p : IF p = r.path
                   THEN /\ r.owner \notin Tally(q, subscribers, p, c0)
                        /\ Tally(Tail(q), subscribers, p, c0) =
                             Tally(q, subscribers, p, c0) \cup {r.owner}
                   ELSE Tally(Tail(q), subscribers, p, c0) = Tally(q, subscribers, p, c0)
        BY <1>1, <3>3, InterestServed
      <4>3. \A p \in InterestPaths, c \in Procs : (p # r.path \/ c # c0) =>
              Tally(Queue(c)', subscribers', p, c) = Tally(Queue(c), subscribers, p, c)
        BY <1>1, <1>7, <1>8, <4>2
      <4>4. /\ r.owner \notin Tally(Queue(c0), subscribers, r.path, c0)
            /\ Tally(Queue(c0)', subscribers', r.path, c0) =
                 Tally(Queue(c0), subscribers, r.path, c0) \cup {r.owner}
        BY <1>1, <1>7, <4>2
      <4> HIDE DEF q, r
      <4> QED
        BY <1>1, <1>6, <3>2, <4>1, <4>3, <4>4, CountsUp
    <3>4. CASE r.kind = "disinterest"
      <4>1. pathsOfInterest' =
              [pathsOfInterest EXCEPT ![r.path][c0] = CountDown(pathsOfInterest[r.path][c0])]
        BY <1>9, <3>4, HandleDisinterest
      <4>2. \A p : IF p = r.path
                   THEN /\ r.owner \in Tally(q, subscribers, p, c0)
                        /\ Tally(Tail(q), subscribers, p, c0) =
                             Tally(q, subscribers, p, c0) \ {r.owner}
                   ELSE Tally(Tail(q), subscribers, p, c0) = Tally(q, subscribers, p, c0)
        BY <1>1, <3>4, DisinterestServed
      <4>3. \A p \in InterestPaths, c \in Procs : (p # r.path \/ c # c0) =>
              Tally(Queue(c)', subscribers', p, c) = Tally(Queue(c), subscribers, p, c)
        BY <1>1, <1>7, <1>8, <4>2
      <4>4. /\ r.owner \in Tally(Queue(c0), subscribers, r.path, c0)
            /\ Tally(Queue(c0)', subscribers', r.path, c0) =
                 Tally(Queue(c0), subscribers, r.path, c0) \ {r.owner}
        BY <1>1, <1>7, <4>2
      <4> HIDE DEF q, r
      <4> QED
        BY <1>1, <1>6, <3>2, <4>1, <4>3, <4>4, CountsDown
    <3> QED
      BY <2>2, <3>3, <3>4 DEF Notifies
  <2> QED
    BY <2>1, <2>2
<1> QED
  BY <1>3, <1>5, <1>10, <1>11 DEF Types, States

\* A publisher asks for something (addWatch(), setValue(), removeSubTree(), ...).
LEMMA AskOther ==
  ASSUME Types, Queues, Counts, NEW proc \in Procs, NEW r \in Requests, r.kind \notin Notifies,
         NEW listening, Ask(proc, r, listening), UNCHANGED <<connections, subscribers>>
  PROVE  Types' /\ Queues' /\ Counts'
<1>0. UNCHANGED connections /\ UNCHANGED subscribers
  OBVIOUS
<1>1. CASE proc = Server
  <2>1. UNCHANGED pathsOfInterest /\ UNCHANGED toServer
    BY <1>1, HandleOther DEF Ask
  <2>2. \A c : Queue(c)' = Queue(c)
    BY <2>1 DEF Queue
  <2>3. Counts'
    BY <1>0, <2>1, <2>2, CountsSame
  <2> QED
    BY <1>0, <2>1, <2>3 DEF Types, Queues
<1>2. CASE proc # Server
  <2> DEFINE q == toServer[proc]
  <2>1. proc \in Clients /\ q \in Seq(Requests) /\ Proper(q, proc, subscribers)
    BY <1>2 DEF Procs, Types, Queues
  <2>2. toServer' = [toServer EXCEPT ![proc] = Append(q, r)] /\ UNCHANGED pathsOfInterest
    BY <1>2 DEF Ask
  <2>3. /\ Append(q, r) \in Seq(Requests)
        /\ Proper(Append(q, r), proc, subscribers)
        /\ \A p, d : Tally(Append(q, r), subscribers, p, d) = Tally(q, subscribers, p, d)
    BY <2>1, AppendProperties, OtherAppended
  <2>4. toServer'[proc] = Append(q, r) /\ \A c \in Clients \ {proc} : toServer'[c] = toServer[c]
    BY <2>1, <2>2 DEF Types
  <2>5. Types'
    <3>1. toServer' \in [Clients -> Seq(Requests)]
      BY <2>1, <2>2, <2>3 DEF Types
    <3> QED
      BY <1>0, <2>2, <3>1 DEF Types
  <2>6. Queues'
    BY <1>0, <2>3, <2>4 DEF Queues
  <2>7. \A p \in InterestPaths, c \in Procs :
          Tally(Queue(c)', subscribers', p, c) = Tally(Queue(c), subscribers, p, c)
    BY <1>0, <1>2, <2>3, <2>4 DEF Queue, Procs
  <2>8. Counts'
    BY <1>0, <2>2, <2>7, CountsSame
  <2> QED
    BY <2>5, <2>6, <2>8
<1> QED
  BY <1>1, <1>2

\* A subscriber of a client's process sends a request.
LEMMA ClientAsked ==
  ASSUME Types, Queues, Counts, UNCHANGED <<connections, pathsOfInterest>>,
         NEW x \in Subscribers, x.client \in Clients, NEW r \in Requests,
         subscribers' \in [Subscribers -> States],
         \A y \in Subscribers \ {x} : subscribers'[y] = subscribers[y],
         toServer' = [toServer EXCEPT ![x.client] = Append(toServer[x.client], r)],
         Proper(Append(toServer[x.client], r), x.client, subscribers'),
         \A y \in Subscribers :
           Counted(Append(toServer[x.client], r), subscribers', y) <=>
             Counted(toServer[x.client], subscribers, y)
  PROVE  Types' /\ Queues' /\ Counts'
<1> DEFINE c0 == x.client
           q == toServer[c0]
<1>1. Append(q, r) \in Seq(Requests)
  BY AppendProperties DEF Types
<1>2. c0 # Server
  BY ProcessAssumption
<1>3. toServer'[c0] = Append(q, r) /\ \A c \in Clients \ {c0} : toServer'[c] = toServer[c]
  BY DEF Types
<1>4. Types'
  <2>1. toServer' \in [Clients -> Seq(Requests)]
    BY <1>1 DEF Types
  <2> QED
    BY <2>1 DEF Types, States
<1>5. ASSUME NEW c \in Procs, c # c0, NEW p
      PROVE  /\ Proper(Queue(c), c, subscribers) => Proper(Queue(c), c, subscribers')
             /\ Tally(Queue(c), subscribers', p, c) = Tally(Queue(c), subscribers, p, c)
  BY <1>5, ElsewhereChanged
<1>6. ASSUME NEW c \in Clients  PROVE Proper(toServer'[c], c, subscribers')
  <2>1. CASE c = c0
    BY <1>3, <2>1
  <2>2. CASE c # c0
    <3>1. toServer'[c] = toServer[c] /\ Queue(c) = toServer[c] /\ c \in Procs
      BY <1>3, <2>2, ProcessAssumption DEF Queue, Procs
    <3> QED
      BY <1>5, <2>2, <3>1 DEF Queues
  <2> QED
    BY <2>1, <2>2
<1>7. Queues'
  BY <1>6 DEF Queues
<1>8. ASSUME NEW p \in InterestPaths, NEW c \in Procs
      PROVE  Tally(Queue(c)', subscribers', p, c) = Tally(Queue(c), subscribers, p, c)
  <2>1. CASE c = c0
    <3>1. Queue(c)' = Append(q, r) /\ Queue(c) = q
      BY <1>2, <1>3, <2>1 DEF Queue
    <3> QED
      BY <2>1, <3>1 DEF Tally
  <2>2. CASE c # c0
    <3>1. Queue(c)' = Queue(c)
      BY <1>3, <2>2 DEF Queue, Procs
    <3> QED
      BY <1>5, <2>2, <3>1
  <2> QED
    BY <2>1, <2>2
<1>9. Counts'
  BY <1>8, CountsSame
<1> QED
  BY <1>4, <1>7, <1>9

\* A subscriber is made (notifyInterest(), true).
LEMMA AskInterest ==
  ASSUME Types, Queues, Counts, NEW x \in Subscribers, subscribers[x] = "new",
         subscribers' \in [Subscribers -> States], subscribers'[x] = "interested",
         \A y \in Subscribers \ {x} : subscribers'[y] = subscribers[y], UNCHANGED connections,
         NEW listening, Ask(x.client, Asks("interest", x, x.path), listening)
  PROVE  Types' /\ Queues' /\ Counts'
<1> DEFINE c0 == x.client
           r == Asks("interest", x, x.path)
<1>1. c0 \in Procs /\ x.path \in InterestPaths
  BY ProcessAssumption DEF Procs, InterestPaths
<1>2. r \in Requests /\ r.kind = "interest" /\ r.path = x.path
  BY DEF Asks, Requests, Kinds, Notifies, InterestPaths
<1>3. subscribers \in [Subscribers -> States] /\ subscribers' \in [Subscribers -> States]
  BY DEF Types, States
<1>4. subscribers'[x] = "interested" /\ \A y \in Subscribers \ {x} : subscribers'[y] = subscribers[y]
  BY <1>3
<1>5. CASE c0 = Server
  <2>1. /\ UNCHANGED toServer
        /\ pathsOfInterest' =
             [pathsOfInterest EXCEPT ![x.path][c0] = CountUp(pathsOfInterest[x.path][c0])]
    <3>1. Ask(Server, r, listening)
      BY <1>5
    <3>2. /\ UNCHANGED toServer
          /\ pathsOfInterest' =
               [pathsOfInterest EXCEPT ![r.path][Server] = CountUp(pathsOfInterest[r.path][Server])]
      <4> HIDE DEF r
      <4> QED
        BY <1>2, <3>1, OwnInterest
    <3> QED
      BY <1>2, <1>5, <3>2
  <2>2. \A c : Queue(c)' = Queue(c)
    BY <2>1 DEF Queue
  <2>3. \A c \in Clients : c # c0
    BY <1>5, ProcessAssumption
  <2>4. Queues'
    BY <1>4, <2>1, <2>3, ElsewhereChanged DEF Queues
  <2>5. Queue(c0) = <<>> /\ \A k, y : ~Pending(Queue(c0), k, y)
    BY <1>5, EmptySeq DEF Queue, Pending
  <2>6. \A y \in Subscribers :
          Counted(Queue(c0), subscribers', y) <=> y = x \/ Counted(Queue(c0), subscribers, y)
    BY <1>4, <2>5 DEF Counted
  <2>7. ~Counted(Queue(c0), subscribers, x)
    BY DEF Counted
  <2>8. /\ x \notin Tally(Queue(c0), subscribers, x.path, c0)
        /\ Tally(Queue(c0)', subscribers', x.path, c0) =
             Tally(Queue(c0), subscribers, x.path, c0) \cup {x}
    BY <2>2, <2>6, <2>7 DEF Tally
  <2>9. ASSUME NEW p \in InterestPaths, NEW c \in Procs, p # x.path \/ c # c0
        PROVE  Tally(Queue(c)', subscribers', p, c) = Tally(Queue(c), subscribers, p, c)
    <3>1. CASE c # c0
      BY <1>1, <1>4, <2>2, <3>1, ElsewhereChanged
    <3>2. CASE c = c0
      BY <2>2, <2>6, <2>9, <3>2 DEF Tally
    <3> QED
      BY <3>1, <3>2
  <2>10. c0 \notin Clients \ connections
    BY <2>3
  <2>11. pathsOfInterest' \in [InterestPaths -> [Procs -> Nat]] /\ Counts'
    <3> HIDE DEF c0, r
    <3> QED
      BY <1>1, <2>1, <2>8, <2>9, <2>10, CountsUp
  <2> QED
    BY <1>3, <2>1, <2>4, <2>11 DEF Types, States
<1>6. CASE c0 # Server
  <2> DEFINE q == toServer[c0]
  <2>1. c0 \in Clients /\ q \in Seq(Requests) /\ Proper(q, c0, subscribers)
    BY <1>1, <1>6 DEF Procs, Types, Queues
  <2>2. toServer' = [toServer EXCEPT ![c0] = Append(q, r)] /\ UNCHANGED pathsOfInterest
    BY <1>6 DEF Ask
  <2>3. Proper(Append(q, r), c0, subscribers')
    BY <1>3, <1>4, <2>1, InterestAppended
  <2>4. ASSUME NEW y \in Subscribers
        PROVE  Counted(Append(q, r), subscribers', y) <=> Counted(q, subscribers, y)
    BY <1>3, <1>4, <2>1, InterestAppended
  <2> HIDE DEF r
  <2> QED
    BY <1>2, <1>3, <1>4, <2>1, <2>2, <2>3, <2>4, ClientAsked
<1> QED
  BY <1>5, <1>6

\* A subscriber is destroyed (notifyInterest(), false).
LEMMA AskDisinterest ==
  ASSUME Types, Queues, Counts, NEW x \in Subscribers, subscribers[x] = "interested",
         subscribers' \in [Subscribers -> States], subscribers'[x] = "destroyed",
         \A y \in Subscribers \ {x} : subscribers'[y] = subscribers[y], UNCHANGED connections,
         NEW listening, Ask(x.client, Asks("disinterest", x, x.path), listening)
  PROVE  Types' /\ Queues' /\ Counts'
<1> DEFINE c0 == x.client
           r == Asks("disinterest", x, x.path)
<1>1. c0 \in Procs /\ x.path \in InterestPaths
  BY ProcessAssumption DEF Procs, InterestPaths
<1>2. r \in Requests /\ r.kind = "disinterest" /\ r.path = x.path
  BY DEF Asks, Requests, Kinds, Notifies, InterestPaths
<1>3. subscribers \in [Subscribers -> States] /\ subscribers' \in [Subscribers -> States]
  BY DEF Types, States
<1>4. subscribers'[x] = "destroyed" /\ \A y \in Subscribers \ {x} : subscribers'[y] = subscribers[y]
  BY <1>3
<1>5. CASE c0 = Server
  <2>1. /\ UNCHANGED toServer
        /\ pathsOfInterest' =
             [pathsOfInterest EXCEPT ![x.path][c0] = CountDown(pathsOfInterest[x.path][c0])]
    <3>1. Ask(Server, r, listening)
      BY <1>5
    <3>2. /\ UNCHANGED toServer
          /\ pathsOfInterest' =
               [pathsOfInterest EXCEPT ![r.path][Server] = CountDown(pathsOfInterest[r.path][Server])]
      <4> HIDE DEF r
      <4> QED
        BY <1>2, <3>1, OwnDisinterest
    <3> QED
      BY <1>2, <1>5, <3>2
  <2>2. \A c : Queue(c)' = Queue(c)
    BY <2>1 DEF Queue
  <2>3. \A c \in Clients : c # c0
    BY <1>5, ProcessAssumption
  <2>4. Queues'
    BY <1>4, <2>1, <2>3, ElsewhereChanged DEF Queues
  <2>5. Queue(c0) = <<>> /\ \A k, y : ~Pending(Queue(c0), k, y)
    BY <1>5, EmptySeq DEF Queue, Pending
  <2>6. \A y \in Subscribers :
          Counted(Queue(c0), subscribers', y) <=> y # x /\ Counted(Queue(c0), subscribers, y)
    BY <1>4, <2>5 DEF Counted
  <2>7. Counted(Queue(c0), subscribers, x)
    BY <2>5 DEF Counted
  <2>8. /\ x \in Tally(Queue(c0), subscribers, x.path, c0)
        /\ Tally(Queue(c0)', subscribers', x.path, c0) =
             Tally(Queue(c0), subscribers, x.path, c0) \ {x}
    BY <2>2, <2>6, <2>7 DEF Tally
  <2>9. ASSUME NEW p \in InterestPaths, NEW c \in Procs, p # x.path \/ c # c0
        PROVE  Tally(Queue(c)', subscribers', p, c) = Tally(Queue(c), subscribers, p, c)
    <3>1. CASE c # c0
      BY <1>1, <1>4, <2>2, <3>1, ElsewhereChanged
    <3>2. CASE c = c0
      BY <2>2, <2>6, <2>9, <3>2 DEF Tally
    <3> QED
      BY <3>1, <3>2
  <2>10. c0 \notin Clients \ connections
    BY <2>3
  <2>11. pathsOfInterest' \in [InterestPaths -> [Procs -> Nat]] /\ Counts'
    <3> HIDE DEF c0, r
    <3> QED
      BY <1>1, <2>1, <2>8, <2>9, <2>10, CountsDown
  <2> QED
    BY <1>3, <2>1, <2>4, <2>11 DEF Types, States
<1>6. CASE c0 # Server
  <2> DEFINE q == toServer[c0]
  <2>1. c0 \in Clients /\ q \in Seq(Requests) /\ Proper(q, c0, subscribers)
    BY <1>1, <1>6 DEF Procs, Types, Queues
  <2>2. toServer' = [toServer EXCEPT ![c0] = Append(q, r)] /\ UNCHANGED pathsOfInterest
    BY <1>6 DEF Ask
  <2>3. Proper(Append(q, r), c0, subscribers')
    BY <1>3, <1>4, <2>1, DisinterestAppended
  <2>4. ASSUME NEW y \in Subscribers
        PROVE  Counted(Append(q, r), subscribers', y) <=> Counted(q, subscribers, y)
    BY <1>3, <1>4, <2>1, DisinterestAppended
  <2> HIDE DEF r
  <2> QED
    BY <1>2, <1>3, <1>4, <2>1, <2>2, <2>3, <2>4, ClientAsked
<1> QED
  BY <1>5, <1>6

\* The server sees that a client has gone (disconnected()).
LEMMA DisconnectedStep ==
  ASSUME Types, Queues, Counts, NEW c0 \in Clients, Disconnected(c0)
  PROVE  Types' /\ Queues' /\ Counts'
<1>1. /\ connections' = connections \ {c0} /\ c0 \in connections
      /\ pathsOfInterest' = CountsDropped(c0)
      /\ UNCHANGED toServer /\ UNCHANGED subscribers
  BY DEF Disconnected, lives
<1>2. c0 \in Procs
  BY DEF Procs
<1>3. \A p \in InterestPaths : pathsOfInterest'[p] = [pathsOfInterest[p] EXCEPT ![c0] = 0]
  BY <1>1 DEF CountsDropped
<1>4. pathsOfInterest' \in [InterestPaths -> [Procs -> Nat]]
  <2>1. \A p \in InterestPaths : [pathsOfInterest[p] EXCEPT ![c0] = 0] \in [Procs -> Nat]
    BY DEF Types
  <2> QED
    BY <1>1, <2>1 DEF CountsDropped
<1>5. \A p \in InterestPaths, c \in Procs :
        pathsOfInterest'[p][c] = IF c = c0 THEN 0 ELSE pathsOfInterest[p][c]
  BY <1>3 DEF Types
<1>6. \A c : Queue(c)' = Queue(c)
  BY <1>1 DEF Queue
<1>7. Types' /\ Queues'
  BY <1>1, <1>4 DEF Types, Queues
<1>8. ASSUME NEW p \in InterestPaths, NEW c \in Procs
      PROVE  pathsOfInterest'[p][c] =
               IF c \in Clients \ connections' THEN 0
               ELSE Cardinality(Tally(Queue(c)', subscribers', p, c))
  <2>1. CASE c = c0
    BY <1>1, <1>5, <2>1
  <2>2. CASE c # c0
    BY <1>1, <1>5, <1>6, <2>2 DEF Counts
  <2> QED
    BY <2>1, <2>2
<1> QED
  BY <1>7, <1>8 DEF Counts

\* Steps that touch nothing of this.
LEMMA Unchanged ==
  ASSUME Types, Queues, Counts, UNCHANGED <<connections, pathsOfInterest, toServer, subscribers>>
  PROVE  Types' /\ Queues' /\ Counts'
<1>1. \A c : Queue(c)' = Queue(c)
  BY DEF Queue
<1>2. Counts'
  BY <1>1 DEF Counts
<1> QED
  BY <1>2 DEF Types, Queues

\* Initially nothing waits and nothing is counted.
LEMMA InitInv == Init => Types /\ Queues /\ Counts
<1> SUFFICES ASSUME Init PROVE Types /\ Queues /\ Counts
  OBVIOUS
<1>1. \A c \in Clients : toServer[c] = <<>>
  BY DEF Init
<1>2. Types
  <2>1. toServer \in [Clients -> Seq(Requests)]
    BY EmptySeq DEF Init
  <2>2. pathsOfInterest \in [InterestPaths -> [Procs -> Nat]]
    BY DEF Init
  <2> QED
    BY <2>1, <2>2 DEF Types, States, Init
<1>3. Len(<<>>) = 0
  BY EmptySeq
<1>4. Queues
  <2>1. \A c : Proper(<<>>, c, subscribers)
    BY <1>3 DEF Proper, Own, Once, InOrder, Followed, Pending
  <2> QED
    BY <1>1, <2>1 DEF Queues
<1>5. Counts
  <2>1. \A q, p, c : Tally(q, subscribers, p, c) = {}
    BY DEF Tally, Counted, Init
  <2>2. \A p \in InterestPaths, c \in Procs : pathsOfInterest[p][c] = 0
    BY DEF Init
  <2> QED
    BY <2>1, <2>2, FS_EmptySet DEF Counts, Init
<1> QED
  BY <1>2, <1>4, <1>5

\* The invariant is inductive.
LEMMA Step ==
  ASSUME Types, Queues, Counts, [Next]_vars
  PROVE  Types' /\ Queues' /\ Counts'
<1>1. ASSUME NEW o \in Owners, Connect(o) \/ SetValue(o) \/ RemoveSubTree(o) \/ RemoveWatches(o)
      PROVE  Types' /\ Queues' /\ Counts'
  <2>1. o.client \in Procs
    BY ProcessAssumption DEF Procs
  <2>2. \E k \in {"watch", "unwatch", "set", "remove"}, p \in {PathOf[o], Attribute(o)} : \E l :
          Ask(o.client, Asks(k, o, p), l)
    BY <1>1 DEF Connect, SetValue, RemoveSubTree, RemoveWatches
  <2>3. PICK k \in {"watch", "unwatch", "set", "remove"}, p \in {PathOf[o], Attribute(o)} :
          \E l : Ask(o.client, Asks(k, o, p), l)
    BY <2>2
  <2>4. PICK l : Ask(o.client, Asks(k, o, p), l)
    BY <2>3
  <2>5. Asks(k, o, p) \in Requests /\ Asks(k, o, p).kind \notin Notifies
    BY DEF Asks, Requests, Kinds, Notifies
  <2>6. UNCHANGED <<connections, subscribers>>
    BY <1>1 DEF Connect, SetValue, RemoveSubTree, RemoveWatches
  <2> QED
    BY <2>1, <2>4, <2>5, <2>6, AskOther
<1>2. ASSUME NEW x \in Subscribers, Subscribe(x)
      PROVE  Types' /\ Queues' /\ Counts'
  <2>1. /\ subscribers[x] = "new"
        /\ subscribers' = [subscribers EXCEPT ![x] = "interested"]
        /\ UNCHANGED connections
        /\ Ask(x.client, Asks("interest", x, x.path), watchObjects)
    BY <1>2 DEF Subscribe
  <2>2. /\ subscribers' \in [Subscribers -> States] /\ subscribers'[x] = "interested"
        /\ \A y \in Subscribers \ {x} : subscribers'[y] = subscribers[y]
    BY <2>1 DEF Types, States
  <2>3. subscribers[x] = "new" /\ UNCHANGED connections
    BY <2>1
  <2>4. Ask(x.client, Asks("interest", x, x.path), watchObjects)
    BY <2>1
  <2> QED
    BY <2>2, <2>3, <2>4, AskInterest
<1>3. ASSUME NEW x \in Subscribers, Unsubscribe(x)
      PROVE  Types' /\ Queues' /\ Counts'
  <2>1. /\ subscribers[x] = "interested"
        /\ subscribers' = [subscribers EXCEPT ![x] = "destroyed"]
        /\ UNCHANGED connections
        /\ Ask(x.client, Asks("disinterest", x, x.path), watchObjects)
    BY <1>3 DEF Unsubscribe
  <2>2. /\ subscribers' \in [Subscribers -> States] /\ subscribers'[x] = "destroyed"
        /\ \A y \in Subscribers \ {x} : subscribers'[y] = subscribers[y]
    BY <2>1 DEF Types, States
  <2>3. subscribers[x] = "interested" /\ UNCHANGED connections
    BY <2>1
  <2>4. Ask(x.client, Asks("disinterest", x, x.path), watchObjects)
    BY <2>1
  <2> QED
    BY <2>2, <2>3, <2>4, AskDisinterest
<1>4. ASSUME NEW c \in Clients, Serve(c)
      PROVE  Types' /\ Queues' /\ Counts'
  BY <1>4, ServeStep
<1>5. ASSUME NEW c \in Clients, Disconnected(c)
      PROVE  Types' /\ Queues' /\ Counts'
  BY <1>5, DisconnectedStep
<1>6. ASSUME NEW c \in Clients, Deliver(c) \/ Die(c)
      PROVE  Types' /\ Queues' /\ Counts'
  BY <1>6, Unchanged DEF Deliver, Die, lives
<1>7. CASE UNCHANGED vars
  BY <1>7, Unchanged DEF vars
<1> QED
  BY <1>1, <1>2, <1>3, <1>4, <1>5, <1>6, <1>7 DEF Next

\* The queues are in order and the counts agree with them in every reachable state.
THEOREM Inductive == Spec => [](Types /\ Queues /\ Counts)
<1>1. Init => Types /\ Queues /\ Counts
  BY InitInv
<1>2. (Types /\ Queues /\ Counts) /\ [Next]_vars => (Types /\ Queues /\ Counts)'
  BY Step
<1> QED
  BY <1>1, <1>2, PTL DEF Spec

\* The requests of kind k for path p that wait in q, and the subscribers that made them.
Places(q, k, p) == {i \in 1 .. Len(q) : q[i].kind = k /\ q[i].path = p}
Askers(q, k, p, c) == {x \in Subscribers : x.client = c /\ x.path = p /\ Pending(q, k, x)}

\* They are equally many.
LEMMA WaitingIs ==
  ASSUME NEW q \in Seq(Requests), NEW c, NEW subs, Proper(q, c, subs), NEW k \in Notifies, NEW p
  PROVE  /\ IsFiniteSet(Askers(q, k, p, c))
         /\ Cardinality(Places(q, k, p)) = Cardinality(Askers(q, k, p, c))
<1> DEFINE W == {i \in 1 .. Len(q) : q[i].kind = k /\ q[i].path = p}
           X == {x \in Subscribers : x.client = c /\ x.path = p /\ Pending(q, k, x)}
           f == [i \in W |-> q[i].owner]
<1>1. Len(q) \in Nat
  BY LenProperties
<1>2. IsFiniteSet(1 .. Len(q)) /\ W \in SUBSET (1 .. Len(q))
  BY <1>1, FS_Interval
<1>3. IsFiniteSet(W)
  BY <1>2, FS_Subset
<1>4. ASSUME NEW i \in W
      PROVE  q[i].owner \in X
  <2>1. i \in 1 .. Len(q) /\ q[i].kind = k /\ q[i].path = p
    OBVIOUS
  <2>2. /\ q[i].owner \in Subscribers /\ q[i].owner.client = c
        /\ q[i].path = q[i].owner.path
    BY <2>1 DEF Proper, Own
  <2>3. Pending(q, k, q[i].owner)
    BY <2>1 DEF Pending
  <2> QED
    BY <2>1, <2>2, <2>3
<1>5. ASSUME NEW x \in X
      PROVE  \E i \in W : q[i].owner = x
  <2>1. PICK i \in 1 .. Len(q) : q[i].kind = k /\ q[i].owner = x
    BY DEF Pending
  <2>2. q[i].path = x.path
    BY <2>1 DEF Proper, Own
  <2> QED
    BY <2>1, <2>2
<1>6. \A i, j \in W : q[i].owner = q[j].owner => i = j
  BY DEF Proper, Once
<1> HIDE DEF W, X
<1>7. f \in [W -> X]
  BY <1>4
<1>8. f \in Injection(W, X)
  BY <1>6, <1>7 DEF Injection, IsInjective
<1>9. f \in Surjection(W, X)
  BY <1>5, <1>7 DEF Surjection
<1>10. ExistsBijection(W, X)
  BY <1>8, <1>9 DEF ExistsBijection, Bijection
<1>11. IsFiniteSet(X) /\ Cardinality(X) = Cardinality(W)
  BY <1>3, <1>10, FS_Bijection
<1> QED
  BY <1>11 DEF W, X, Places, Askers

\* What the server has counted, with the requests on their way, is how many
\* subscribers there are, for any number of processes, paths and subscribers.
THEOREM InterestIsCounted == Spec => []InterestCounted
<1>1. Types /\ Queues /\ Counts => InterestCounted
  <2> SUFFICES ASSUME Types, Queues, Counts, NEW p \in InterestPaths, NEW c \in Procs
               PROVE  IF c \in Clients \ connections THEN pathsOfInterest[p][c] = 0
                      ELSE pathsOfInterest[p][c] + Waiting(c, "interest", p)
                                                 - Waiting(c, "disinterest", p)
                           = Cardinality({x \in Subscribers :
                               x.client = c /\ x.path = p /\ subscribers[x] = "interested"})
    BY DEF InterestCounted
  <2> DEFINE q == Queue(c)
             T == Tally(q, subscribers, p, c)
             U == {x \in Subscribers :
                     x.client = c /\ x.path = p /\ subscribers[x] = "interested"}
             I == {x \in Subscribers : x.client = c /\ x.path = p /\ Pending(q, "interest", x)}
             D == {x \in Subscribers : x.client = c /\ x.path = p /\ Pending(q, "disinterest", x)}
  <2>1. CASE c \in Clients \ connections
    BY <2>1 DEF Counts
  <2>2. CASE c = Server
    <3>1. \A k, x : ~Pending(q, k, x)
      BY <2>2, EmptySeq DEF Queue, Pending
    <3>2. T = U
      BY <3>1 DEF Tally, Counted
    <3>3. c \notin Clients
      BY <2>2, ProcessAssumption
    <3>4. pathsOfInterest[p][c] = Cardinality(T) /\ Cardinality(T) \in Nat
      BY <3>3, TallyBound DEF Counts
    <3>5. Waiting(c, "interest", p) = 0 /\ Waiting(c, "disinterest", p) = 0
      BY <2>2 DEF Waiting
    <3> HIDE DEF T, U, q
    <3>6. pathsOfInterest[p][c] + 0 - 0 = Cardinality(U)
      BY <3>2, <3>4
    <3> QED
      BY <3>3, <3>5, <3>6 DEF U
  <2>3. CASE c # Server /\ c \notin Clients \ connections
    <3>1. c \in Clients /\ q = toServer[c] /\ q \in Seq(Requests) /\ Proper(q, c, subscribers)
      BY <2>3 DEF Procs, Queue, Types, Queues
    <3>2. IsFiniteSet(I) /\ Waiting(c, "interest", p) = Cardinality(I)
      <4>1. /\ IsFiniteSet(Askers(q, "interest", p, c))
            /\ Cardinality(Places(q, "interest", p)) = Cardinality(Askers(q, "interest", p, c))
        <5> HIDE DEF q
        <5> QED
          BY <3>1, WaitingIs DEF Notifies
      <4>2. Waiting(c, "interest", p) = Cardinality(Places(q, "interest", p))
        BY <2>3, <3>1 DEF Waiting, Places
      <4>3. Askers(q, "interest", p, c) = I
        BY DEF Askers
      <4> QED
        BY <4>1, <4>2, <4>3
    <3>3. IsFiniteSet(D) /\ Waiting(c, "disinterest", p) = Cardinality(D)
      <4>1. /\ IsFiniteSet(Askers(q, "disinterest", p, c))
            /\ Cardinality(Places(q, "disinterest", p)) = Cardinality(Askers(q, "disinterest", p, c))
        <5> HIDE DEF q
        <5> QED
          BY <3>1, WaitingIs DEF Notifies
      <4>2. Waiting(c, "disinterest", p) = Cardinality(Places(q, "disinterest", p))
        BY <2>3, <3>1 DEF Waiting, Places
      <4>3. Askers(q, "disinterest", p, c) = D
        BY DEF Askers
      <4> QED
        BY <4>1, <4>2, <4>3
    <3>4. pathsOfInterest[p][c] = Cardinality(T) /\ IsFiniteSet(T)
      BY <2>3, TallyBound DEF Counts
    <3>5. U \subseteq Subscribers /\ IsFiniteSet(U)
      BY RangeAssumption, FS_Subset
    <3>6. ASSUME NEW x \in Subscribers, x.client = c
          PROVE  /\ Pending(q, "interest", x) =>
                      /\ subscribers[x] \in {"interested", "destroyed"}
                      /\ subscribers[x] = "destroyed" => Pending(q, "disinterest", x)
                 /\ Pending(q, "disinterest", x) => subscribers[x] = "destroyed"
                 /\ subscribers[x] = "interested" => subscribers[x] # "new"
      BY <3>1, <3>6 DEF Proper, Own, Followed, Pending, Notifies
    <3>7. T \cap I = {}
      BY DEF Tally, Counted
    <3>8. U \cap D = {}
      BY <3>6
    <3>9. T \cup I = U \cup D
      <4>1. \A x \in Subscribers : x.client = c =>
              ((Counted(q, subscribers, x) \/ Pending(q, "interest", x)) <=>
               (subscribers[x] = "interested" \/ Pending(q, "disinterest", x)))
        BY <3>6 DEF Counted
      <4> QED
        BY <4>1 DEF Tally
    <3>10. Cardinality(T) \in Nat /\ Cardinality(I) \in Nat /\ Cardinality(U) \in Nat
           /\ Cardinality(D) \in Nat
      BY <3>2, <3>3, <3>4, <3>5, FS_CardinalityType
    <3> HIDE DEF T, I, U, D, q
    <3>11. Cardinality(T \cup I) = Cardinality(T) + Cardinality(I)
      BY <3>2, <3>4, <3>7, <3>10, FS_Union, FS_EmptySet
    <3>12. Cardinality(U \cup D) = Cardinality(U) + Cardinality(D)
      BY <3>3, <3>5, <3>8, <3>10, FS_Union, FS_EmptySet
    <3>13. Cardinality(T) + Cardinality(I) - Cardinality(D) = Cardinality(U)
      <4>1. Cardinality(T \cup I) = Cardinality(U \cup D)
        BY <3>9
      <4>2. Cardinality(T) + Cardinality(I) = Cardinality(U) + Cardinality(D)
        BY <3>11, <3>12, <4>1
      <4> QED
        BY <3>10, <4>2
    <3>14. pathsOfInterest[p][c] + Waiting(c, "interest", p) - Waiting(c, "disinterest", p)
           = Cardinality(U)
      BY <3>2, <3>3, <3>4, <3>13
    <3> QED
      BY <2>3, <3>14 DEF U
  <2> QED
    BY <2>1, <2>2, <2>3
<1> QED
  BY <1>1, Inductive, PTL

-----------------------------------------------------------------------------
(* The tree: what FixedMemoryTreeProofs proves of it holds of the one here. *)

Facts == INSTANCE FixedMemoryTreeProofs

\* What the tree assumes of its users holds of publishers.
LEMMA TreeFits == Facts!TableAssumption /\ Facts!ValuesAssumption /\ Facts!PathsAssumption
<1>1. Facts!TableAssumption /\ Facts!ValuesAssumption
  BY MemoryAssumption DEF Facts!TableAssumption, Facts!ValuesAssumption
<1>2. ASSUME NEW x \in Publish \cup Watch
      PROVE  x = <<x[1], x[2]>> /\ x[2] \in Seq(STRING)
  BY PublisherAssumption DEF Publish, Watch
<1> QED
  BY <1>1, <1>2 DEF Facts!PathsAssumption

\* The operations are the same, seen from here and from there: addWatch(),
LEMMA SameAdd ==
  ASSUME NEW t, NEW p, NEW o
  PROVE  Tree!AddWatch(t, p, o) = Facts!AddWatch(t, p, o)
BY DEF Tree!AddWatch, Tree!Grown, Tree!AsMade, Tree!NextId, Tree!BumpedWay, Tree!Taken,
       Tree!NoName, Tree!Entries, Tree!Result, Tree!Bumped, Tree!ToSet, Tree!Blank,
       Tree!Min, Tree!Matched, Tree!Walk, Tree!Child, Tree!Root, Tree!Invalid,
       Facts!AddWatch, Facts!Grown, Facts!AsMade, Facts!NextId, Facts!BumpedWay,
       Facts!Taken, Facts!NoName, Facts!Entries, Facts!Result, Facts!Bumped,
       Facts!ToSet, Facts!Blank, Facts!Min, Facts!Matched, Facts!Walk, Facts!Child,
       Facts!Root, Facts!Invalid

\* insert(),
LEMMA SameInsert ==
  ASSUME NEW t, NEW p, NEW o, NEW v
  PROVE  Tree!Insert(t, p, o, v) = Facts!Insert(t, p, o, v)
BY DEF Tree!Insert, Tree!SetData, Tree!Overlaid, Tree!Garbage, Tree!Grown, Tree!AsMade,
       Tree!NextId, Tree!BumpedWay, Tree!Taken, Tree!NoName, Tree!Entries, Tree!Result,
       Tree!Bumped, Tree!ToSet, Tree!Blank, Tree!Min, Tree!Matched, Tree!Walk,
       Tree!Child, Tree!Root, Tree!Invalid, Facts!Insert, Facts!SetData, Facts!Overlaid,
       Facts!Garbage, Facts!Grown, Facts!AsMade, Facts!NextId, Facts!BumpedWay,
       Facts!Taken, Facts!NoName, Facts!Entries, Facts!Result, Facts!Bumped,
       Facts!ToSet, Facts!Blank, Facts!Min, Facts!Matched, Facts!Walk, Facts!Child,
       Facts!Root, Facts!Invalid

\* remWatch(),
LEMMA SameRem ==
  ASSUME NEW t, NEW p, NEW o
  PROVE  Tree!RemWatch(t, p, o) = Facts!RemWatch(t, p, o)
BY DEF Tree!RemWatch, Tree!WithoutWatch, Tree!Valid, Tree!Prune, Tree!Dangling,
       Tree!Entries, Tree!Result, Tree!Bumped, Tree!ToSet, Tree!Walk, Tree!Child,
       Tree!Root, Tree!Invalid, Facts!RemWatch, Facts!WithoutWatch, Facts!Valid,
       Facts!Prune, Facts!Dangling, Facts!Entries, Facts!Result, Facts!Bumped,
       Facts!ToSet, Facts!Walk, Facts!Child, Facts!Root, Facts!Invalid

\* what removeRecur() leaves of a node,
LEMMA SameStripped ==
  ASSUME NEW n, NEW o
  PROVE  Tree!Stripped(n, o) = Facts!Stripped(n, o)
BY DEF Tree!Stripped, Tree!Picked, Tree!SetData, Tree!Overlaid, Tree!Garbage,
       Tree!ToSet, Tree!OwnedBy, Tree!Everyone, Facts!Stripped, Facts!Picked,
       Facts!SetData, Facts!Overlaid, Facts!Garbage, Facts!ToSet, Facts!OwnedBy,
       Facts!Everyone

\* what is under a node,
LEMMA SameBelow ==
  ASSUME NEW t, NEW e
  PROVE  Tree!Under(t, e) = Facts!Under(t, e)
  BY DEF Tree!Under, Facts!Under

\* the entries handed back,
LEMMA SameHanded ==
  ASSUME NEW t, NEW R
  PROVE  Tree!HandedBack(t, R) = Facts!HandedBack(t, R)
BY DEF Tree!HandedBack, Tree!Under, Tree!Cardinality,
       Facts!HandedBack, Facts!Under, Facts!Cardinality

\* bump(),
LEMMA SameBumped ==
  ASSUME NEW t, NEW S
  PROVE  Tree!Bumped(t, S) = Facts!Bumped(t, S)
  BY DEF Tree!Bumped, Facts!Bumped, Tree!Entries, Facts!Entries

\* removeRecur(),
LEMMA SameUnder ==
  ASSUME NEW t, NEW e, NEW owner
  PROVE  Tree!RemoveUnder(t, e, owner) = Facts!RemoveUnder(t, e, owner)
<1> DEFINE S == Facts!Under(t, e)
           s == [x \in S |-> Facts!Stripped(t.node[x], owner)]
           R == {x \in S \ {Facts!Root} : \A y \in Facts!Under(t, x) :
                   \E n \in {s[y].node} : n.data = <<>> /\ n.watches = <<>>}
           touched == {x \in S : s[x].moved \/ Facts!Under(t, x) \cap R # {}}
           S2 == Tree!Under(t, e)
           s2 == [x \in S2 |-> Tree!Stripped(t.node[x], owner)]
           R2 == {x \in S2 \ {Facts!Root} : \A y \in Tree!Under(t, x) :
                   \E n \in {s2[y].node} : n.data = <<>> /\ n.watches = <<>>}
           touched2 == {x \in S2 : s2[x].moved \/ Tree!Under(t, x) \cap R2 # {}}
<1>1. S2 = S
  BY SameBelow
<1>2. s2 = s
  <2>1. \A x \in S : Tree!Stripped(t.node[x], owner) = Facts!Stripped(t.node[x], owner)
    BY SameStripped
  <2> HIDE DEF S, S2
  <2> QED
    BY <1>1, <2>1
<1>3. \A x : Tree!Under(t, x) = Facts!Under(t, x)
  BY SameBelow
<1>4. R2 = R
  <2> HIDE DEF S, S2, s, s2
  <2> QED
    BY <1>1, <1>2, <1>3
<1>5. touched2 = touched
  <2> HIDE DEF S, S2, s, s2, R, R2
  <2> QED
    BY <1>1, <1>2, <1>3, <1>4
<1> DEFINE
      Left(v, T, Q, q, Z, E, r, h, f) ==
         [tree |-> [v EXCEPT
                      !.node = [x \in E |->
                         IF x \in Q THEN f
                         ELSE IF x \in Z THEN [r[x].node EXCEPT !.sub = @ \ Q]
                         ELSE @[x]],
                      !.free = h \o @],
          bumped |-> T, removed |-> q]
<1>6. Facts!RemoveUnder(t, e, owner) =
        Left(Facts!Bumped(t, touched), touched, R, R, S, Facts!Entries, s,
             Facts!HandedBack(t, R), Facts!Freed)
  BY DEF Facts!RemoveUnder
<1>7. Tree!RemoveUnder(t, e, owner) =
        Left(Tree!Bumped(t, touched2), touched2, R2, R2, S2, Tree!Entries, s2,
             Tree!HandedBack(t, R2), Tree!Freed)
  BY DEF Tree!RemoveUnder, Tree!Root, Facts!Root
<1>8. Tree!Entries = Facts!Entries /\ Tree!Freed = Facts!Freed
  BY DEF Tree!Entries, Facts!Entries, Tree!Freed, Facts!Freed
<1>9. Tree!Bumped(t, touched2) = Facts!Bumped(t, touched)
  BY <1>5, SameBumped
<1>10. Tree!HandedBack(t, R2) = Facts!HandedBack(t, R)
  BY <1>4, SameHanded
<1> HIDE DEF S, S2, s, s2, R, R2, touched, touched2, Left
<1> QED
  BY <1>1, <1>2, <1>4, <1>5, <1>6, <1>7, <1>8, <1>9, <1>10

\* findRecur(),
LEMMA SameWalk ==
  ASSUME NEW t, NEW p
  PROVE  Tree!Walk(t, p) = Facts!Walk(t, p)
BY DEF Tree!Walk, Tree!Matched, Tree!Child, Tree!Invalid, Tree!Root,
       Facts!Walk, Facts!Matched, Facts!Child, Facts!Invalid, Facts!Root

\* the nodes cut,
LEMMA SamePrune ==
  ASSUME NEW t, NEW w, NEW k, NEW cut
  PROVE  Tree!Prune(t, w, k, cut) = Facts!Prune(t, w, k, cut)
BY DEF Tree!Prune, Tree!Entries, Tree!Dangling, Facts!Prune, Facts!Entries, Facts!Dangling

\* and remove().
LEMMA SameItems ==
  ASSUME NEW t, NEW path, NEW owner
  PROVE  Tree!RemoveItems(t, path, owner) = Facts!RemoveItems(t, path, owner)
<1> DEFINE w == Facts!Walk(t, path)
           k == Len(path)
           r == Facts!RemoveUnder(t, w[k], owner)
           touched == IF r.removed = {} THEN {} ELSE {w[i] : i \in 0 .. k - 1}
           P == Facts!Prune(r.tree, w, k, w[k] \in r.removed)
           P2 == Tree!Prune(r.tree, w, k, w[k] \in r.removed)
<1>0. w = Tree!Walk(t, path) /\ r = Tree!RemoveUnder(t, w[k], owner)
  BY SameWalk, SameUnder
<1>1. Facts!RemoveItems(t, path, owner) =
        IF w[k] = Facts!Invalid THEN Facts!Result(t, {}, FALSE)
        ELSE Facts!Result(Facts!Bumped(IF k = 0 THEN r.tree ELSE P, touched),
                 r.bumped \cup touched, r.removed # {})
  BY DEF Facts!RemoveItems
<1>2. Tree!RemoveItems(t, path, owner) =
        IF w[k] = Tree!Invalid THEN Tree!Result(t, {}, FALSE)
        ELSE Tree!Result(Tree!Bumped(IF k = 0 THEN r.tree ELSE P2, touched),
                 r.bumped \cup touched, r.removed # {})
  <2> DEFINE w2 == Tree!Walk(t, path)
           r2 == Tree!RemoveUnder(t, w2[k], owner)
           touched2 == IF r2.removed = {} THEN {} ELSE {w2[i] : i \in 0 .. k - 1}
  <2>1. Tree!RemoveItems(t, path, owner) =
        IF w2[k] = Tree!Invalid THEN Tree!Result(t, {}, FALSE)
        ELSE Tree!Result(Tree!Bumped(IF k = 0 THEN r2.tree
                                     ELSE Tree!Prune(r2.tree, w2, k, w2[k] \in r2.removed), touched2),
                 r2.bumped \cup touched2, r2.removed # {})
    BY DEF Tree!RemoveItems
  <2>2. w2 = w /\ r2 = r
    BY <1>0
  <2> HIDE DEF w, r, w2, r2
  <2>3. touched2 = touched
    BY <2>2
  <2> HIDE DEF touched, touched2
  <2> QED
    BY <2>1, <2>2, <2>3
<1>3. Facts!Invalid = Tree!Invalid /\ P = P2
  BY SamePrune DEF Facts!Invalid, Tree!Invalid
<1>4. ASSUME NEW a, NEW b, NEW c PROVE Facts!Result(a, b, c) = Tree!Result(a, b, c)
  BY DEF Facts!Result, Tree!Result
<1>5. ASSUME NEW a, NEW b PROVE Facts!Bumped(a, b) = Tree!Bumped(a, b)
  BY SameBumped
<1> HIDE DEF w, r, P, P2, touched
<1> QED
  BY <1>1, <1>2, <1>3, <1>4, <1>5

\* The tree is sound, and what its nodes hold is the owners'.
Grove(t) == \E L \in SUBSET Facts!Entries : Facts!Sound(t, L) /\ Facts!NodesFilled(t)

\* Who watches a path, what is stored there, and whether either has changed.
Watched(t, p) == Facts!WatchesThere(t, p)
Stored(t, p) == Facts!DataThere(t, p)
Same(t, u, p) == Watched(u, p) = Watched(t, p) /\ Stored(u, p) = Stored(t, p)
Room(t) == Len(t.free)

\* Initially nothing is watched or stored.
LEMMA Planted ==
  ASSUME Init
  PROVE  /\ Grove(tree) /\ Room(tree) = TableSize - 1
         /\ \A p \in Seq(STRING) : Watched(tree, p) = <<>> /\ Stored(tree, p) = <<>>
<1>1. Facts!Init
  BY DEF Init, Facts!Init, Tree!EmptyTree, Facts!EmptyTree, Tree!Entries, Facts!Entries,
         Tree!Root, Facts!Root, Tree!Blank, Facts!Blank, Tree!NoName, Facts!NoName,
         Tree!Invalid, Facts!Invalid, Tree!Freed, Facts!Freed, Tree!FreeEntries, Facts!FreeEntries
<1>2. Facts!Inv
  BY <1>1, TreeFits, Facts!InitInv
     DEF Facts!TableAssumption, Facts!ValuesAssumption, Facts!PathsAssumption
<1>3. Facts!NodesFilled(tree)
  BY <1>1, TreeFits, Facts!InitFilled
     DEF Facts!TableAssumption, Facts!ValuesAssumption, Facts!PathsAssumption
<1>4. \A p \in Seq(STRING) : Watched(tree, p) = <<>> /\ Stored(tree, p) = <<>>
  <2> SUFFICES ASSUME NEW p \in Seq(STRING)
               PROVE  Watched(tree, p) = <<>> /\ Stored(tree, p) = <<>>
    OBVIOUS
  <2>1. CASE Facts!EntryAt(tree, p) = Facts!Invalid
    BY <2>1 DEF Watched, Stored, Facts!WatchesThere, Facts!DataThere
  <2>2. CASE Facts!EntryAt(tree, p) # Facts!Invalid
    <3>1. Facts!NodeAt(tree, p).data = <<>> /\ Facts!NodeAt(tree, p).watches = <<>>
      BY <1>1, <2>2, TreeFits, Facts!InitRoot
         DEF Facts!TableAssumption, Facts!ValuesAssumption, Facts!PathsAssumption
    <3> QED
      BY <2>2, <3>1 DEF Watched, Stored, Facts!WatchesThere, Facts!DataThere
  <2> QED
    BY <2>1, <2>2
<1>5. Room(tree) = TableSize - 1
  <2>1. tree.free = [i \in 1 .. TableSize - 1 |-> i]
    BY DEF Init, Tree!EmptyTree, Tree!FreeEntries
  <2>2. TableSize - 1 \in Nat
    BY MemoryAssumption
  <2> DEFINE f == [i \in 1 .. TableSize - 1 |-> i]
  <2>3. f \in Seq(Nat) /\ Len(f) = TableSize - 1
    BY <2>2
  <2> QED
    BY <2>1, <2>3 DEF Room
<1> QED
  BY <1>2, <1>3, <1>4, <1>5 DEF Grove, Facts!Inv

\* The free list of a tree is a list.
LEMMA RoomIs ==
  ASSUME NEW t, Grove(t)
  PROVE  Room(t) \in Nat
<1>1. PICK L \in SUBSET Facts!Entries : Facts!Sound(t, L)
  BY DEF Grove
<1>2. t.free \in Seq(Facts!Entries \ {Facts!Root})
  BY <1>1 DEF Facts!Sound, Facts!IsTree
<1> QED
  BY <1>2, LenProperties DEF Room

\* addWatch() adds a watch to its path, if there is room, and changes nothing elsewhere.
LEMMA Added ==
  ASSUME NEW t, Grove(t), NEW path \in Seq(STRING), NEW o \in Facts!Holders,
         NEW u, u = Tree!AddWatch(t, path, o).tree
  PROVE  /\ Grove(u)
         /\ \A p \in Seq(STRING) : p # path => Same(t, u, p)
         /\ Watched(t, path) = <<>> /\ Room(t) >= Len(path) =>
              Watched(u, path) = <<o>> /\ Stored(u, path) = Stored(t, path)
         /\ Room(u) >= Room(t) - Len(path)
<1>1. PICK L \in SUBSET Facts!Entries : Facts!Sound(t, L) /\ Facts!NodesFilled(t)
  BY DEF Grove
<1>2. u = Facts!AddWatch(t, path, o).tree
  BY SameAdd
<1>3. Facts!Keeps(t, L, u)
  BY <1>1, <1>2, TreeFits, Facts!AddWatchKeeps
     DEF Facts!TableAssumption, Facts!ValuesAssumption, Facts!PathsAssumption
<1>4. PICK K \in SUBSET Facts!Entries : Facts!Sound(u, K)
  BY <1>3 DEF Facts!Keeps
<1>5. Facts!NodesFilled(u)
  BY <1>1, <1>2, <1>4, TreeFits, Facts!AddWatchFills
     DEF Facts!TableAssumption, Facts!ValuesAssumption, Facts!PathsAssumption
<1>6. \A p \in Seq(STRING) :
        /\ p # path => Facts!SameThere(t, u, p)
        /\ p = path /\ Facts!WatchesThere(t, p) = <<>> /\ Len(t.free) >= Len(path) =>
             Facts!WatchesThere(u, p) = <<o>> /\ Facts!DataThere(u, p) = Facts!DataThere(t, p)
  BY <1>1, <1>2, TreeFits, Facts!AddWatchThere
     DEF Facts!TableAssumption, Facts!ValuesAssumption, Facts!PathsAssumption
<1>7. Len(u.free) >= Len(t.free) - Len(path)
  <2>1. \A v : Len(u.free) >= Len(t.free) - Len(path)
    BY <1>1, <1>2, TreeFits, Facts!GrowingTakes
       DEF Facts!TableAssumption, Facts!ValuesAssumption, Facts!PathsAssumption
  <2> QED
    BY <2>1
<1> QED
  BY <1>4, <1>5, <1>6, <1>7 DEF Grove, Watched, Stored, Same, Room, Facts!SameThere

\* insert() at a path that nobody watches changes nobody's watches, and data there only.
LEMMA Inserted ==
  ASSUME NEW t, Grove(t), NEW path \in Seq(STRING), NEW o, <<o, path>> \in Publish,
         NEW v \in Values, NEW u, u = Tree!Insert(t, path, o, v).tree
  PROVE  /\ Grove(u)
         /\ Watched(t, path) = <<>> =>
              \A p \in Seq(STRING) :
                 Watched(u, p) = Watched(t, p) /\ (p # path => Stored(u, p) = Stored(t, p))
         /\ Room(u) >= Room(t) - Len(path)
<1>1. PICK L \in SUBSET Facts!Entries : Facts!Sound(t, L) /\ Facts!NodesFilled(t)
  BY DEF Grove
<1>2. u = Facts!Insert(t, path, o, v).tree
  BY SameInsert
<1>3. Facts!Keeps(t, L, u)
  BY <1>1, <1>2, TreeFits, Facts!InsertKeeps
     DEF Facts!TableAssumption, Facts!ValuesAssumption, Facts!PathsAssumption
<1>4. PICK K \in SUBSET Facts!Entries : Facts!Sound(u, K)
  BY <1>3 DEF Facts!Keeps
<1>5. Facts!NodesFilled(u)
  BY <1>1, <1>2, <1>4, TreeFits, Facts!InsertFills
     DEF Facts!TableAssumption, Facts!ValuesAssumption, Facts!PathsAssumption
<1>6. Facts!WatchesThere(t, path) = <<>> =>
        \A p \in Seq(STRING) :
          /\ Facts!WatchesThere(u, p) = Facts!WatchesThere(t, p)
          /\ p # path => Facts!DataThere(u, p) = Facts!DataThere(t, p)
  BY <1>1, <1>2, TreeFits, Facts!InsertThere
     DEF Facts!TableAssumption, Facts!ValuesAssumption, Facts!PathsAssumption
<1>7. Len(u.free) >= Len(t.free) - Len(path)
  BY <1>1, <1>2, TreeFits, Facts!GrowingTakes
     DEF Facts!TableAssumption, Facts!ValuesAssumption, Facts!PathsAssumption
<1> QED
  BY <1>4, <1>5, <1>6, <1>7 DEF Grove, Watched, Stored, Room

\* remWatch() takes the only watch of its path and changes nothing elsewhere.
LEMMA Unwatched ==
  ASSUME NEW t, Grove(t), NEW path \in Seq(STRING), NEW o,
         NEW u, u = Tree!RemWatch(t, path, o).tree
  PROVE  /\ Grove(u)
         /\ \A p \in Seq(STRING) :
              /\ p # path => Same(t, u, p)
              /\ Stored(u, p) = Stored(t, p)
              /\ Watched(t, p) = <<>> => Watched(u, p) = <<>>
              /\ Watched(t, p) \in {<<>>, <<o>>} => Watched(u, p) \in {<<>>, <<o>>}
         /\ Room(u) >= Room(t)
<1>1. PICK L \in SUBSET Facts!Entries : Facts!Sound(t, L) /\ Facts!NodesFilled(t)
  BY DEF Grove
<1>2. u = Facts!RemWatch(t, path, o).tree
  BY SameRem
<1>3. Facts!Keeps(t, L, u)
  BY <1>1, <1>2, TreeFits, Facts!RemWatchKeeps
     DEF Facts!TableAssumption, Facts!ValuesAssumption, Facts!PathsAssumption
<1>4. PICK K \in SUBSET Facts!Entries : Facts!Sound(u, K)
  BY <1>3 DEF Facts!Keeps
<1>5. Facts!NodesFilled(u)
  BY <1>1, <1>2, <1>4, TreeFits, Facts!RemWatchFills
     DEF Facts!TableAssumption, Facts!ValuesAssumption, Facts!PathsAssumption
<1>6. \A p \in Seq(STRING) :
        /\ p # path => Facts!SameThere(t, u, p)
        /\ Facts!DataThere(u, p) = Facts!DataThere(t, p)
        /\ Facts!WatchesThere(t, p) = <<>> => Facts!WatchesThere(u, p) = <<>>
        /\ Facts!WatchesThere(t, p) \in {<<>>, <<o>>} =>
             Facts!WatchesThere(u, p) \in {<<>>, <<o>>}
  BY <1>1, <1>2, TreeFits, Facts!RemWatchThere
     DEF Facts!TableAssumption, Facts!ValuesAssumption, Facts!PathsAssumption
<1>7. Len(u.free) >= Len(t.free)
  BY <1>1, <1>2, TreeFits, Facts!RemovingTakesNone
     DEF Facts!TableAssumption, Facts!ValuesAssumption, Facts!PathsAssumption
<1> QED
  BY <1>4, <1>5, <1>6, <1>7 DEF Grove, Watched, Stored, Same, Room, Facts!SameThere

\* What a removal for o takes of x's watches.
Takes(x, o) == x.client = o.client /\ o.publisher \in {Tree!Everyone, x.publisher}

\* remove() takes only watches of the owner, below its path.
LEMMA Removed ==
  ASSUME NEW t, Grove(t), NEW path \in Seq(STRING), NEW o,
         NEW u, u = Tree!RemoveItems(t, path, o).tree
  PROVE  /\ Grove(u)
         /\ \A p \in Seq(STRING) :
              /\ Watched(t, p) = <<>> => Watched(u, p) = <<>>
              /\ Stored(t, p) = <<>> => Stored(u, p) = <<>>
              /\ \A x : Watched(t, p) = <<x>> /\ Stored(t, p) = <<>> =>
                   /\ Watched(u, p) \in {<<>>, <<x>>}
                   /\ ~Takes(x, o) => Watched(u, p) = <<x>>
         /\ Room(u) >= Room(t)
<1>1. PICK L \in SUBSET Facts!Entries : Facts!Sound(t, L) /\ Facts!NodesFilled(t)
  BY DEF Grove
<1>2. u = Facts!RemoveItems(t, path, o).tree
  BY SameItems
<1>3. Facts!Keeps(t, L, u)
  BY <1>1, <1>2, TreeFits, Facts!RemoveItemsKeeps
     DEF Facts!TableAssumption, Facts!ValuesAssumption, Facts!PathsAssumption
<1>4. PICK K \in SUBSET Facts!Entries : Facts!Sound(u, K)
  BY <1>3 DEF Facts!Keeps
<1>5. Facts!NodesFilled(u)
  BY <1>1, <1>2, <1>4, TreeFits, Facts!RemoveItemsFills
     DEF Facts!TableAssumption, Facts!ValuesAssumption, Facts!PathsAssumption
<1>6. ASSUME NEW p \in Seq(STRING)
      PROVE  /\ Facts!WatchesThere(t, p) = <<>> => Facts!WatchesThere(u, p) = <<>>
             /\ Facts!DataThere(t, p) = <<>> => Facts!DataThere(u, p) = <<>>
             /\ \A x : Facts!WatchesThere(t, p) = <<x>> /\ Facts!DataThere(t, p) = <<>> =>
                  /\ Facts!WatchesThere(u, p) \in {<<>>, <<x>>}
                  /\ ~Facts!Takes(x, o) => Facts!WatchesThere(u, p) = <<x>>
  BY <1>1, <1>2, TreeFits, Facts!RemoveItemsThere
     DEF Facts!TableAssumption, Facts!ValuesAssumption, Facts!PathsAssumption
<1>7. Len(u.free) >= Len(t.free)
  BY <1>1, <1>2, TreeFits, Facts!RemovingTakesNone
     DEF Facts!TableAssumption, Facts!ValuesAssumption, Facts!PathsAssumption
<1>8. \A x : Facts!Takes(x, o) <=> Takes(x, o)
  BY DEF Facts!Takes, Takes, Facts!Everyone, Tree!Everyone
<1> QED
  BY <1>4, <1>5, <1>6, <1>7, <1>8 DEF Grove, Watched, Stored, Room

\* The closest node is the same, seen from here and from there.
LEMMA SameMatched ==
  ASSUME NEW t, NEW p
  PROVE  Tree!Matched(t, p) = Facts!Matched(t, p)
BY DEF Tree!Matched, Tree!Walk, Tree!Child, Tree!Invalid, Tree!Root,
       Facts!Matched, Facts!Walk, Facts!Child, Facts!Invalid, Facts!Root

\* The way to a path: what is watched on it is what the nodes hold, up to the closest
\* node, and nothing after it.
LEMMA OnTheWay ==
  ASSUME NEW t, Grove(t), NEW p \in Seq(STRING)
  PROVE  LET w == Tree!Walk(t, p)
             m == Tree!Matched(t, p)
         IN  /\ Len(p) \in Nat /\ m \in 0 .. Len(p)
             /\ \A i \in 0 .. m : /\ t.node[w[i]].watches \in Seq(Facts!Holders)
                                  /\ Watched(t, SubSeq(p, 1, i)) = t.node[w[i]].watches
             /\ \A i \in m + 1 .. Len(p) : Watched(t, SubSeq(p, 1, i)) = <<>>
<1> DEFINE w == Facts!Walk(t, p)
           m == Facts!Matched(t, p)
           n == Len(p)
<1>1. PICK L \in SUBSET Facts!Entries : Facts!Sound(t, L) /\ Facts!NodesFilled(t)
  BY DEF Grove
<1>2. Facts!Linked(t, L)
  BY <1>1 DEF Facts!Sound
<1>3. /\ n \in Nat
      /\ \A i \in 1 .. n : w[i] # Facts!Invalid =>
           /\ w[i - 1] \in L /\ w[i] \in L /\ w[i] # Facts!Root
           /\ w[i] \in t.node[w[i - 1]].sub /\ t.node[w[i]].name = p[i]
      /\ m \in 0 .. n /\ \A i \in 0 .. m : w[i] \in L
      /\ m < n => \A c \in t.node[w[m]].sub : t.node[c].name # p[m + 1]
  BY <1>2, TreeFits, Facts!WayIs
     DEF Facts!TableAssumption, Facts!ValuesAssumption, Facts!PathsAssumption
<1>4. ASSUME NEW i \in 0 .. n
      PROVE  SubSeq(p, 1, i) \in Seq(STRING) /\ Facts!EntryAt(t, SubSeq(p, 1, i)) = w[i]
  BY <1>2, TreeFits, Facts!PrefixWay
     DEF Facts!TableAssumption, Facts!ValuesAssumption, Facts!PathsAssumption
<1>5. Facts!Invalid \notin L
  <2>1. L \subseteq 0 .. TableSize - 1 /\ TableSize \in Nat
    BY MemoryAssumption DEF Facts!Entries
  <2> QED
    BY <2>1 DEF Facts!Invalid
<1> HIDE DEF w, m, n
<1>6. ASSUME NEW i \in 0 .. m
      PROVE  /\ t.node[w[i]].watches \in Seq(Facts!Holders)
             /\ Watched(t, SubSeq(p, 1, i)) = t.node[w[i]].watches
  <2> DEFINE q == SubSeq(p, 1, i)
  <2>1. i \in 0 .. n /\ w[i] \in L
    BY <1>3
  <2>2. q \in Seq(STRING) /\ Facts!EntryAt(t, q) = w[i] /\ Facts!EntryAt(t, q) # Facts!Invalid
    BY <1>4, <1>5, <2>1
  <2> HIDE DEF q
  <2>3. Facts!Filled(Facts!NodeAt(t, q), Facts!DataAt(q), Facts!Holders)
    BY <1>1, <2>2 DEF Facts!NodesFilled
  <2>4. Facts!NodeAt(t, q).watches \in Seq(Facts!Holders)
    BY <2>3 DEF Facts!Filled
  <2>5. Watched(t, q) = t.node[w[i]].watches
    BY <2>2 DEF Watched, Facts!WatchesThere, Facts!NodeAt
  <2> QED
    BY <2>2, <2>4, <2>5 DEF Facts!NodeAt, q
<1>7. \A i \in m + 1 .. n : w[i] = Facts!Invalid
  <2> DEFINE G == {i \in 0 .. n : i > m => w[i] = Facts!Invalid}
  <2>1. 0 \in G
    BY <1>3
  <2>2. ASSUME NEW i \in 1 .. n, i - 1 \in G  PROVE i \in G
    <3>1. CASE i > m + 1
      <4>1. i - 1 > m /\ w[i - 1] = Facts!Invalid
        BY <1>3, <2>2, <3>1
      <4>2. w[i] = Facts!Invalid
        BY <1>3, <1>5, <4>1
      <4> QED
        BY <4>2
    <3>2. CASE i = m + 1
      <4>1. m < n /\ i - 1 = m
        BY <1>3, <3>2
      <4>2. w[i] # Facts!Invalid => w[i] \in t.node[w[m]].sub /\ t.node[w[i]].name = p[m + 1]
        BY <1>3, <3>2, <4>1
      <4>3. w[i] = Facts!Invalid
        BY <1>3, <4>1, <4>2
      <4> QED
        BY <4>3
    <3>3. CASE ~(i > m)
      BY <3>3
    <3> QED
      BY <1>3, <3>1, <3>2, <3>3
  <2>3. \A i \in 0 .. n : i \in G
    <3> HIDE DEF G
    <3> QED
      BY <1>3, <2>1, <2>2, TreeFits, Facts!AlongNumbers
         DEF Facts!TableAssumption, Facts!ValuesAssumption, Facts!PathsAssumption
  <2> QED
    BY <1>3, <2>3
<1>8. ASSUME NEW i \in m + 1 .. n  PROVE Watched(t, SubSeq(p, 1, i)) = <<>>
  <2>1. i \in 0 .. n
    BY <1>3
  <2>2. Facts!EntryAt(t, SubSeq(p, 1, i)) = Facts!Invalid
    BY <1>4, <1>7, <2>1
  <2> QED
    BY <2>2 DEF Watched, Facts!WatchesThere
<1>9. w = Tree!Walk(t, p) /\ m = Tree!Matched(t, p)
  BY SameWalk, SameMatched DEF w, m
<1> QED
  BY <1>3, <1>6, <1>8, <1>9 DEF n

\* What is in one list after another.
LEMMA ConcatIs ==
  ASSUME NEW X, NEW s \in Seq(X), NEW u \in Seq(X)
  PROVE  s \o u \in Seq(X) /\ ToSet(s \o u) = ToSet(s) \cup ToSet(u)
<1> DEFINE a == s \o u
           k == Len(s)
           n == Len(u)
<1>1. /\ k \in Nat /\ n \in Nat /\ DOMAIN s = 1 .. k /\ DOMAIN u = 1 .. n
  BY LenProperties
<1>2. /\ a \in Seq(X) /\ Len(a) = k + n
      /\ \A i \in 1 .. k + n : a[i] = IF i <= k THEN s[i] ELSE u[i - k]
  BY ConcatProperties
<1>3. DOMAIN a = 1 .. k + n
  <2> HIDE DEF a, k, n
  <2> QED
    BY <1>2, LenProperties
<1> HIDE DEF a, k, n
<1>4. ASSUME NEW i \in 1 .. k + n  PROVE a[i] \in ToSet(s) \cup ToSet(u)
  <2>1. CASE i <= k
    <3>1. i \in DOMAIN s /\ a[i] = s[i]
      BY <1>1, <1>2, <2>1
    <3> QED
      BY <3>1 DEF ToSet
  <2>2. CASE i > k
    <3>1. i - k \in 1 .. n /\ a[i] = u[i - k]
      BY <1>1, <1>2, <2>2
    <3> QED
      BY <1>1, <3>1 DEF ToSet
  <2> QED
    BY <1>1, <2>1, <2>2
<1>5. ASSUME NEW i \in 1 .. k  PROVE s[i] \in ToSet(a)
  <2>1. i \in 1 .. k + n /\ a[i] = s[i]
    BY <1>1, <1>2
  <2> QED
    BY <1>3, <2>1 DEF ToSet
<1>6. ASSUME NEW i \in 1 .. n  PROVE u[i] \in ToSet(a)
  <2>1. i + k \in 1 .. k + n /\ ~(i + k <= k) /\ (i + k) - k = i
    BY <1>1
  <2>2. a[i + k] = u[i]
    BY <1>2, <2>1
  <2> QED
    BY <1>3, <2>1, <2>2 DEF ToSet
<1>7. ToSet(a) \subseteq ToSet(s) \cup ToSet(u)
  BY <1>3, <1>4 DEF ToSet
<1>8. ToSet(s) \subseteq ToSet(a) /\ ToSet(u) \subseteq ToSet(a)
  BY <1>1, <1>5, <1>6 DEF ToSet
<1> QED
  BY <1>2, <1>7, <1>8 DEF a

\* watchers() finds the watches of all paths on the way, and nothing else.
LEMMA WatchersAre ==
  ASSUME NEW t, Grove(t), NEW p \in Seq(STRING)
  PROVE  /\ Watchers(t, p) \in Seq(Facts!Holders)
         /\ \A x : x \in ToSet(Watchers(t, p)) <=>
                   \E i \in 0 .. Len(p) : x \in ToSet(Watched(t, SubSeq(p, 1, i)))
<1> DEFINE w == Tree!Walk(t, p)
           m == Tree!Matched(t, p)
           n == Len(p)
           A == Facts!Holders
           h(f, i) == t.node[w[i]].watches \o IF i = 0 THEN <<>> ELSE f[i - 1]
           Is(f, k) == f = [i \in 0 .. k |-> h(f, i)]
           r == CHOOSE f : Is(f, n)
<1>1. /\ n \in Nat /\ m \in 0 .. n
      /\ \A i \in 0 .. m : /\ t.node[w[i]].watches \in Seq(A)
                           /\ Watched(t, SubSeq(p, 1, i)) = t.node[w[i]].watches
      /\ \A i \in m + 1 .. n : Watched(t, SubSeq(p, 1, i)) = <<>>
  BY OnTheWay
<1>2. Watchers(t, p) = r[m]
  BY DEF Watchers
<1> HIDE DEF w, m, n, A
<1> DEFINE G == {k \in 0 .. n : \E f : Is(f, k)}
<1>3. 0 \in G
  <2> DEFINE f == [i \in 0 .. 0 |-> h(<<>>, i)]
  <2>1. ASSUME NEW i \in 0 .. 0  PROVE h(<<>>, i) = h(f, i)
    <3>1. i = 0
      OBVIOUS
    <3> HIDE DEF f
    <3> QED
      BY <3>1
  <2>2. [i \in 0 .. 0 |-> h(<<>>, i)] = [i \in 0 .. 0 |-> h(f, i)]
    <3> HIDE DEF h, f
    <3> QED
      BY <2>1
  <2>3. Is(f, 0)
    BY <2>2
  <2>4. 0 \in 0 .. n
    BY <1>1
  <2> HIDE DEF f, Is
  <2> QED
    BY <2>3, <2>4
<1>4. ASSUME NEW k \in 1 .. n, k - 1 \in G  PROVE k \in G
  <2>1. PICK g : Is(g, k - 1)
    BY <1>4
  <2> DEFINE f == [i \in 0 .. k |-> h(g, i)]
  <2>2. \A i \in 0 .. k - 1 : f[i] = g[i]
    <3>1. \A i \in 0 .. k - 1 : i \in 0 .. k
      BY <1>1
    <3> HIDE DEF h
    <3> QED
      BY <2>1, <3>1
  <2>3. ASSUME NEW i \in 0 .. k  PROVE h(g, i) = h(f, i)
    <3>1. CASE i # 0
      <4>1. i - 1 \in 0 .. k - 1
        BY <1>1, <3>1
      <4>2. f[i - 1] = g[i - 1]
        BY <2>2, <4>1
      <4> HIDE DEF f
      <4> QED
        BY <3>1, <4>2
    <3> HIDE DEF f
    <3> QED
      BY <3>1
  <2>4. Is(f, k)
    <3>1. [i \in 0 .. k |-> h(g, i)] = [i \in 0 .. k |-> h(f, i)]
      <4> HIDE DEF h, f
      <4> QED
        BY <2>3
    <3> QED
      BY <3>1
  <2>5. k \in 0 .. n
    BY <1>1
  <2> HIDE DEF f, Is
  <2> QED
    BY <2>4, <2>5
<1>5. n \in G
  <2> HIDE DEF G
  <2>1. \A k \in 0 .. n : k \in G
    BY <1>1, <1>3, <1>4, TreeFits, Facts!AlongNumbers
       DEF Facts!TableAssumption, Facts!ValuesAssumption, Facts!PathsAssumption
  <2> QED
    BY <1>1, <2>1
<1>6. Is(r, n)
  <2> HIDE DEF Is
  <2> QED
    BY <1>5
<1> HIDE DEF r, G
<1>7. /\ r[0] = t.node[w[0]].watches \o <<>>
      /\ \A i \in 1 .. n : r[i] = t.node[w[i]].watches \o r[i - 1]
  <2>1. \A i \in 0 .. n : r[i] = h(r, i)
    <3> HIDE DEF h
    <3> QED
      BY <1>6
  <2>2. 0 \in 0 .. n /\ \A i \in 1 .. n : i \in 0 .. n /\ i # 0
    BY <1>1
  <2> QED
    BY <2>1, <2>2
<1> HIDE DEF Is, h
<1> DEFINE K == {i \in 0 .. m :
                  /\ r[i] \in Seq(A)
                  /\ ToSet(r[i]) = UNION {ToSet(t.node[w[j]].watches) : j \in 0 .. i}}
<1>8. 0 \in K
  <2>1. 0 \in 0 .. m /\ t.node[w[0]].watches \in Seq(A)
    BY <1>1
  <2>2. r[0] = t.node[w[0]].watches
    BY <1>7, <2>1, ConcatEmptySeq
  <2>3. 0 .. 0 = {0}
    OBVIOUS
  <2> QED
    BY <2>1, <2>2, <2>3
<1>9. ASSUME NEW i \in 1 .. m, i - 1 \in K  PROVE i \in K
  <2>1. i \in 0 .. m /\ i \in 1 .. n /\ t.node[w[i]].watches \in Seq(A)
    BY <1>1
  <2>2. /\ r[i - 1] \in Seq(A)
        /\ ToSet(r[i - 1]) = UNION {ToSet(t.node[w[j]].watches) : j \in 0 .. i - 1}
    BY <1>9
  <2>3. /\ r[i] \in Seq(A)
        /\ ToSet(r[i]) = ToSet(t.node[w[i]].watches) \cup ToSet(r[i - 1])
    <3>1. r[i] = t.node[w[i]].watches \o r[i - 1]
      BY <1>7, <2>1
    <3> HIDE DEF K
    <3> QED
      BY <2>1, <2>2, <3>1, ConcatIs
  <2>4. 0 .. i = (0 .. i - 1) \cup {i}
    BY <2>1, <1>1
  <2>5. UNION {ToSet(t.node[w[j]].watches) : j \in 0 .. i}
        = ToSet(t.node[w[i]].watches) \cup UNION {ToSet(t.node[w[j]].watches) : j \in 0 .. i - 1}
    BY <2>4
  <2> QED
    BY <2>1, <2>2, <2>3, <2>5
<1>10. m \in K
  <2> HIDE DEF K
  <2>1. m \in Nat
    BY <1>1
  <2>2. \A i \in 0 .. m : i \in K
    BY <1>8, <1>9, <2>1, TreeFits, Facts!AlongNumbers
       DEF Facts!TableAssumption, Facts!ValuesAssumption, Facts!PathsAssumption
  <2> QED
    BY <2>1, <2>2
<1>11. r[m] \in Seq(A) /\ ToSet(r[m]) = UNION {ToSet(t.node[w[j]].watches) : j \in 0 .. m}
  BY <1>10
<1>12. ASSUME NEW x
       PROVE  x \in ToSet(r[m]) <=> \E i \in 0 .. n : x \in ToSet(Watched(t, SubSeq(p, 1, i)))
  <2>1. x \in ToSet(r[m]) <=> \E j \in 0 .. m : x \in ToSet(t.node[w[j]].watches)
    BY <1>11
  <2>2. \A j \in 0 .. m : j \in 0 .. n /\ Watched(t, SubSeq(p, 1, j)) = t.node[w[j]].watches
    BY <1>1
  <2>3. ASSUME NEW i \in 0 .. n, x \in ToSet(Watched(t, SubSeq(p, 1, i)))
        PROVE  i \in 0 .. m
    <3>1. i \notin m + 1 .. n
      <4>1. x \notin ToSet(<<>>)
        BY DEF ToSet
      <4> QED
        BY <1>1, <2>3, <4>1
    <3> QED
      BY <1>1, <3>1
  <2> QED
    BY <2>1, <2>2, <2>3
<1> QED
  BY <1>2, <1>11, <1>12 DEF n, A

\* What a finite set is turned into is finite.
LEMMA ImageFinite ==
  ASSUME NEW S, IsFiniteSet(S), NEW f, DOMAIN f = S, NEW T, T = {f[x] : x \in S}
  PROVE  IsFiniteSet(T)
<1> DEFINE g == [x \in S |-> f[x]]
<1>1. g \in [S -> T] /\ \A y \in T : \E x \in S : g[x] = y
  OBVIOUS
<1>2. g \in Surjection(S, T)
  BY <1>1 DEF Surjection
<1> QED
  BY <1>2, FS_Surjection

\* A finite set in some order is a sequence of its elements.
LEMMA SetToSeqIs ==
  ASSUME NEW S, IsFiniteSet(S)
  PROVE  SetToSeq(S) \in Seq(S) /\ ToSet(SetToSeq(S)) = S
<1> DEFINE n == Cardinality(S)
           f == SetToSeq(S)
<1>1. n \in Nat /\ ExistsBijection(1 .. n, S)
  BY FS_CardinalityType
<1>2. \E g \in [1 .. n -> S] : IsInjective(g)
  BY <1>1 DEF ExistsBijection, Bijection, Injection
<1>3. f \in [1 .. n -> S] /\ IsInjective(f)
  BY <1>2 DEF SetToSeq
<1> HIDE DEF f
<1>4. f \in Injection(1 .. n, S)
  BY <1>3 DEF Injection
<1>5. Cardinality(1 .. n) = n
  BY <1>1, FS_Interval
<1>6. f \in Surjection(1 .. n, S)
  BY <1>4, <1>5, FS_Injection
<1>7. ToSet(f) = S
  BY <1>3, <1>6 DEF ToSet, Surjection
<1>8. f \in Seq(S)
  BY <1>1, <1>3
<1> QED
  BY <1>7, <1>8 DEF f

-----------------------------------------------------------------------------
(* Notices.                                                                *)

Notices == [to : Facts!Holders, path : InterestPaths, interested : BOOLEAN]

\* The types of what notices are sent by and what they change.
Tales ==
  /\ toClient \in [Clients -> Seq(Notices)]
  /\ told \in [Owners -> [InterestPaths -> BOOLEAN]]

\* The paths of interest are finitely many names' sequences.
LEMMA PathsFinite == IsFiniteSet(InterestPaths) /\ InterestPaths \subseteq Seq(STRING)
<1> DEFINE f == [x \in Subscribers |-> x.path]
<1>1. InterestPaths = {f[x] : x \in Subscribers} /\ DOMAIN f = Subscribers
  BY DEF InterestPaths
<1>2. IsFiniteSet(Subscribers)
  BY RangeAssumption
<1> HIDE DEF f
<1>3. IsFiniteSet(InterestPaths)
  BY <1>1, <1>2, ImageFinite
<1> QED
  BY <1>3, SubscriberAssumption DEF InterestPaths

\* The notices of a change of interest are finitely many.
LEMMA ChangeNotices ==
  ASSUME NEW t, Grove(t), NEW p \in InterestPaths, NEW b \in BOOLEAN
  PROVE  LET N == {[to |-> o, path |-> p, interested |-> b] : o \in Addressed(Watchers(t, p))}
         IN N \subseteq Notices /\ IsFiniteSet(N)
<1> DEFINE owners == Watchers(t, p)
           N == {[to |-> o, path |-> p, interested |-> b] : o \in Addressed(owners)}
           J == {j \in DOMAIN owners : owners[j].client = Server \/
                   \A l \in 1 .. j - 1 : owners[l].client # owners[j].client}
           f == [j \in J |-> [to |-> owners[j], path |-> p, interested |-> b]]
<1>1. owners \in Seq(Facts!Holders)
  BY PathsFinite, WatchersAre
<1>2. Len(owners) \in Nat /\ DOMAIN owners = 1 .. Len(owners)
      /\ \A j \in DOMAIN owners : owners[j] \in Facts!Holders
  <2> HIDE DEF owners
  <2> QED
    BY <1>1, LenProperties, ElementOfSeq
<1>3. IsFiniteSet(J)
  <2>1. IsFiniteSet(DOMAIN owners) /\ J \in SUBSET DOMAIN owners
    BY <1>2, FS_Interval
  <2> QED
    BY <2>1, FS_Subset
<1>4. N = {f[j] : j \in J}
  BY DEF Addressed
<1>5. N \subseteq Notices
  BY <1>2 DEF Notices, Addressed
<1>6. DOMAIN f = J
  OBVIOUS
<1> HIDE DEF N, J, f
<1>7. IsFiniteSet(N)
  BY <1>3, <1>4, <1>6, ImageFinite
<1> QED
  BY <1>5, <1>7 DEF N

\* So are those of a new watch.
LEMMA WatchNotices ==
  ASSUME NEW t, NEW o \in Facts!Holders
  PROVE  LET N == {[to |-> o, path |-> p, interested |-> TRUE] : p \in ToldBefore(t, o)}
         IN N \subseteq Notices /\ IsFiniteSet(N)
<1> DEFINE P == ToldBefore(t, o)
           N == {[to |-> o, path |-> p, interested |-> TRUE] : p \in P}
           f == [p \in P |-> [to |-> o, path |-> p, interested |-> TRUE]]
<1>1. P \in SUBSET InterestPaths
  BY DEF ToldBefore
<1>2. IsFiniteSet(P)
  BY <1>1, PathsFinite, FS_Subset
<1>3. N = {f[p] : p \in P} /\ DOMAIN f = P
  OBVIOUS
<1>4. N \subseteq Notices
  <2>1. TRUE \in BOOLEAN
    OBVIOUS
  <2>2. \A p \in P : [to |-> o, path |-> p, interested |-> TRUE] \in Notices
    <3> HIDE DEF P
    <3> QED
      BY <1>1, <2>1 DEF Notices
  <2> HIDE DEF P
  <2> QED
    BY <2>2
<1> HIDE DEF N, f, P
<1>5. IsFiniteSet(N)
  BY <1>2, <1>3, ImageFinite
<1> QED
  BY <1>4, <1>5 DEF N, P

\* What publishers have heard, heard something or not.
LEMMA HeardType ==
  ASSUME Tales, NEW N, N \subseteq Notices, NEW l
  PROVE  Heard(N, l) \in [Owners -> [InterestPaths -> BOOLEAN]]
<1>1. ASSUME NEW o \in Owners, NEW p \in InterestPaths
      PROVE  LET mine == {n \in N : n.to = o /\ n.path = p}
             IN (IF mine = {} \/ o \notin l \/ ~Concerns(o, p) THEN told[o][p]
                 ELSE (CHOOSE n \in mine : TRUE).interested) \in BOOLEAN
  <2> DEFINE mine == {n \in N : n.to = o /\ n.path = p}
  <2>1. told[o][p] \in BOOLEAN
    BY DEF Tales
  <2>2. \A n \in mine : n.interested \in BOOLEAN
    BY DEF Notices
  <2>3. mine # {} => (CHOOSE n \in mine : TRUE) \in mine
    <3> HIDE DEF mine
    <3> QED
      OBVIOUS
  <2> HIDE DEF mine
  <2> QED
    BY <2>1, <2>2, <2>3 DEF mine
<1> QED
  BY <1>1 DEF Heard

\* Telling finitely many notices keeps the types.
LEMMA TellType ==
  ASSUME Tales, NEW N, N \subseteq Notices, IsFiniteSet(N), NEW l, Tell(N, l)
  PROVE  /\ Tales'
         /\ told' = Heard({n \in N : n.to.client = Server}, l)
         /\ \A c \in Clients :
              LET S == {n \in N : n.to.client = c}
              IN IF c \in gone THEN toClient'[c] = toClient[c]
                 ELSE /\ toClient'[c] = toClient[c] \o SetToSeq(S)
                      /\ SetToSeq(S) \in Seq(Notices) /\ ToSet(SetToSeq(S)) = S
<1>1. /\ told' = Heard({n \in N : n.to.client = Server}, l)
      /\ toClient' = [c \in Clients |->
           IF c \in gone THEN toClient[c]
           ELSE toClient[c] \o SetToSeq({n \in N : n.to.client = c})]
  BY DEF Tell
<1>2. told' \in [Owners -> [InterestPaths -> BOOLEAN]]
  BY <1>1, HeardType
<1>3. ASSUME NEW c \in Clients
      PROVE  LET S == {n \in N : n.to.client = c}
             IN SetToSeq(S) \in Seq(Notices) /\ ToSet(SetToSeq(S)) = S
  <2> DEFINE S == {n \in N : n.to.client = c}
  <2>1. S \in SUBSET N /\ S \subseteq Notices
    OBVIOUS
  <2> HIDE DEF S
  <2>2. SetToSeq(S) \in Seq(S) /\ ToSet(SetToSeq(S)) = S
    BY <2>1, FS_Subset, SetToSeqIs
  <2>3. SetToSeq(S) \in Seq(Notices)
    BY <2>1, <2>2
  <2> QED
    BY <2>2, <2>3 DEF S
<1>4. toClient' \in [Clients -> Seq(Notices)]
  <2>1. ASSUME NEW c \in Clients
        PROVE  (IF c \in gone THEN toClient[c]
                ELSE toClient[c] \o SetToSeq({n \in N : n.to.client = c})) \in Seq(Notices)
    <3> DEFINE q == SetToSeq({n \in N : n.to.client = c})
    <3>1. toClient[c] \in Seq(Notices) /\ q \in Seq(Notices)
      BY <1>3 DEF Tales
    <3> HIDE DEF q
    <3>2. toClient[c] \o q \in Seq(Notices)
      BY <3>1, ConcatProperties
    <3> QED
      BY <3>1, <3>2 DEF q
  <2> QED
    BY <1>1, <2>1
<1> QED
  BY <1>1, <1>2, <1>3, <1>4 DEF Tales

-----------------------------------------------------------------------------
(* What publishers ask for.                                                *)

Stages == {"unconnected", "watching", "set", "leaving", "destroyed"}
\* How far a publisher has got that has made a request of that kind.
Reached(kind) ==
  IF kind = "watch" THEN Stages \ {"unconnected"}
  ELSE IF kind = "set" THEN {"set", "leaving", "destroyed"}
  ELSE IF kind = "remove" THEN {"leaving", "destroyed"}
  ELSE {"destroyed"}

\* A request of a publisher of c, which has got so far.
Made(r, c, pubs) ==
  /\ r.owner \in Owners /\ r.owner.client = c
  /\ r.path = IF r.kind = "set" THEN Attribute(r.owner) ELSE PathOf[r.owner]
  /\ r.kind = "set" => r.owner \in Setters
  /\ pubs[r.owner] \in Reached(r.kind)

\* A queue has such requests of publishers only; a watch and a value are asked for once.
Rare == {"watch", "set"}
Asked(q, c, pubs) ==
  /\ \A i \in 1 .. Len(q) : q[i].kind \notin Notifies => Made(q[i], c, pubs)
  /\ \A i, j \in 1 .. Len(q) :
       q[i].kind \in Rare /\ q[i].kind = q[j].kind /\ q[i].owner = q[j].owner => i = j

\* No publisher goes back.
Onward(old, new) == \A o \in Owners, k \in Kinds : old[o] \in Reached(k) => new[o] \in Reached(k)

\* A request that is made stays made.
LEMMA MadeOnward ==
  ASSUME NEW r, r.kind \in Kinds, NEW c, NEW pubs, NEW new, Onward(pubs, new), Made(r, c, pubs)
  PROVE  Made(r, c, new)
BY DEF Made, Onward

\* What the queue says of publishers goes on being so when they get further.
LEMMA AskedOnward ==
  ASSUME NEW q \in Seq(Requests), NEW c, NEW pubs, NEW new, Onward(pubs, new), Asked(q, c, pubs)
  PROVE  Asked(q, c, new)
<1>1. ASSUME NEW i \in 1 .. Len(q)  PROVE q[i].kind \in Kinds
  <2>1. q[i] \in Requests
    BY ElementOfSeq
  <2> QED
    BY <2>1 DEF Requests
<1> QED
  BY <1>1, MadeOnward DEF Asked

\* Serving a request leaves such a queue.
LEMMA AskedTail ==
  ASSUME NEW q \in Seq(Requests), q # <<>>, NEW c, NEW pubs, Asked(q, c, pubs)
  PROVE  /\ Asked(Tail(q), c, pubs)
         /\ Head(q) \in Requests /\ (Head(q).kind \notin Notifies => Made(Head(q), c, pubs))
<1> DEFINE t == Tail(q)
           n == Len(q)
<1>1. /\ n \in Nat /\ n > 0 /\ Len(t) = n - 1 /\ q[1] = Head(q) /\ Head(q) \in Requests
      /\ \A i \in 1 .. Len(t) : t[i] = q[i + 1]
  <2>1. Len(q) \in Nat /\ Len(q) > 0
    BY EmptySeq, LenProperties
  <2>2. q[1] = Head(q)
    OBVIOUS
  <2> QED
    BY <2>1, <2>2, HeadTailProperties
<1> HIDE DEF t
<1>2. \A i \in 1 .. Len(t) : i + 1 \in 1 .. Len(q) /\ t[i] = q[i + 1]
  BY <1>1
<1>3. \A i \in 1 .. Len(t) : t[i].kind \notin Notifies => Made(t[i], c, pubs)
  BY <1>2 DEF Asked
<1>4. ASSUME NEW i \in 1 .. Len(t), NEW j \in 1 .. Len(t),
             t[i].kind \in Rare, t[i].kind = t[j].kind, t[i].owner = t[j].owner
      PROVE  i = j
  <2>1. i + 1 = j + 1
    BY <1>2, <1>4 DEF Asked
  <2>2. i \in Int /\ j \in Int
    BY <1>1
  <2> QED
    BY <2>1, <2>2
<1>5. Head(q).kind \notin Notifies => Made(Head(q), c, pubs)
  BY <1>1 DEF Asked
<1> QED
  BY <1>1, <1>3, <1>4, <1>5 DEF Asked, t

\* So does making one more, a watch or a value one that is not there.
LEMMA AskedAppend ==
  ASSUME NEW q \in Seq(Requests), NEW r \in Requests, NEW c, NEW pubs, Asked(q, c, pubs),
         r.kind \notin Notifies => Made(r, c, pubs),
         r.kind \in Rare => ~Pending(q, r.kind, r.owner)
  PROVE  Asked(Append(q, r), c, pubs)
<1> DEFINE a == Append(q, r)
           n == Len(q)
<1>1. n \in Nat /\ Len(a) = n + 1 /\ a[n + 1] = r /\ \A i \in 1 .. n : a[i] = q[i]
  BY AppendProperties
<1> HIDE DEF a
<1>2. ASSUME NEW i \in 1 .. Len(a)
      PROVE  \/ i \in 1 .. Len(q) /\ a[i] = q[i]
             \/ i = n + 1 /\ a[i] = r
  BY <1>1
<1>3. \A i \in 1 .. Len(a) : a[i].kind \notin Notifies => Made(a[i], c, pubs)
  BY <1>2 DEF Asked
<1>4. ASSUME NEW i \in 1 .. Len(a), NEW j \in 1 .. Len(a),
             a[i].kind \in Rare, a[i].kind = a[j].kind, a[i].owner = a[j].owner
      PROVE  i = j
  <2>1. CASE i \in 1 .. Len(q) /\ a[i] = q[i] /\ j \in 1 .. Len(q) /\ a[j] = q[j]
    BY <1>4, <2>1 DEF Asked
  <2>2. CASE i \in 1 .. Len(q) /\ a[i] = q[i] /\ j = n + 1 /\ a[j] = r
    BY <1>4, <2>2 DEF Pending
  <2>3. CASE i = n + 1 /\ a[i] = r /\ j \in 1 .. Len(q) /\ a[j] = q[j]
    BY <1>4, <2>3 DEF Pending
  <2>4. CASE i = n + 1 /\ j = n + 1
    BY <2>4
  <2> QED
    BY <1>2, <2>1, <2>2, <2>3, <2>4
<1> QED
  BY <1>3, <1>4 DEF Asked, a

\* One that is not made yet is not there.
LEMMA NotAsked ==
  ASSUME NEW q, NEW c, NEW pubs, Asked(q, c, pubs), NEW o, NEW k \in Kinds \ Notifies,
         pubs[o] \notin Reached(k)
  PROVE  ~Pending(q, k, o)
<1> SUFFICES ASSUME NEW i \in 1 .. Len(q), q[i].kind = k, q[i].owner = o
             PROVE  FALSE
  BY DEF Pending
<1>1. Made(q[i], c, pubs)
  BY DEF Asked
<1> QED
  BY <1>1 DEF Made

-----------------------------------------------------------------------------
(* Types.                                                                  *)

\* A request that the server may get from a process.
Fit(r, c, pubs) ==
  /\ r \in Requests
  /\ r.kind \in Notifies => r.path \in InterestPaths
  /\ r.kind \notin Notifies => Made(r, c, pubs)

\* Publishers may watch.
LEMMA OwnersHold == Owners \subseteq Facts!Holders
<1> SUFFICES ASSUME NEW o \in Owners  PROVE o \in Facts!Holders
  OBVIOUS
<1> DEFINE x == <<o, PathOf[o]>>
<1>1. x \in Watch /\ x[1] = o
  BY DEF Watch
<1> HIDE DEF x
<1> QED
  BY <1>1 DEF Facts!Holders

\* Whatever the server does for a request leaves a sound tree and notices.
LEMMA HandleKeeps ==
  ASSUME Tales, Grove(tree), NEW r, NEW c, NEW pubs, Fit(r, c, pubs),
         NEW from, NEW l, Handle(r, from, l)
  PROVE  Tales' /\ Grove(tree')
<1>1. CASE r.kind = "watch"
  <2>1. Made(r, c, pubs)
    BY <1>1 DEF Fit, Notifies
  <2>2. r.owner \in Facts!Holders /\ r.path \in Seq(STRING)
    <3>1. r.owner \in Owners /\ r.path = PathOf[r.owner]
      BY <1>1, <2>1 DEF Made
    <3>2. r.path \in Seq(STRING)
      BY <3>1, PublisherAssumption
    <3> QED
      BY <3>1, <3>2, OwnersHold
  <2>3. /\ tree' = Tree!AddWatch(tree, r.path, r.owner).tree
        /\ Tell({[to |-> r.owner, path |-> p, interested |-> TRUE] :
                     p \in ToldBefore(tree', r.owner)}, l)
    BY <1>1 DEF Handle, Notifies
  <2>4. Grove(tree')
    BY <2>2, <2>3, Added
  <2>5. LET N == {[to |-> r.owner, path |-> p, interested |-> TRUE] :
                     p \in ToldBefore(tree', r.owner)}
        IN N \subseteq Notices /\ IsFiniteSet(N)
    BY <2>2, WatchNotices
  <2>6. Tales'
    BY <2>3, <2>5, TellType
  <2> QED
    BY <2>4, <2>6
<1>2. CASE r.kind = "unwatch"
  <2>1. r.path \in Seq(STRING)
    BY <1>2, PublisherAssumption DEF Fit, Made, Notifies
  <2>2. tree' = Tree!RemWatch(tree, r.path, r.owner).tree /\ UNCHANGED <<toClient, told>>
    BY <1>2 DEF Handle, Notifies
  <2> QED
    BY <2>1, <2>2, Unwatched DEF Tales
<1>3. CASE r.kind = "set"
  <2>1. /\ r.path \in Seq(STRING) /\ <<r.owner, r.path>> \in Publish
    BY <1>3, PublisherAssumption DEF Fit, Made, Notifies, Publish
  <2>2. PICK v \in Values : tree' = Tree!Insert(tree, r.path, r.owner, v).tree
    BY <1>3 DEF Handle, Notifies
  <2>3. UNCHANGED <<toClient, told>>
    BY <1>3 DEF Handle, Notifies
  <2>4. Grove(tree')
    BY <2>1, <2>2, Inserted
  <2> QED
    BY <2>3, <2>4 DEF Tales
<1>4. CASE r.kind = "remove"
  <2>1. r.path \in Seq(STRING)
    BY <1>4, PublisherAssumption DEF Fit, Made, Notifies
  <2>2. tree' = Tree!RemoveItems(tree, r.path, r.owner).tree /\ UNCHANGED <<toClient, told>>
    BY <1>4 DEF Handle, Notifies
  <2> QED
    BY <2>1, <2>2, Removed DEF Tales
<1>5. CASE r.kind \in Notifies
  <2> DEFINE b == r.kind = "interest"
             owners == Addressed(Watchers(tree, r.path))
             M == {[to |-> o, path |-> r.path, interested |-> b] : o \in owners}
  <2>1. DoNotify(r.path, from, b, l)
    BY <1>5 DEF Handle, Notifies
  <2>2. UNCHANGED tree /\ \E N \in {M, {}} : Tell(N, l)
    BY <2>1 DEF DoNotify
  <2>3. b \in BOOLEAN /\ r.path \in InterestPaths
    BY <1>5 DEF Fit
  <2>4. M \subseteq Notices /\ IsFiniteSet(M)
    <3> HIDE DEF b
    <3> QED
      BY <2>3, ChangeNotices
  <2>5. {} \subseteq Notices /\ IsFiniteSet({})
    BY FS_EmptySet
  <2> HIDE DEF M
  <2>6. Tales'
    BY <2>2, <2>4, <2>5, TellType
  <2> QED
    BY <2>2, <2>6
<1> QED
  BY <1>1, <1>2, <1>3, <1>4, <1>5 DEF Handle, Notifies

\* Whatever a process asks for does.
LEMMA AskKeeps ==
  ASSUME Tales, Grove(tree), NEW proc, NEW r, NEW pubs, Fit(r, proc, pubs), NEW l, Ask(proc, r, l)
  PROVE  Tales' /\ Grove(tree')
<1>1. CASE proc = Server
  BY <1>1, HandleKeeps DEF Ask
<1>2. CASE proc # Server
  <2>1. UNCHANGED <<tree, toClient, told>>
    BY <1>2 DEF Ask
  <2> QED
    BY <2>1 DEF Tales
<1> QED
  BY <1>1, <1>2

\* How far publishers have got agrees with what they have asked for.
Lives ==
  /\ publishers \in [Owners -> Stages]
  /\ gone \subseteq Mortal /\ watchObjects \subseteq Owners
  /\ \A c \in Clients : Asked(toServer[c], c, publishers)

\* The invariant of the types.
Sane == Types /\ Queues /\ Counts /\ Lives /\ Tales /\ Grove(tree)

\* Initially nobody has asked for anything.
LEMMA InitSane ==
  ASSUME Init
  PROVE  Sane
<1>1. Types /\ Queues /\ Counts /\ Grove(tree)
  BY InitInv, Planted
<1>2. Lives
  <2>1. \A c \in Clients : toServer[c] = <<>>
    BY DEF Init
  <2>2. \A c : Asked(<<>>, c, publishers)
    <3>1. Len(<<>>) = 0
      BY EmptySeq
    <3> QED
      BY <3>1 DEF Asked
  <2> QED
    BY <2>1, <2>2 DEF Init, Lives, Stages
<1>3. Tales
  <2>1. toClient \in [Clients -> Seq(Notices)]
    BY EmptySeq DEF Init
  <2>2. told \in [Owners -> [InterestPaths -> BOOLEAN]]
    BY DEF Init
  <2> QED
    BY <2>1, <2>2 DEF Tales
<1> QED
  BY <1>1, <1>2, <1>3 DEF Sane

\* What a publisher asks for, and where.
Request(k, o) == Asks(k, o, IF k = "set" THEN Attribute(o) ELSE PathOf[o])

\* A publisher gets on and asks for something.
GetsOn(o, k, s, l) ==
  /\ publishers' = [publishers EXCEPT ![o] = s]
  /\ s \in Reached(k) /\ Onward(publishers, publishers')
  /\ k \in Rare => publishers[o] \notin Reached(k)
  /\ k = "set" => o \in Setters
  /\ Ask(o.client, Request(k, o), l)

\* The four steps of its life do that.
LEMMA LifeIs ==
  ASSUME Lives, NEW o \in Owners,
         Connect(o) \/ SetValue(o) \/ RemoveSubTree(o) \/ RemoveWatches(o)
  PROVE  \E k \in Kinds \ Notifies, s \in Stages : \E l : GetsOn(o, k, s, l)
<1>0. publishers \in [Owners -> Stages]
  BY DEF Lives
<1>1. CASE Connect(o)
  <2>1. Onward(publishers, publishers')
    BY <1>0, <1>1 DEF Connect, Onward, Reached, Stages
  <2>2. GetsOn(o, "watch", "watching", watchObjects')
    BY <1>1, <2>1 DEF Connect, GetsOn, Request, Reached, Stages, Rare
  <2> QED
    BY <2>2 DEF Kinds, Notifies, Stages
<1>2. CASE SetValue(o)
  <2>1. Onward(publishers, publishers')
    BY <1>0, <1>2 DEF SetValue, Onward, Reached, Stages
  <2>2. GetsOn(o, "set", "set", watchObjects)
    BY <1>2, <2>1 DEF SetValue, GetsOn, Request, Reached, Stages, Rare
  <2> QED
    BY <2>2 DEF Kinds, Notifies, Stages
<1>3. CASE RemoveSubTree(o)
  <2>1. Onward(publishers, publishers')
    BY <1>0, <1>3 DEF RemoveSubTree, Onward, Reached, Stages
  <2>2. GetsOn(o, "remove", "leaving", watchObjects)
    BY <1>3, <2>1 DEF RemoveSubTree, GetsOn, Request, Reached, Stages, Rare
  <2> QED
    BY <2>2 DEF Kinds, Notifies, Stages
<1>4. CASE RemoveWatches(o)
  <2>1. Onward(publishers, publishers')
    BY <1>0, <1>4 DEF RemoveWatches, Onward, Reached, Stages
  <2>2. GetsOn(o, "unwatch", "destroyed", watchObjects')
    BY <1>4, <2>1 DEF RemoveWatches, GetsOn, Request, Reached, Stages, Rare
  <2> QED
    BY <2>2 DEF Kinds, Notifies, Stages
<1> QED
  BY <1>1, <1>2, <1>3, <1>4

\* Then its request is one the server may get, and waits as it should.
LEMMA GetsOnSane ==
  ASSUME Sane, NEW o \in Owners, NEW k \in Kinds \ Notifies, NEW s, NEW l, GetsOn(o, k, s, l)
  PROVE  /\ Fit(Request(k, o), o.client, publishers')
         /\ \A c \in Clients : Asked(toServer[c], c, publishers)'
         /\ Tales' /\ Grove(tree')
<1> DEFINE r == Request(k, o)
<1>1. /\ r \in Requests /\ r.kind = k /\ r.owner = o
      /\ r.path = IF k = "set" THEN Attribute(o) ELSE PathOf[o]
  BY DEF Request, Asks, Requests
<1>2. publishers'[o] = s
  BY DEF GetsOn, Sane, Lives
<1> HIDE DEF r
<1>3. Made(r, o.client, publishers')
  BY <1>1, <1>2 DEF Made, GetsOn
<1>4. Fit(r, o.client, publishers')
  BY <1>1, <1>3 DEF Fit
<1>5. Ask(o.client, r, l) /\ Onward(publishers, publishers')
  BY DEF GetsOn, r
<1>6. Tales' /\ Grove(tree')
  BY <1>4, <1>5, AskKeeps DEF Sane
<1>7. ASSUME NEW c \in Clients
      PROVE  Asked(toServer'[c], c, publishers')
  <2>1. toServer[c] \in Seq(Requests) /\ Asked(toServer[c], c, publishers)
    BY DEF Sane, Types, Lives
  <2>2. Asked(toServer[c], c, publishers')
    BY <1>5, <2>1, AskedOnward
  <2>3. CASE c = o.client
    <3>1. c # Server
      BY ProcessAssumption
    <3>2. toServer'[c] = Append(toServer[c], r)
      BY <1>5, <2>3, <3>1 DEF Ask, Sane, Types
    <3>3. k \in Rare => ~Pending(toServer[c], k, o)
      BY <2>1, NotAsked DEF GetsOn
    <3>4. Asked(Append(toServer[c], r), c, publishers')
      BY <1>1, <1>3, <2>1, <2>2, <2>3, <3>3, AskedAppend
    <3> QED
      BY <3>2, <3>4
  <2>4. CASE c # o.client
    <3>1. toServer'[c] = toServer[c]
      BY <1>5, <2>4 DEF Ask, Sane, Types
    <3> QED
      BY <2>2, <3>1
  <2> QED
    BY <2>3, <2>4
<1> QED
  BY <1>4, <1>6, <1>7 DEF r

\* Every step keeps the types.
LEMMA SaneStep ==
  ASSUME Sane, [Next]_vars
  PROVE  Sane'
<1>1. Types' /\ Queues' /\ Counts'
  BY Step DEF Sane
<1>2. ASSUME NEW o \in Owners, Connect(o) \/ SetValue(o) \/ RemoveSubTree(o) \/ RemoveWatches(o)
      PROVE  Lives' /\ Tales' /\ Grove(tree')
  <2>1. PICK k \in Kinds \ Notifies, s \in Stages : \E l : GetsOn(o, k, s, l)
    BY <1>2, LifeIs DEF Sane
  <2>2. /\ \A c \in Clients : Asked(toServer[c], c, publishers)'
        /\ Tales' /\ Grove(tree')
    BY <2>1, GetsOnSane
  <2>3. publishers' \in [Owners -> Stages]
    BY <2>1 DEF GetsOn, Sane, Lives
  <2>4. gone' = gone /\ watchObjects' \subseteq watchObjects \cup {o}
    BY <1>2 DEF Connect, SetValue, RemoveSubTree, RemoveWatches, NoLongerWatched
  <2> QED
    BY <2>2, <2>3, <2>4 DEF Lives, Sane
<1>3. ASSUME NEW x \in Subscribers, Subscribe(x) \/ Unsubscribe(x)
      PROVE  Lives' /\ Tales' /\ Grove(tree')
  <2>1. PICK k \in Notifies : Ask(x.client, Asks(k, x, x.path), watchObjects)
    BY <1>3 DEF Subscribe, Unsubscribe, Notifies
  <2> DEFINE r == Asks(k, x, x.path)
  <2>2. r \in Requests /\ r.kind = k /\ r.path \in InterestPaths
    BY DEF Asks, Requests, Kinds, InterestPaths
  <2>3. UNCHANGED <<publishers, gone, watchObjects>>
    BY <1>3 DEF Subscribe, Unsubscribe
  <2> HIDE DEF r
  <2>4. Fit(r, x.client, publishers)
    BY <2>2 DEF Fit
  <2>5. Tales' /\ Grove(tree')
    BY <2>1, <2>4, AskKeeps DEF Sane, r
  <2>6. ASSUME NEW c \in Clients
        PROVE  Asked(toServer'[c], c, publishers)
    <3>1. toServer[c] \in Seq(Requests) /\ Asked(toServer[c], c, publishers)
      BY DEF Sane, Types, Lives
    <3>2. Asked(Append(toServer[c], r), c, publishers)
      BY <2>2, <3>1, AskedAppend DEF Rare, Notifies
    <3>3. toServer'[c] \in {toServer[c], Append(toServer[c], r)}
      BY <2>1 DEF Ask, Sane, Types, r
    <3> QED
      BY <3>1, <3>2, <3>3
  <2> QED
    BY <2>3, <2>5, <2>6 DEF Lives, Sane
<1>4. ASSUME NEW c0 \in Clients, Serve(c0)
      PROVE  Lives' /\ Tales' /\ Grove(tree')
  <2> DEFINE q == toServer[c0]
             r == Head(q)
  <2>1. /\ q \in Seq(Requests) /\ q # <<>> /\ Asked(q, c0, publishers)
        /\ Proper(q, c0, subscribers)
    BY <1>4 DEF Serve, Sane, Types, Lives, Queues
  <2>2. /\ toServer' = [toServer EXCEPT ![c0] = Tail(q)]
        /\ Handle(r, c0, watchObjects)
        /\ UNCHANGED <<publishers, gone, watchObjects>>
    BY <1>4 DEF Serve, lives
  <2> HIDE DEF q
  <2>3. /\ Asked(Tail(q), c0, publishers)
        /\ r \in Requests /\ (r.kind \notin Notifies => Made(r, c0, publishers))
    BY <2>1, AskedTail
  <2>4. r.kind \in Notifies => r.path \in InterestPaths
    BY <2>1, HeadAbout DEF InterestPaths
  <2> HIDE DEF r
  <2>5. Tales' /\ Grove(tree')
    BY <2>2, <2>3, <2>4, HandleKeeps DEF Sane, Fit
  <2>6. \A c \in Clients : Asked(toServer'[c], c, publishers)
    BY <2>2, <2>3 DEF Sane, Types, Lives
  <2> QED
    BY <2>2, <2>5, <2>6 DEF Lives, Sane
<1>5. ASSUME NEW c \in Clients, Deliver(c)
      PROVE  Lives' /\ Tales' /\ Grove(tree')
  <2>1. /\ toClient[c] # <<>> /\ toClient' = [toClient EXCEPT ![c] = Tail(@)]
        /\ told' = Heard({Head(toClient[c])}, watchObjects)
        /\ UNCHANGED <<tree, toServer, publishers, gone, watchObjects>>
    BY <1>5 DEF Deliver, lives
  <2>2. toClient[c] \in Seq(Notices)
    BY DEF Sane, Tales
  <2>3. Head(toClient[c]) \in Notices /\ Tail(toClient[c]) \in Seq(Notices)
    BY <2>1, <2>2, HeadTailProperties
  <2>4. Heard({Head(toClient[c])}, watchObjects) \in [Owners -> [InterestPaths -> BOOLEAN]]
    BY <2>3, HeardType DEF Sane
  <2>5. Tales'
    BY <2>1, <2>3, <2>4 DEF Sane, Tales
  <2> QED
    BY <2>1, <2>5 DEF Lives, Sane
<1>6. ASSUME NEW c \in Clients, Die(c)
      PROVE  Lives' /\ Tales' /\ Grove(tree')
  BY <1>6 DEF Die, Lives, Sane, Tales
<1>7. ASSUME NEW c \in Clients, Disconnected(c)
      PROVE  Lives' /\ Tales' /\ Grove(tree')
  <2>1. /\ tree' = Tree!RemoveItems(tree, <<>>, EveryoneOf(c)).tree
        /\ UNCHANGED <<toServer, toClient, told, publishers, gone, watchObjects>>
    BY <1>7 DEF Disconnected, lives
  <2>2. <<>> \in Seq(STRING)
    OBVIOUS
  <2>3. Grove(tree')
    BY <2>1, <2>2, Removed DEF Sane
  <2> QED
    BY <2>1, <2>3 DEF Lives, Sane, Tales
<1>8. ASSUME UNCHANGED vars
      PROVE  Lives' /\ Tales' /\ Grove(tree')
  BY <1>8 DEF vars, Lives, Sane, Tales
<1>9. Lives' /\ Tales' /\ Grove(tree')
  <2>1. CASE Next
    BY ONLY <2>1, <1>2, <1>3, <1>4, <1>5, <1>6, <1>7 DEF Next
  <2>2. CASE UNCHANGED vars
    BY ONLY <2>2, <1>8
  <2> QED
    BY <2>1, <2>2
<1> QED
  BY ONLY <1>1, <1>9 DEF Sane

\* The types hold in every reachable state.
THEOREM SaneAlways == Spec => []Sane
<1>1. Init => Sane
  BY InitSane
<1>2. Sane /\ [Next]_vars => Sane'
  BY SaneStep
<1> QED
  BY <1>1, <1>2, PTL DEF Spec

\* No count is out of reach and every publisher has been told yes or no, for any number
\* of processes, publishers and subscribers.
THEOREM TypeCorrect == Spec => []TypeOK
<1>1. Sane => TypeOK
  <2> SUFFICES ASSUME Sane  PROVE TypeOK
    OBVIOUS
  <2>1. ASSUME NEW p \in InterestPaths, NEW c \in Procs
        PROVE  pathsOfInterest[p][c] \in 0 .. Cardinality(Subscribers)
    <3> DEFINE T == Tally(Queue(c), subscribers, p, c)
    <3>1. /\ Cardinality(T) \in Nat /\ Cardinality(T) <= Cardinality(Subscribers)
          /\ Cardinality(Subscribers) \in Nat
      BY TallyBound
    <3>2. pathsOfInterest[p][c] = IF c \in Clients \ connections THEN 0 ELSE Cardinality(T)
      BY DEF Sane, Counts
    <3> HIDE DEF T
    <3> QED
      BY <3>1, <3>2
  <2> QED
    BY <2>1 DEF TypeOK, Sane, Types, Lives, Tales
<1> QED
  BY <1>1, SaneAlways, PTL

-----------------------------------------------------------------------------
(* What is told, as it will be known when the notices on their way are in. *)

About(n, o, p) == n.to = o /\ n.path = p
Silent(q, o, p) == \A i \in 1 .. Len(q) : ~About(q[i], o, p)

\* Of the notices in q, the last about o and p says b; without one, v is what is known.
LastSays(q, v, o, p, b) ==
  /\ Silent(q, o, p) => v = b
  /\ \A i \in 1 .. Len(q) :
       About(q[i], o, p) /\ (\A j \in i + 1 .. Len(q) : ~About(q[j], o, p)) => q[i].interested = b

\* The notices on their way to a process; those to the server's own do not wait.
Line(c) == IF c = Server THEN <<>> ELSE toClient[c]
LastTold(o, p, b) == LastSays(Line(o.client), told[o][p], o, p, b)

\* Notices that are about something else change nothing,
LEMMA LastKept ==
  ASSUME NEW X, NEW q \in Seq(X), NEW s \in Seq(X), NEW v, NEW o, NEW p, NEW b,
         \A n \in ToSet(s) : ~About(n, o, p), LastSays(q, v, o, p, b)
  PROVE  LastSays(q \o s, v, o, p, b)
<1> DEFINE a == q \o s
           k == Len(q)
           m == Len(s)
<1>1. k \in Nat /\ m \in Nat /\ Len(a) = k + m
      /\ \A i \in 1 .. k + m : a[i] = IF i <= k THEN q[i] ELSE s[i - k]
  BY ConcatProperties, LenProperties
<1>2. \A i \in 1 .. m : s[i] \in ToSet(s)
  BY LenProperties DEF ToSet
<1> HIDE DEF a, k, m
<1>3. \A i \in k + 1 .. k + m : ~About(a[i], o, p)
  <2> SUFFICES ASSUME NEW i \in k + 1 .. k + m
               PROVE  ~About(a[i], o, p)
    OBVIOUS
  <2>1. i - k \in 1 .. m /\ a[i] = s[i - k]
    BY <1>1
  <2> QED
    BY <1>2, <2>1
<1>4. \A i \in 1 .. k : i \in 1 .. k + m /\ a[i] = q[i]
  BY <1>1
<1>5. Silent(a, o, p) => v = b
  BY <1>1, <1>4 DEF Silent, LastSays, k
<1>6. ASSUME NEW i \in 1 .. k + m, About(a[i], o, p),
             \A j \in i + 1 .. k + m : ~About(a[j], o, p)
      PROVE  a[i].interested = b
  <2>1. i \in 1 .. k
    BY <1>1, <1>3, <1>6
  <2>2. \A j \in i + 1 .. k : ~About(q[j], o, p)
    <3> SUFFICES ASSUME NEW j \in i + 1 .. k
                 PROVE  ~About(q[j], o, p)
      OBVIOUS
    <3>1. j \in 1 .. k /\ j \in i + 1 .. k + m
      BY <1>1, <2>1
    <3> QED
      BY <1>4, <1>6, <3>1
  <2> QED
    BY <1>4, <1>6, <2>1, <2>2 DEF LastSays, k
<1> QED
  BY <1>1, <1>5, <1>6 DEF LastSays, a

\* notices that all say the same are the last,
LEMMA LastNew ==
  ASSUME NEW X, NEW q \in Seq(X), NEW s \in Seq(X), NEW v, NEW o, NEW p, NEW b,
         \E n \in ToSet(s) : About(n, o, p),
         \A n \in ToSet(s) : About(n, o, p) => n.interested = b
  PROVE  LastSays(q \o s, v, o, p, b)
<1> DEFINE a == q \o s
           k == Len(q)
           m == Len(s)
<1>1. k \in Nat /\ m \in Nat /\ Len(a) = k + m
      /\ \A i \in 1 .. k + m : a[i] = IF i <= k THEN q[i] ELSE s[i - k]
  BY ConcatProperties, LenProperties
<1>2. \A i \in 1 .. m : s[i] \in ToSet(s)
  BY LenProperties DEF ToSet
<1>3. PICK l \in 1 .. m : About(s[l], o, p)
  BY LenProperties DEF ToSet
<1> HIDE DEF a, k, m
<1>4. k + l \in 1 .. k + m /\ About(a[k + l], o, p)
  <2>1. k + l \in 1 .. k + m /\ ~(k + l <= k) /\ (k + l) - k = l
    BY <1>1
  <2> QED
    BY <1>1, <1>3, <2>1
<1>5. ASSUME NEW i \in 1 .. k + m, About(a[i], o, p),
             \A j \in i + 1 .. k + m : ~About(a[j], o, p)
      PROVE  a[i].interested = b
  <2>1. i >= k + l
    BY <1>1, <1>4, <1>5
  <2>2. i - k \in 1 .. m /\ a[i] = s[i - k]
    BY <1>1, <2>1
  <2> QED
    BY <1>2, <1>5, <2>2
<1>6. ~Silent(a, o, p)
  BY <1>1, <1>4 DEF Silent
<1> QED
  BY <1>1, <1>5, <1>6 DEF LastSays, a

\* and what is heard first leaves the rest to be heard.
LEMMA LastHeard ==
  ASSUME NEW X, NEW q \in Seq(X), q # <<>>, NEW v, NEW o, NEW p, NEW b, LastSays(q, v, o, p, b),
         NEW w, w = IF About(Head(q), o, p) THEN Head(q).interested ELSE v
  PROVE  LastSays(Tail(q), w, o, p, b)
<1> DEFINE t == Tail(q)
           n == Len(q)
<1>1. /\ n \in Nat /\ n > 0 /\ Len(t) = n - 1 /\ Head(q) = q[1]
      /\ \A i \in 1 .. n - 1 : t[i] = q[i + 1]
  <2>1. n \in Nat /\ n > 0
    BY EmptySeq, LenProperties
  <2> QED
    BY <2>1, HeadTailProperties
<1> HIDE DEF t, n
<1>2. ASSUME Silent(t, o, p)
      PROVE  w = b
  <2>1. \A j \in 2 .. n : ~About(q[j], o, p)
    <3> SUFFICES ASSUME NEW j \in 2 .. n
                 PROVE  ~About(q[j], o, p)
      OBVIOUS
    <3>1. j - 1 \in 1 .. n - 1 /\ t[j - 1] = q[j]
      BY <1>1
    <3> QED
      BY <1>1, <1>2, <3>1 DEF Silent
  <2>2. CASE About(q[1], o, p)
    <3>1. q[1].interested = b
      BY <1>1, <2>1, <2>2 DEF LastSays, n
    <3> QED
      BY <1>1, <2>2, <3>1
  <2>3. CASE ~About(q[1], o, p)
    <3>1. Silent(q, o, p)
      <4> SUFFICES ASSUME NEW j \in 1 .. n
                   PROVE  ~About(q[j], o, p)
        BY DEF Silent, n
      <4>1. j = 1 \/ j \in 2 .. n
        BY <1>1
      <4> QED
        BY <2>1, <2>3, <4>1
    <3> QED
      BY <1>1, <2>3, <3>1 DEF LastSays
  <2> QED
    BY <2>2, <2>3
<1>3. ASSUME NEW i \in 1 .. n - 1, About(t[i], o, p),
             \A j \in i + 1 .. n - 1 : ~About(t[j], o, p)
      PROVE  t[i].interested = b
  <2>1. i + 1 \in 1 .. n /\ t[i] = q[i + 1]
    BY <1>1
  <2>2. \A j \in (i + 1) + 1 .. n : ~About(q[j], o, p)
    <3> SUFFICES ASSUME NEW j \in (i + 1) + 1 .. n
                 PROVE  ~About(q[j], o, p)
      OBVIOUS
    <3>1. j - 1 \in i + 1 .. n - 1 /\ j - 1 \in 1 .. n - 1 /\ t[j - 1] = q[j]
      BY <1>1
    <3> QED
      BY <1>3, <3>1
  <2> QED
    BY <1>3, <2>1, <2>2 DEF LastSays, n
<1> QED
  BY <1>1, <1>2, <1>3 DEF LastSays, t

\* Notices for c are to publishers of c; there are none to o.
Posted == \A c \in Clients : \A n \in ToSet(toClient[c]) : n.to.client = c
Unaddressed(o) == \A c \in Clients : \A n \in ToSet(toClient[c]) : n.to # o

\* What a publisher hears: nothing, or what all notices to it say.
LEMMA HeardIs ==
  ASSUME NEW N, NEW l, NEW o \in Owners, NEW p \in InterestPaths
  PROVE  /\ (\A n \in N : ~About(n, o, p)) => Heard(N, l)[o][p] = told[o][p]
         /\ \A b : /\ o \in l /\ Concerns(o, p) /\ \E n \in N : About(n, o, p)
                   /\ \A n \in N : About(n, o, p) => n.interested = b
                   => Heard(N, l)[o][p] = b
<1> DEFINE mine == {n \in N : n.to = o /\ n.path = p}
<1>1. Heard(N, l)[o][p] = IF mine = {} \/ o \notin l \/ ~Concerns(o, p) THEN told[o][p]
                          ELSE (CHOOSE n \in mine : TRUE).interested
  BY DEF Heard
<1>2. \A n : n \in mine <=> n \in N /\ About(n, o, p)
  BY DEF About
<1>3. mine # {} => (CHOOSE n \in mine : TRUE) \in mine
  <2> HIDE DEF mine
  <2> QED
    OBVIOUS
<1> HIDE DEF mine
<1> DEFINE z == CHOOSE n \in mine : TRUE
<1>4. (\A n \in N : ~About(n, o, p)) => mine = {}
  BY <1>2
<1>5. (\E n \in N : About(n, o, p)) => mine # {} /\ z \in N /\ About(z, o, p)
  BY <1>2, <1>3
<1> HIDE DEF z
<1>6. Heard(N, l)[o][p] = IF mine = {} \/ o \notin l \/ ~Concerns(o, p) THEN told[o][p]
                          ELSE z.interested
  BY <1>1 DEF z
<1> HIDE DEF Heard
<1> QED
  BY <1>4, <1>5, <1>6

\* What telling does to the line of a process: s is added.
Adds(c, N, s) ==
  /\ toClient'[c] = toClient[c] \o s
  /\ ToSet(s) = IF c \in gone THEN {} ELSE {n \in N : n.to.client = c}
  /\ ToSet(toClient'[c]) = ToSet(toClient[c]) \cup ToSet(s)

\* What is told is at the end of what a client is yet to be told, if it still listens.
LEMMA LineIs ==
  ASSUME Tales, NEW N, N \subseteq Notices, IsFiniteSet(N), NEW l, Tell(N, l), NEW c \in Clients
  PROVE  \E s \in Seq(Notices) : Adds(c, N, s)
<1> DEFINE S == {n \in N : n.to.client = c}
<1>1. toClient[c] \in Seq(Notices)
  BY DEF Tales
<1>2. CASE c \in gone
  <2>1. toClient'[c] = toClient[c]
    BY <1>2, TellType
  <2>2. << >> \in Seq(Notices) /\ ToSet(<< >>) = {} /\ toClient[c] \o << >> = toClient[c]
    <3>1. << >> \in Seq(Notices) /\ Len(<< >>) = 0
      OBVIOUS
    <3>2. ToSet(<< >>) = {}
      BY DEF ToSet
    <3> QED
      BY <1>1, <3>1, <3>2, ConcatEmptySeq
  <2>3. Adds(c, N, << >>)
    BY <1>2, <2>1, <2>2 DEF Adds
  <2> QED
    BY <2>2, <2>3
<1>3. CASE c \notin gone
  <2>1. /\ toClient'[c] = toClient[c] \o SetToSeq(S)
        /\ SetToSeq(S) \in Seq(Notices) /\ ToSet(SetToSeq(S)) = S
    BY <1>3, TellType
  <2> DEFINE s == SetToSeq(S)
  <2> HIDE DEF S
  <2>2. ToSet(toClient[c] \o s) = ToSet(toClient[c]) \cup ToSet(s)
    BY <1>1, <2>1, ConcatIs
  <2>3. Adds(c, N, s)
    BY <1>3, <2>1, <2>2 DEF Adds, S
  <2> HIDE DEF s
  <2> QED
    BY <2>1, <2>3 DEF s
<1> QED
  BY <1>2, <1>3

\* Telling: a publisher that no notice is about knows what it knew,
LEMMA TellsNot ==
  ASSUME Tales, NEW N, N \subseteq Notices, IsFiniteSet(N), NEW l, Tell(N, l),
         NEW o \in Owners, NEW p \in InterestPaths, \A n \in N : ~About(n, o, p)
  PROVE  /\ told'[o][p] = told[o][p]
         /\ \A b : LastTold(o, p, b) => LastSays(Line(o.client)', told'[o][p], o, p, b)
<1>1. told'[o][p] = told[o][p]
  <2> DEFINE M == {n \in N : n.to.client = Server}
  <2>1. told' = Heard(M, l)
    BY TellType
  <2>2. \A n \in M : ~About(n, o, p)
    OBVIOUS
  <2> HIDE DEF M
  <2> QED
    BY <2>1, <2>2, HeardIs
<1>2. ASSUME NEW b, LastTold(o, p, b)
      PROVE  LastSays(Line(o.client)', told'[o][p], o, p, b)
  <2>1. CASE o.client = Server
    BY <1>1, <1>2, <2>1 DEF LastTold, Line
  <2>2. CASE o.client # Server
    <3>1. o.client \in Clients
      BY <2>2, ProcessAssumption
    <3>2. PICK s \in Seq(Notices) : Adds(o.client, N, s)
      BY <3>1, LineIs
    <3>3. toClient'[o.client] = toClient[o.client] \o s /\ ToSet(s) \subseteq N
      BY <3>2 DEF Adds
    <3>4. toClient[o.client] \in Seq(Notices) /\ LastSays(toClient[o.client], told[o][p], o, p, b)
      BY <1>2, <2>2, <3>1 DEF LastTold, Line, Tales
    <3>5. LastSays(toClient[o.client] \o s, told[o][p], o, p, b)
      BY <3>3, <3>4, LastKept
    <3> QED
      BY <1>1, <2>2, <3>3, <3>5 DEF Line
  <2> QED
    BY <2>1, <2>2
<1> QED
  BY <1>1, <1>2

\* one that is here, listens and is concerned will know what the notices about it say,
LEMMA TellsNow ==
  ASSUME Tales, NEW N, N \subseteq Notices, IsFiniteSet(N), NEW l, Tell(N, l),
         NEW o \in Owners, NEW p \in InterestPaths, Here(o.client), o \in l, Concerns(o, p),
         \E n \in N : About(n, o, p), NEW b, \A n \in N : About(n, o, p) => n.interested = b
  PROVE  LastSays(Line(o.client)', told'[o][p], o, p, b)
<1>1. CASE o.client = Server
  <2> DEFINE M == {n \in N : n.to.client = Server}
  <2>1. told' = Heard(M, l)
    BY TellType
  <2>2. /\ \E n \in M : About(n, o, p)
        /\ \A n \in M : About(n, o, p) => n.interested = b
    BY <1>1 DEF About
  <2> HIDE DEF M
  <2>3. told'[o][p] = b
    BY <2>1, <2>2, HeardIs
  <2>4. Line(o.client)' = << >>
    BY <1>1 DEF Line
  <2>5. Len(<< >>) = 0
    OBVIOUS
  <2> QED
    BY <2>3, <2>4, <2>5 DEF LastSays, Silent
<1>2. CASE o.client # Server
  <2>1. o.client \in Clients /\ o.client \notin gone
    BY <1>2, ProcessAssumption DEF Here
  <2>2. PICK s \in Seq(Notices) : Adds(o.client, N, s)
    BY <2>1, LineIs
  <2>3. toClient[o.client] \in Seq(Notices)
    BY <2>1 DEF Tales
  <2>4. /\ \E n \in ToSet(s) : About(n, o, p)
        /\ \A n \in ToSet(s) : About(n, o, p) => n.interested = b
    BY <2>1, <2>2 DEF About, Adds
  <2>5. LastSays(toClient[o.client] \o s, told'[o][p], o, p, b)
    BY <2>3, <2>4, LastNew
  <2> QED
    BY <1>2, <2>2, <2>5 DEF Line, Adds
<1> QED
  BY <1>1, <1>2

\* and notices come to the publishers that they are to.
LEMMA TellsWhom ==
  ASSUME Tales, NEW N, N \subseteq Notices, IsFiniteSet(N), NEW l, Tell(N, l)
  PROVE  /\ Posted => Posted'
         /\ \A o \in Owners : (\A n \in N : n.to # o) /\ Unaddressed(o) => Unaddressed(o)'
<1>1. ASSUME NEW c \in Clients, NEW n \in ToSet(toClient'[c])
      PROVE  n \in ToSet(toClient[c]) \/ (n \in N /\ n.to.client = c)
  <2>1. PICK s \in Seq(Notices) : Adds(c, N, s)
    BY LineIs
  <2> QED
    BY <1>1, <2>1 DEF Adds
<1> QED
  BY <1>1 DEF Posted, Unaddressed

-----------------------------------------------------------------------------
(* What publishers are told is true where the program makes it so.         *)

\* Of two publishers at one path the later is not told anything new, and of those of one
\* client whose paths lie on one way only the first is told (`written').
Apart ==
  \A o, q \in Owners :
    \/ o = q
    \/ /\ PathOf[o] # PathOf[q]
       /\ o.client = q.client /\ o.client # Server => ~IsPrefix(PathOf[o], PathOf[q])

\* A path is watched by its publisher or by nobody, and nothing is stored there.
Neat(t) ==
  /\ \A o \in Owners : /\ Watched(t, PathOf[o]) \in {<<>>, <<o>>}
                       /\ Stored(t, PathOf[o]) = <<>>
  /\ \A p \in Seq(STRING) : Watched(t, p) # <<>> => \E o \in Owners : p = PathOf[o]

\* The publishers a change at p is told to.
OnWay(t, o, p) == IsPrefix(PathOf[o], p) /\ Watched(t, PathOf[o]) = <<o>>

\* What a prefix is.
LEMMA PrefixIs ==
  ASSUME NEW a \in Seq(STRING), NEW p \in Seq(STRING)
  PROVE  /\ IsPrefix(a, p) <=> Len(a) <= Len(p) /\ \A i \in 1 .. Len(a) : a[i] = p[i]
         /\ IsPrefix(a, p) => SubSeq(p, 1, Len(a)) = a
         /\ \A i \in 0 .. Len(p) : /\ SubSeq(p, 1, i) \in Seq(STRING)
                                   /\ IsPrefix(SubSeq(p, 1, i), p)
<1>1. Len(a) \in Nat /\ Len(p) \in Nat
  BY LenProperties
<1>2. SubSeq(a, 1, Len(a)) = a
  BY <1>1
<1>3. ASSUME Len(a) <= Len(p)
      PROVE  SubSeq(p, 1, Len(a)) = a <=> \A i \in 1 .. Len(a) : a[i] = p[i]
  <2>1. SubSeq(p, 1, Len(a)) \in Seq(STRING) /\ Len(SubSeq(p, 1, Len(a))) = Len(a)
        /\ \A i \in 1 .. Len(a) : SubSeq(p, 1, Len(a))[i] = p[i]
    BY <1>1, <1>3, SubSeqProperties
  <2> DEFINE b == SubSeq(p, 1, Len(a))
  <2> HIDE DEF b
  <2>2. b = a <=> \A i \in 1 .. Len(a) : a[i] = b[i]
    BY <1>1, <2>1, SeqEqual DEF b
  <2> QED
    BY <2>1, <2>2 DEF b
<1>4. ASSUME NEW i \in 0 .. Len(p)
      PROVE  SubSeq(p, 1, i) \in Seq(STRING) /\ IsPrefix(SubSeq(p, 1, i), p)
  <2>1. /\ SubSeq(p, 1, i) \in Seq(STRING) /\ Len(SubSeq(p, 1, i)) = i
        /\ \A j \in 1 .. i : SubSeq(p, 1, i)[j] = p[j]
    BY <1>1, SubSeqProperties
  <2> DEFINE b == SubSeq(p, 1, i)
  <2> HIDE DEF b
  <2>2. SubSeq(b, 1, Len(b)) = b
    BY <2>1 DEF b
  <2> QED
    BY <1>1, <2>1, <2>2 DEF IsPrefix, b
<1> QED
  BY <1>2, <1>3, <1>4 DEF IsPrefix

\* Of two prefixes of a path one is a prefix of the other.
LEMMA OneWay ==
  ASSUME NEW a \in Seq(STRING), NEW b \in Seq(STRING), NEW p \in Seq(STRING),
         IsPrefix(a, p), IsPrefix(b, p)
  PROVE  IsPrefix(a, b) \/ IsPrefix(b, a)
<1>1. Len(a) \in Nat /\ Len(b) \in Nat /\ Len(p) \in Nat
  BY LenProperties
<1>2. /\ \A i \in 1 .. Len(a) : a[i] = p[i]
      /\ \A i \in 1 .. Len(b) : b[i] = p[i]
  BY PrefixIs
<1>3. CASE Len(a) <= Len(b)
  <2>1. \A i \in 1 .. Len(a) : a[i] = b[i]
    BY <1>1, <1>2, <1>3
  <2> QED
    BY <1>3, <2>1, PrefixIs
<1>4. CASE Len(b) <= Len(a)
  <2>1. \A i \in 1 .. Len(b) : b[i] = a[i]
    BY <1>1, <1>2, <1>4
  <2> QED
    BY <1>4, <2>1, PrefixIs
<1> QED
  BY <1>1, <1>3, <1>4

\* watchers() finds those whose path lies on the way and who are in the tree.
LEMMA WatchersOnWay ==
  ASSUME NEW t, Grove(t), Neat(t), NEW p \in Seq(STRING), NEW x
  PROVE  x \in ToSet(Watchers(t, p)) <=> x \in Owners /\ OnWay(t, x, p)
<1>1. ASSUME x \in ToSet(Watchers(t, p))
      PROVE  x \in Owners /\ OnWay(t, x, p)
  <2>1. PICK i \in 0 .. Len(p) : x \in ToSet(Watched(t, SubSeq(p, 1, i)))
    BY <1>1, WatchersAre
  <2> DEFINE b == SubSeq(p, 1, i)
  <2>2. b \in Seq(STRING) /\ IsPrefix(b, p)
    BY PrefixIs
  <2> HIDE DEF b
  <2>3. Watched(t, b) # <<>>
    BY <2>1 DEF ToSet, b
  <2>4. PICK o \in Owners : b = PathOf[o]
    BY <2>2, <2>3 DEF Neat
  <2>5. Watched(t, b) = <<o>>
    BY <2>3, <2>4 DEF Neat
  <2>6. x = o
    BY <2>1, <2>5 DEF ToSet, b
  <2> QED
    BY <2>2, <2>4, <2>5, <2>6 DEF OnWay
<1>2. ASSUME x \in Owners, OnWay(t, x, p)
      PROVE  x \in ToSet(Watchers(t, p))
  <2> DEFINE i == Len(PathOf[x])
  <2>1. PathOf[x] \in Seq(STRING)
    BY <1>2, PublisherAssumption
  <2>2. i \in 0 .. Len(p) /\ SubSeq(p, 1, i) = PathOf[x]
    <3>1. Len(PathOf[x]) \in Nat /\ Len(p) \in Nat
      BY <2>1, LenProperties
    <3> QED
      BY <1>2, <2>1, <3>1, PrefixIs DEF OnWay
  <2>3. x \in ToSet(Watched(t, PathOf[x]))
    <3>1. Watched(t, PathOf[x]) = <<x>>
      BY <1>2 DEF OnWay
    <3>2. DOMAIN <<x>> = 1 .. 1 /\ <<x>>[1] = x
      OBVIOUS
    <3> QED
      BY <3>1, <3>2 DEF ToSet
  <2> HIDE DEF i
  <2> QED
    BY <2>2, <2>3, WatchersAre
<1> QED
  BY <1>1, <1>2

\* All of them are told, the first of each client being the only one.
LEMMA AddressedAre ==
  ASSUME Apart, NEW t, Grove(t), Neat(t), NEW p \in Seq(STRING), NEW x
  PROVE  x \in Addressed(Watchers(t, p)) <=> x \in Owners /\ OnWay(t, x, p)
<1> DEFINE w == Watchers(t, p)
<1>1. w \in Seq(Facts!Holders)
  BY WatchersAre
<1>2. \A y : y \in ToSet(w) <=> y \in Owners /\ OnWay(t, y, p)
  BY WatchersOnWay
<1> HIDE DEF w
<1>3. DOMAIN w = 1 .. Len(w) /\ Len(w) \in Nat /\ ToSet(w) = {w[i] : i \in 1 .. Len(w)}
  BY <1>1, LenProperties DEF ToSet
<1>4. x \in Addressed(w) => x \in ToSet(w)
  BY <1>3 DEF Addressed
<1>5. ASSUME x \in ToSet(w)
      PROVE  x \in Addressed(w)
  <2> DEFINE J == {j \in 1 .. Len(w) : w[j] = x}
  <2>1. J # {} /\ J \in SUBSET Nat
    BY <1>3, <1>5
  <2> HIDE DEF J
  <2>2. PICK j \in J : \A i \in J : j <= i
    BY <2>1, TreeFits, Facts!LeastExists
       DEF Facts!TableAssumption, Facts!ValuesAssumption, Facts!PathsAssumption
  <2>3. j \in 1 .. Len(w) /\ w[j] = x
    BY <2>2 DEF J
  <2>4. ASSUME NEW l \in 1 .. j - 1, w[l].client = x.client, x.client # Server
        PROVE  FALSE
    <3>1. l \in 1 .. Len(w) /\ l < j
      BY <1>3, <2>3
    <3>2. w[l] # x
      <4>1. l \notin J
        <5>1. l \in Int /\ j \in Int
          BY <1>3, <2>3
        <5> QED
          BY <2>2, <3>1, <5>1
      <4> QED
        BY <3>1, <4>1 DEF J
    <3> DEFINE y == w[l]
    <3>3. y \in ToSet(w)
      BY <1>3, <3>1
    <3> HIDE DEF y
    <3>4. /\ x \in Owners /\ y \in Owners /\ x # y /\ y.client = x.client
          /\ IsPrefix(PathOf[x], p) /\ IsPrefix(PathOf[y], p)
      BY <1>2, <1>5, <2>4, <3>2, <3>3 DEF OnWay, y
    <3>5. PathOf[x] \in Seq(STRING) /\ PathOf[y] \in Seq(STRING)
      BY <3>4, PublisherAssumption
    <3>6. IsPrefix(PathOf[x], PathOf[y]) \/ IsPrefix(PathOf[y], PathOf[x])
      BY <3>4, <3>5, OneWay
    <3> QED
      BY <2>4, <3>4, <3>6 DEF Apart
  <2>5. w[j].client = Server \/ \A l \in 1 .. j - 1 : w[l].client # w[j].client
    BY <2>3, <2>4
  <2> QED
    BY <1>3, <2>3, <2>5 DEF Addressed
<1> QED
  BY <1>2, <1>4, <1>5 DEF w

\* A path is subscribed to by one process.  doNotify() tells whenever the count of one
\* process becomes one or none, whatever the others count: with two, the publishers are told
\* that nobody is interested as soon as the first of them leaves.
OneProcess == \A x, y \in Subscribers : x.path = y.path => x.client = y.client

\* The server counts somebody; a publisher knows that, or will when it has heard all.
SomeCount(p) == \E c \in Procs : pathsOfInterest[p][c] > 0
Knows(o, p) == /\ SomeCount(p) => LastTold(o, p, TRUE)
               /\ ~SomeCount(p) => LastTold(o, p, FALSE)
Untold(o) == Unaddressed(o) /\ \A p \in InterestPaths : told[o][p] = FALSE

\* Where one process subscribes, no other is counted.
LEMMA OthersNone ==
  ASSUME Sane, OneProcess, NEW x \in Subscribers, NEW d \in Procs, d # x.client
  PROVE  pathsOfInterest[x.path][d] = 0
<1> DEFINE T == Tally(Queue(d), subscribers, x.path, d)
<1>1. T = {}
  BY DEF Tally, OneProcess
<1>2. x.path \in InterestPaths
  BY DEF InterestPaths
<1>3. pathsOfInterest[x.path][d] = IF d \in Clients \ connections THEN 0 ELSE Cardinality(T)
  BY <1>2 DEF Sane, Counts
<1> QED
  BY <1>1, <1>3, FS_EmptySet

\* One that is counted makes the count positive, within the range.
LEMMA SomeCounted ==
  ASSUME Sane, NEW c \in Procs, c \notin Clients \ connections, NEW p \in InterestPaths, NEW x,
         x \in Tally(Queue(c), subscribers, p, c)
  PROVE  /\ pathsOfInterest[p][c] \in Nat /\ pathsOfInterest[p][c] > 0
         /\ pathsOfInterest[p][c] < UintRange
<1> DEFINE T == Tally(Queue(c), subscribers, p, c)
<1>1. pathsOfInterest[p][c] = Cardinality(T)
  BY DEF Sane, Counts
<1>2. /\ IsFiniteSet(T) /\ Cardinality(T) \in Nat
      /\ Cardinality(T) <= Cardinality(Subscribers)
      /\ Cardinality(Subscribers) \in Nat /\ Cardinality(Subscribers) < UintRange
  BY TallyBound
<1>3. x \in T
  OBVIOUS
<1> HIDE DEF T
<1>4. Cardinality(T) # 0
  BY <1>2, <1>3, FS_EmptySet
<1>5. UintRange \in Nat
  BY RangeAssumption
<1> QED
  BY <1>1, <1>2, <1>4, <1>5

\* The change of a count is told if somebody came where nobody was, or nobody is left.
LEMMA NotifyTells ==
  ASSUME Sane, Apart, Neat(tree), NEW p0 \in InterestPaths, NEW from \in Procs,
         NEW b \in BOOLEAN, NEW l, DoNotify(p0, from, b, l),
         \A c \in Procs \ {from} : pathsOfInterest[p0][c] = 0,
         ~b => pathsOfInterest[p0][from] > 0 /\ pathsOfInterest[p0][from] < UintRange
  PROVE  /\ Posted => Posted'
         /\ \A o \in Owners : Watched(tree, PathOf[o]) = <<>> /\ Untold(o) => Untold(o)'
         /\ \A o \in Owners, p \in InterestPaths :
              Here(o.client) /\ o \in l /\ OnWay(tree, o, p) /\ Knows(o, p) => Knows(o, p)'
<1> DEFINE k == pathsOfInterest[p0][from]
           n == IF b THEN CountUp(k) ELSE CountDown(k)
           A == Addressed(Watchers(tree, p0))
           M == {[to |-> o, path |-> p0, interested |-> b] : o \in A}
           N == IF ToldOnce(n, b) THEN M ELSE {}
<1>1. /\ pathsOfInterest' = [pathsOfInterest EXCEPT ![p0][from] = n]
      /\ Tell(N, l)
  BY DEF DoNotify
<1>2. k \in Nat /\ pathsOfInterest \in [InterestPaths -> [Procs -> Nat]]
  BY DEF Sane, Types
<1>3. n = IF b THEN k + 1 ELSE k - 1
  <2>1. b => n = k + 1
    BY DEF CountUp
  <2>2. ~b => n = k - 1
    BY <1>2, CountDownType
  <2> QED
    BY <2>1, <2>2
<1>4. M \subseteq Notices /\ IsFiniteSet(M)
  BY ChangeNotices DEF Sane
<1>5. p0 \in Seq(STRING)
  BY PathsFinite
<1>6. \A o : o \in A <=> o \in Owners /\ OnWay(tree, o, p0)
  BY <1>5, AddressedAre DEF Sane
<1>7. {} \subseteq Notices /\ IsFiniteSet({})
  BY FS_EmptySet
<1>8. Tales
  BY DEF Sane
<1>9. \A m \in M : m.to \in A /\ m.path = p0 /\ m.interested = b
  OBVIOUS
<1>10. \A o \in A : \E m \in M : About(m, o, p0)
  <2> SUFFICES ASSUME NEW o \in A
               PROVE  \E m \in M : About(m, o, p0)
    OBVIOUS
  <2>1. [to |-> o, path |-> p0, interested |-> b] \in M
    OBVIOUS
  <2> QED
    BY <2>1 DEF About
<1>11. ToldOnce(n, b) <=> n = IF b THEN 1 ELSE 0
  BY DEF ToldOnce
<1> HIDE DEF n, A, M
<1>12. N \subseteq Notices /\ IsFiniteSet(N)
  BY <1>4, <1>7
<1>13. \A m \in N : m.to \in A /\ m.path = p0 /\ m.interested = b
  BY <1>9
<1>14. N # {} => ToldOnce(n, b)
  OBVIOUS
<1>15. ToldOnce(n, b) => N = M
  OBVIOUS
<1> HIDE DEF N
<1>16. ASSUME NEW o \in Owners, Watched(tree, PathOf[o]) = <<>>, Untold(o)
       PROVE  Untold(o)'
  <2>1. o \notin A
    BY <1>6, <1>16 DEF OnWay
  <2>2. \A m \in N : m.to # o
    BY <1>13, <2>1
  <2>3. Unaddressed(o)'
    BY <1>1, <1>8, <1>12, <1>16, <2>2, TellsWhom DEF Untold
  <2>4. ASSUME NEW p \in InterestPaths
        PROVE  told'[o][p] = FALSE
    <3>1. \A m \in N : ~About(m, o, p)
      BY <2>2 DEF About
    <3>2. told'[o][p] = told[o][p]
      BY <1>1, <1>8, <1>12, <3>1, TellsNot
    <3> QED
      BY <1>16, <3>2 DEF Untold
  <2> QED
    BY <2>3, <2>4 DEF Untold
<1>17. ASSUME NEW o \in Owners, NEW p \in InterestPaths,
              Here(o.client), o \in l, OnWay(tree, o, p), Knows(o, p)
       PROVE  Knows(o, p)'
  <2>1. CASE (\A m \in N : ~About(m, o, p)) /\ (SomeCount(p)' <=> SomeCount(p))
    <3>1. \A v : LastTold(o, p, v) => LastSays(Line(o.client)', told'[o][p], o, p, v)
      BY <1>1, <1>8, <1>12, <2>1, TellsNot
    <3>2. /\ LastTold(o, p, TRUE) => LastTold(o, p, TRUE)'
          /\ LastTold(o, p, FALSE) => LastTold(o, p, FALSE)'
      BY <3>1 DEF LastTold
    <3> QED
      BY <1>17, <2>1, <3>2 DEF Knows
  <2>2. CASE p # p0
    <3>1. \A m \in N : ~About(m, o, p)
      BY <1>13, <2>2 DEF About
    <3>2. \A c \in Procs : pathsOfInterest'[p][c] = pathsOfInterest[p][c]
      BY <1>1, <1>2, <2>2
    <3>3. SomeCount(p)' <=> SomeCount(p)
      BY <3>2 DEF SomeCount
    <3> QED
      BY <2>1, <3>1, <3>3
  <2>3. CASE p = p0
    <3>1. /\ pathsOfInterest'[p][from] = n
          /\ \A c \in Procs \ {from} : pathsOfInterest'[p][c] = 0
      BY <1>1, <1>2, <2>3
    <3>2. (SomeCount(p)' <=> n > 0) /\ (SomeCount(p) <=> k > 0)
      BY <2>3, <3>1 DEF SomeCount
    <3>3. CASE ToldOnce(n, b)
      <4>1. SomeCount(p)' <=> b = TRUE
        BY <1>11, <3>2, <3>3
      <4>2. o \in A
        BY <1>6, <1>17, <2>3
      <4>3. /\ \E m \in N : About(m, o, p)
            /\ \A m \in N : About(m, o, p) => m.interested = b
        BY <1>10, <1>13, <1>15, <2>3, <3>3, <4>2
      <4>4. Concerns(o, p)
        BY <1>17 DEF Concerns, OnWay
      <4>5. LastSays(Line(o.client)', told'[o][p], o, p, b)
        BY <1>1, <1>8, <1>12, <1>17, <4>3, <4>4, TellsNow
      <4>6. /\ b = TRUE => LastTold(o, p, TRUE)'
            /\ b = FALSE => LastTold(o, p, FALSE)'
        BY <4>5 DEF LastTold
      <4> QED
        BY <4>1, <4>6 DEF Knows
    <3>4. CASE ~ToldOnce(n, b)
      <4>1. N = {}
        BY <1>14, <3>4
      <4>2. SomeCount(p)' <=> SomeCount(p)
        BY <1>2, <1>3, <1>11, <3>2, <3>4
      <4> QED
        BY <2>1, <4>1, <4>2
    <3> QED
      BY <3>3, <3>4
  <2> QED
    BY <2>2, <2>3
<1>18. Posted => Posted'
  BY <1>1, <1>8, <1>12, TellsWhom
<1> QED
  BY <1>16, <1>17, <1>18

\* No value is set where somebody watches: setData() overlays the first watch there with
\* the datum (1202).
NotValues == \A o \in Setters, q \in Owners : Attribute(o) # PathOf[q]

\* The tree has become u, in which only the owners in S may have lost their watches.
Loses(t, u, S) ==
  /\ Neat(u)
  /\ \A q \in Owners :
       /\ Watched(t, PathOf[q]) = <<>> => Watched(u, PathOf[q]) = <<>>
       /\ q \notin S => Watched(u, PathOf[q]) = Watched(t, PathOf[q])

\* Setting a value loses no watch,
LEMMA SetLoses ==
  ASSUME NotValues, NEW t, Grove(t), Neat(t), NEW o \in Setters, NEW v \in Values,
         NEW u, u = Tree!Insert(t, Attribute(o), o, v).tree
  PROVE  Loses(t, u, {})
<1>1. Attribute(o) \in Seq(STRING) /\ <<o, Attribute(o)>> \in Publish
  BY PublisherAssumption DEF Publish
<1>2. Watched(t, Attribute(o)) = <<>>
  BY <1>1 DEF Neat, NotValues
<1> DEFINE a == Attribute(o)
<1>3. \A p \in Seq(STRING) :
        Watched(u, p) = Watched(t, p) /\ (p # a => Stored(u, p) = Stored(t, p))
  BY <1>1, <1>2, Inserted
<1>4. \A q \in Owners : PathOf[q] \in Seq(STRING) /\ PathOf[q] # a
  BY PublisherAssumption DEF NotValues
<1> HIDE DEF a
<1> QED
  BY <1>3, <1>4 DEF Loses, Neat

\* taking a watch loses that one,
LEMMA UnwatchLoses ==
  ASSUME Apart, NEW t, Grove(t), Neat(t), NEW o \in Owners,
         NEW u, u = Tree!RemWatch(t, PathOf[o], o).tree
  PROVE  Loses(t, u, {o})
<1>1. PathOf[o] \in Seq(STRING)
  BY PublisherAssumption
<1> DEFINE a == PathOf[o]
<1>2. \A p \in Seq(STRING) :
        /\ p # a => Watched(u, p) = Watched(t, p)
        /\ Stored(u, p) = Stored(t, p)
        /\ Watched(t, p) = <<>> => Watched(u, p) = <<>>
        /\ Watched(t, p) \in {<<>>, <<o>>} => Watched(u, p) \in {<<>>, <<o>>}
  BY <1>1, Unwatched DEF Same
<1>3. \A q \in Owners : PathOf[q] \in Seq(STRING) /\ (q # o => PathOf[q] # a)
  BY PublisherAssumption DEF Apart
<1>4. \A q \in Owners : /\ Watched(u, PathOf[q]) \in {<<>>, <<q>>}
                        /\ Stored(u, PathOf[q]) = <<>>
  <2> SUFFICES ASSUME NEW q \in Owners
               PROVE  /\ Watched(u, PathOf[q]) \in {<<>>, <<q>>}
                      /\ Stored(u, PathOf[q]) = <<>>
    OBVIOUS
  <2>1. Watched(t, PathOf[q]) \in {<<>>, <<q>>} /\ Stored(t, PathOf[q]) = <<>>
    BY DEF Neat
  <2>2. CASE q = o
    BY <1>2, <1>3, <2>1, <2>2
  <2>3. CASE q # o
    BY <1>2, <1>3, <2>1, <2>3
  <2> QED
    BY <2>2, <2>3
<1>5. \A p \in Seq(STRING) : Watched(u, p) # <<>> => \E q \in Owners : p = PathOf[q]
  BY <1>2 DEF Neat
<1> HIDE DEF a
<1> QED
  BY <1>2, <1>3, <1>4, <1>5 DEF Loses, Neat

\* and a removal those that it takes.
LEMMA RemoveLoses ==
  ASSUME NEW t, Grove(t), Neat(t), NEW path \in Seq(STRING), NEW who,
         NEW u, u = Tree!RemoveItems(t, path, who).tree
  PROVE  Loses(t, u, {q \in Owners : Takes(q, who)})
<1>1. \A p \in Seq(STRING) :
        /\ Watched(t, p) = <<>> => Watched(u, p) = <<>>
        /\ Stored(t, p) = <<>> => Stored(u, p) = <<>>
        /\ \A x : Watched(t, p) = <<x>> /\ Stored(t, p) = <<>> =>
             /\ Watched(u, p) \in {<<>>, <<x>>}
             /\ ~Takes(x, who) => Watched(u, p) = <<x>>
  BY Removed
<1>2. \A q \in Owners : PathOf[q] \in Seq(STRING)
  BY PublisherAssumption
<1>3. ASSUME NEW q \in Owners
      PROVE  /\ Watched(u, PathOf[q]) \in {<<>>, <<q>>}
             /\ Stored(u, PathOf[q]) = <<>>
             /\ Watched(t, PathOf[q]) = <<>> => Watched(u, PathOf[q]) = <<>>
             /\ ~Takes(q, who) => Watched(u, PathOf[q]) = Watched(t, PathOf[q])
  <2>1. Watched(t, PathOf[q]) \in {<<>>, <<q>>} /\ Stored(t, PathOf[q]) = <<>>
    BY DEF Neat
  <2> QED
    BY <1>1, <1>2, <2>1
<1>4. \A p \in Seq(STRING) : Watched(u, p) # <<>> => \E q \in Owners : p = PathOf[q]
  BY <1>1 DEF Neat
<1> QED
  BY <1>3, <1>4 DEF Loses, Neat

\* What a new watch changes, for its owner and for the others.
NewWatch(t, u, o) ==
  /\ Neat(u) /\ Watched(u, PathOf[o]) = <<o>>
  /\ \A q \in Owners \ {o} : Watched(u, PathOf[q]) = Watched(t, PathOf[q])

\* addWatch() at a publisher's path adds that watch, and changes no other publisher's.
LEMMA WatchAdds ==
  ASSUME Apart, NEW t, Grove(t), Neat(t), NEW o \in Owners, Watched(t, PathOf[o]) = <<>>,
         Room(t) >= Len(PathOf[o]), NEW u, u = Tree!AddWatch(t, PathOf[o], o).tree
  PROVE  Grove(u) /\ NewWatch(t, u, o)
<1>1. PathOf[o] \in Seq(STRING) /\ o \in Facts!Holders
  BY PublisherAssumption, OwnersHold
<1> DEFINE a == PathOf[o]
<1>2. /\ Grove(u)
      /\ \A p \in Seq(STRING) :
           p # a => Watched(u, p) = Watched(t, p) /\ Stored(u, p) = Stored(t, p)
      /\ Watched(u, a) = <<o>> /\ Stored(u, a) = Stored(t, a)
  BY <1>1, Added DEF Same
<1>3. \A q \in Owners : PathOf[q] \in Seq(STRING) /\ (q # o => PathOf[q] # a)
  BY PublisherAssumption DEF Apart
<1>4. \A q \in Owners : /\ Watched(u, PathOf[q]) \in {<<>>, <<q>>}
                        /\ Stored(u, PathOf[q]) = <<>>
  <2> SUFFICES ASSUME NEW q \in Owners
               PROVE  /\ Watched(u, PathOf[q]) \in {<<>>, <<q>>}
                      /\ Stored(u, PathOf[q]) = <<>>
    OBVIOUS
  <2>1. Watched(t, PathOf[q]) \in {<<>>, <<q>>} /\ Stored(t, PathOf[q]) = <<>>
    BY DEF Neat
  <2>2. CASE q = o
    BY <1>2, <2>1, <2>2
  <2>3. CASE q # o
    BY <1>2, <1>3, <2>1, <2>3
  <2> QED
    BY <2>2, <2>3
<1>5. \A p \in Seq(STRING) : Watched(u, p) # <<>> => \E q \in Owners : p = PathOf[q]
  BY <1>2 DEF Neat
<1>6. \A q \in Owners \ {o} : Watched(u, PathOf[q]) = Watched(t, PathOf[q])
  BY <1>2, <1>3
<1> HIDE DEF a
<1> QED
  BY <1>2, <1>4, <1>5, <1>6 DEF NewWatch, Neat, a

\* One that no notice is to, and has heard nothing, will know nothing.
LEMMA UntoldKnows ==
  ASSUME Tales, NEW o \in Owners, Untold(o), NEW p \in InterestPaths
  PROVE  LastTold(o, p, FALSE)
<1>1. told[o][p] = FALSE
  BY DEF Untold
<1>2. \A i \in 1 .. Len(Line(o.client)) : Line(o.client)[i].to # o
  <2>1. CASE o.client = Server
    <3>1. Line(o.client) = <<>> /\ Len(<<>>) = 0
      BY <2>1 DEF Line
    <3> QED
      BY <3>1
  <2>2. CASE o.client # Server
    <3>1. o.client \in Clients
      BY <2>2, ProcessAssumption
    <3>2. \A n \in ToSet(toClient[o.client]) : n.to # o
      BY <3>1 DEF Untold, Unaddressed
    <3> DEFINE q == toClient[o.client]
    <3>3. q = Line(o.client) /\ DOMAIN q = 1 .. Len(q)
      BY <2>2, <3>1, LenProperties DEF Line, Tales
    <3>4. \A i \in 1 .. Len(q) : q[i] \in ToSet(q)
      BY <3>3 DEF ToSet
    <3> HIDE DEF q
    <3> QED
      BY <3>2, <3>3, <3>4 DEF q
  <2> QED
    BY <2>1, <2>2
<1> QED
  BY <1>1, <1>2 DEF LastTold, LastSays, Silent, About

\* A new watch is told of all the interest there is below it.
LEMMA WatchTells ==
  ASSUME Sane, Apart, Neat(tree), NEW o \in Owners, Watched(tree, PathOf[o]) = <<>>,
         Room(tree) >= Len(PathOf[o]), NEW r, r.kind = "watch", r.owner = o, r.path = PathOf[o],
         NEW from, NEW l, Handle(r, from, l)
  PROVE  /\ NewWatch(tree, tree', o)
         /\ Posted => Posted'
         /\ \A q \in Owners \ {o} : Untold(q) => Untold(q)'
         /\ \A q \in Owners \ {o}, p \in InterestPaths : Knows(q, p) => Knows(q, p)'
         /\ \A p \in InterestPaths :
              Here(o.client) /\ o \in l /\ Untold(o) /\ IsPrefix(PathOf[o], p) => Knows(o, p)'
<1> DEFINE u == tree'
           B == ToldBefore(u, o)
           N == {[to |-> o, path |-> p, interested |-> TRUE] : p \in B}
<1>1. /\ u = Tree!AddWatch(tree, PathOf[o], o).tree
      /\ Tell(N, l) /\ UNCHANGED pathsOfInterest
  BY DEF Handle, Notifies
<1>2. Grove(tree) /\ Tales
  BY DEF Sane
<1>3. Grove(u) /\ NewWatch(tree, u, o)
  BY <1>1, <1>2, WatchAdds
<1>4. o \in Facts!Holders
  BY OwnersHold
<1>5. N \subseteq Notices /\ IsFiniteSet(N)
  BY <1>4, WatchNotices
<1>6. \A m \in N : m.to = o /\ m.path \in B /\ m.interested = TRUE
  OBVIOUS
<1>7. \A p \in B : \E m \in N : About(m, o, p)
  <2> SUFFICES ASSUME NEW p \in B
               PROVE  \E m \in N : About(m, o, p)
    OBVIOUS
  <2>1. [to |-> o, path |-> p, interested |-> TRUE] \in N
    OBVIOUS
  <2> QED
    BY <2>1 DEF About
<1>8. ASSUME NEW p \in InterestPaths, IsPrefix(PathOf[o], p)
      PROVE  p \in B <=> SomeCount(p)
  <2>1. p \in Seq(STRING)
    BY PathsFinite
  <2>2. OnWay(u, o, p)
    BY <1>3, <1>8 DEF NewWatch, OnWay
  <2>3. Neat(u)
    BY <1>3 DEF NewWatch
  <2> HIDE DEF u
  <2>4. o \in ToSet(Watchers(u, p))
    BY <1>3, <2>1, <2>2, <2>3, WatchersOnWay
  <2> QED
    BY <2>4 DEF ToldBefore, SomeCount
<1>9. \A p : SomeCount(p)' <=> SomeCount(p)
  BY <1>1 DEF SomeCount
<1> HIDE DEF u, B, N
<1>10. ASSUME NEW q \in Owners \ {o}, Untold(q)
       PROVE  Untold(q)'
  <2>1. \A m \in N : m.to # q
    BY <1>6
  <2>2. Unaddressed(q)'
    BY <1>1, <1>2, <1>5, <1>10, <2>1, TellsWhom DEF Untold
  <2>3. ASSUME NEW p \in InterestPaths
        PROVE  told'[q][p] = FALSE
    <3>1. \A m \in N : ~About(m, q, p)
      BY <2>1 DEF About
    <3>2. told'[q][p] = told[q][p]
      BY <1>1, <1>2, <1>5, <3>1, TellsNot
    <3> QED
      BY <1>10, <3>2 DEF Untold
  <2> QED
    BY <2>2, <2>3 DEF Untold
<1>11. ASSUME NEW q \in Owners, NEW p \in InterestPaths, \A m \in N : ~About(m, q, p)
       PROVE  /\ LastTold(q, p, TRUE) => LastTold(q, p, TRUE)'
              /\ LastTold(q, p, FALSE) => LastTold(q, p, FALSE)'
  <2>1. \A b : LastTold(q, p, b) => LastSays(Line(q.client)', told'[q][p], q, p, b)
    BY <1>1, <1>2, <1>5, <1>11, TellsNot
  <2> QED
    BY <2>1 DEF LastTold
<1>12. ASSUME NEW q \in Owners \ {o}, NEW p \in InterestPaths, Knows(q, p)
       PROVE  Knows(q, p)'
  <2>1. \A m \in N : ~About(m, q, p)
    BY <1>6 DEF About
  <2> QED
    BY <1>9, <1>11, <1>12, <2>1 DEF Knows
<1>13. ASSUME NEW p \in InterestPaths,
              Here(o.client), o \in l, Untold(o), IsPrefix(PathOf[o], p)
       PROVE  Knows(o, p)'
  <2>1. CASE SomeCount(p)
    <3>1. /\ \E m \in N : About(m, o, p)
          /\ \A m \in N : About(m, o, p) => m.interested = TRUE
      BY <1>6, <1>7, <1>8, <1>13, <2>1
    <3>2. Concerns(o, p)
      BY <1>13 DEF Concerns
    <3>3. LastSays(Line(o.client)', told'[o][p], o, p, TRUE)
      BY <1>1, <1>2, <1>5, <1>13, <3>1, <3>2, TellsNow
    <3> QED
      BY <1>9, <2>1, <3>3 DEF Knows, LastTold
  <2>2. CASE ~SomeCount(p)
    <3>1. \A m \in N : ~About(m, o, p)
      BY <1>6, <1>8, <1>13, <2>2 DEF About
    <3>2. LastTold(o, p, FALSE)
      BY <1>2, <1>13, UntoldKnows
    <3> QED
      BY <1>9, <1>11, <2>2, <3>1, <3>2 DEF Knows
  <2> QED
    BY <2>1, <2>2
<1>14. Posted => Posted'
  BY <1>1, <1>2, <1>5, TellsWhom
<1> QED
  BY <1>3, <1>10, <1>12, <1>13, <1>14 DEF u

-----------------------------------------------------------------------------
(* The room in the tree.                                                   *)

\* What a watch or a value may take: a node for each name of its path.
Takings(x) == {x} \X (1 .. Len(x[2]))
Slots == UNION {Takings(x) : x \in Watch \cup Publish}

\* The table is large enough for all watches and values at once: when it is full a watch
\* is not made, of which the publisher does not learn (3361 returns nothing).
Enough == IsFiniteSet(Slots) /\ TableSize > Cardinality(Slots)

\* The server has got o's request of kind k (asked for once).
Past(k, o) == publishers[o] \in Reached(k) /\ ~Pending(Queue(o.client), k, o)
UsedBy == {<<o, PathOf[o]>> : o \in {q \in Owners : Past("watch", q)}}
          \cup {<<o, Attribute(o)>> : o \in {q \in Setters : Past("set", q)}}
Used(U) == UNION {Takings(x) : x \in U}

\* Room is left for those that have not come yet.
Spacious == Room(tree) + Cardinality(Used(UsedBy)) >= TableSize - 1

\* Those that have come are among all that may come.
LEMMA UsedBySome == UsedBy \subseteq Watch \cup Publish
BY PublisherAssumption DEF UsedBy, Watch, Publish

\* One more takes what its path is long.
LEMMA UsedMore ==
  ASSUME Enough, NEW U, U \subseteq Watch \cup Publish, NEW x \in Watch \cup Publish, x \notin U
  PROVE  /\ Cardinality(Used(U)) \in Nat /\ Len(x[2]) \in Nat
         /\ Cardinality(Used(U \cup {x})) = Cardinality(Used(U)) + Len(x[2])
         /\ Cardinality(Used(U \cup {x})) <= Cardinality(Slots) /\ Cardinality(Slots) \in Nat
<1> DEFINE A == Used(U)
           B == Takings(x)
           C == Used(U \cup {x})
<1>1. A \subseteq Slots /\ B \subseteq Slots /\ C = A \cup B
  BY DEF Used, Slots
<1>2. x[2] \in Seq(STRING)
  BY PublisherAssumption DEF Watch, Publish
<1>3. A \cap B = {}
  <2> SUFFICES ASSUME NEW z \in A, z \in B
               PROVE  FALSE
    OBVIOUS
  <2>1. PICK y \in U : z \in Takings(y)
    BY DEF Used
  <2>2. z[1] = y /\ z[1] = x
    BY <2>1 DEF Takings
  <2> QED
    BY <2>2
<1>4. Len(x[2]) \in Nat /\ IsFiniteSet(B) /\ Cardinality(B) = Len(x[2])
  <2> DEFINE n == Len(x[2])
             f == [i \in 1 .. n |-> <<x, i>>]
  <2>1. n \in Nat
    BY <1>2, LenProperties
  <2> HIDE DEF n
  <2>2. f \in Bijection(1 .. n, B)
    <3>1. B = {x} \X (1 .. n)
      BY DEF Takings, n
    <3>2. f \in [1 .. n -> B]
      BY <3>1
    <3>3. \A i, j \in 1 .. n : f[i] = f[j] => i = j
      OBVIOUS
    <3>4. \A z \in B : \E i \in 1 .. n : f[i] = z
      BY <3>1
    <3> HIDE DEF f, B
    <3> QED
      BY <3>2, <3>3, <3>4 DEF Bijection, Injection, Surjection, IsInjective
  <2>3. IsFiniteSet(1 .. n) /\ Cardinality(1 .. n) = n
    BY <2>1, FS_Interval
  <2> HIDE DEF f, B
  <2>4. ExistsBijection(1 .. n, B)
    BY <2>2 DEF ExistsBijection
  <2>5. IsFiniteSet(B) /\ Cardinality(B) = n
    BY <2>3, <2>4, FS_Bijection
  <2> QED
    BY <2>1, <2>5 DEF n
<1> HIDE DEF A, B, C
<1>5. IsFiniteSet(A) /\ IsFiniteSet(C)
  BY <1>1, FS_Subset DEF Enough
<1>6. /\ Cardinality(C) <= Cardinality(Slots)
      /\ Cardinality(A) \in Nat /\ Cardinality(Slots) \in Nat /\ Cardinality(C) \in Nat
  <2>1. C \in SUBSET Slots
    BY <1>1
  <2> QED
    BY <1>5, <2>1, FS_Subset, FS_CardinalityType DEF Enough
<1>7. Cardinality(C) = Cardinality(A) + Cardinality(B) - Cardinality(A \cap B)
  BY <1>1, <1>4, <1>5, FS_Union
<1>8. Cardinality(A \cap B) = 0
  BY <1>3, FS_EmptySet
<1> QED
  BY <1>4, <1>6, <1>7, <1>8 DEF A, C

\* There is room for one that has not come, and when it has, for the others.
LEMMA RoomFor ==
  ASSUME Sane, Enough, Spacious, NEW x \in Watch \cup Publish, x \notin UsedBy
  PROVE  /\ Room(tree) >= Len(x[2]) /\ Len(x[2]) \in Nat
         /\ Grove(tree') /\ Room(tree') >= Room(tree) - Len(x[2]) /\ UsedBy' = UsedBy \cup {x}
              => Spacious'
<1> DEFINE U == UsedBy
           n == Len(x[2])
           k == Cardinality(Used(U))
           m == Cardinality(Used(U \cup {x}))
<1>1. /\ k \in Nat /\ n \in Nat /\ m = k + n
      /\ m <= Cardinality(Slots) /\ Cardinality(Slots) \in Nat
  BY UsedMore, UsedBySome
<1>2. TableSize \in Nat /\ TableSize > Cardinality(Slots)
  BY MemoryAssumption DEF Enough
<1>3. Room(tree) \in Nat /\ Room(tree) + k >= TableSize - 1
  BY RoomIs DEF Sane, Spacious
<1>4. ASSUME Grove(tree'), Room(tree') >= Room(tree) - n, UsedBy' = U \cup {x}
      PROVE  Spacious'
  <2>1. Room(tree') \in Nat
    BY <1>4, RoomIs
  <2>2. Room(tree') + m >= TableSize - 1
    <3> HIDE DEF n, k, m
    <3> QED
      BY <1>1, <1>2, <1>3, <1>4, <2>1
  <2>3. Used(UsedBy)' = Used(U \cup {x})
    BY <1>4 DEF Used, Takings
  <2> QED
    BY <2>2, <2>3 DEF Spacious, Room
<1>5. Room(tree) >= n
  <2> HIDE DEF n, k, m
  <2> QED
    BY <1>1, <1>2, <1>3
<1> QED
  BY <1>1, <1>4, <1>5

-----------------------------------------------------------------------------
(* The invariant.                                                          *)

\* Every subscriber at p is alive.
AllHere(p) == \A x \in Subscribers : x.path = p => Here(x.client)

\* A publisher's path is watched from when the server gets its watch, while it is there.
Placed ==
  \A o \in Owners :
    /\ ~Past("watch", o) => Watched(tree, PathOf[o]) = <<>>
    /\ Registered(o) /\ Past("watch", o) => Watched(tree, PathOf[o]) = <<o>>

\* From then on it knows whether there is interest; before, it has been told nothing.
Expects(o, p) == Registered(o) /\ Past("watch", o) /\ IsPrefix(PathOf[o], p) /\ AllHere(p)
Informed ==
  /\ Posted
  /\ \A o \in Owners : ~Past("watch", o) => Untold(o)
  /\ \A o \in Owners, p \in InterestPaths : Expects(o, p) => Knows(o, p)

Known == Neat(tree) /\ Placed /\ Informed /\ Spacious

\* Where nobody is told anything and no watch that matters is lost, this stays.
LEMMA QuietKnown ==
  ASSUME Placed, Informed, NEW S, Loses(tree, tree', S), \A q \in Owners \cap S : ~Registered(q)',
         \A q \in Owners : Past("watch", q)' <=> Past("watch", q),
         \A q \in Owners : Registered(q)' /\ Past("watch", q) => Registered(q),
         gone \subseteq gone', UNCHANGED <<toClient, told>>,
         \A p \in InterestPaths : AllHere(p)' => (SomeCount(p)' <=> SomeCount(p))
  PROVE  Neat(tree)' /\ Placed' /\ Informed'
<1>1. Neat(tree)'
  BY DEF Loses, Neat, Watched, Stored
<1>2. Placed'
  BY DEF Placed, Loses, Watched
<1>3. Posted' /\ \A o \in Owners : Untold(o) => Untold(o)'
  BY DEF Informed, Posted, Untold, Unaddressed
<1>4. ASSUME NEW o \in Owners, NEW p \in InterestPaths, Expects(o, p)'
      PROVE  Knows(o, p)'
  <2>1. AllHere(p)' => AllHere(p)
    BY DEF AllHere, Here
  <2>2. Expects(o, p)
    BY <1>4, <2>1 DEF Expects
  <2>3. Knows(o, p) /\ (SomeCount(p)' <=> SomeCount(p))
    BY <1>4, <2>2 DEF Informed, Expects
  <2>4. \A b : LastTold(o, p, b) => LastSays(Line(o.client)', told'[o][p], o, p, b)
    BY DEF LastTold, Line
  <2> QED
    BY <2>3, <2>4 DEF Knows, LastTold
<1> QED
  BY <1>1, <1>2, <1>3, <1>4 DEF Informed

\* The server gets o's request of kind k.
Turn(k, o, l) ==
  /\ gone' = gone
  /\ k \in Rare => ~Past(k, o)
  /\ \A q \in Owners, j \in Rare : (j = "watch" \/ q \in Setters) =>
       (Past(j, q)' <=> Past(j, q) \/ (j = k /\ q = o))
  /\ \A q \in Owners : Registered(q)' => Registered(q) \/ (k = "watch" /\ q = o)
  /\ k \in {"unwatch", "remove"} => ~Registered(o)'
  /\ k = "watch" /\ Registered(o)' => o \in l
  /\ k = "set" => o \in Setters

\* Who takes what, then.
LEMMA UsedTurn ==
  ASSUME Apart, NotValues, NEW o \in Owners, NEW k \in Kinds \ Notifies, NEW l, Turn(k, o, l)
  PROVE  LET x == IF k = "watch" THEN <<o, PathOf[o]>> ELSE <<o, Attribute(o)>>
         IN k \in Rare => x \in Watch \cup Publish /\ x \notin UsedBy /\ UsedBy' = UsedBy \cup {x}
<1> DEFINE W == {q \in Owners : Past("watch", q)}
           V == {q \in Setters : Past("set", q)}
<1>1. UsedBy = {<<q, PathOf[q]>> : q \in W} \cup {<<q, Attribute(q)>> : q \in V}
  BY DEF UsedBy
<1>2. UsedBy' = {<<q, PathOf[q]>> : q \in W'} \cup {<<q, Attribute(q)>> : q \in V'}
  BY DEF UsedBy
<1>3. W' = IF k = "watch" THEN W \cup {o} ELSE W
  BY DEF Turn, Rare
<1>4. Setters \subseteq Owners
  BY PublisherAssumption
<1>5. V' = IF k = "set" THEN V \cup {o} ELSE V
  BY <1>4 DEF Turn, Rare
<1>6. /\ k = "watch" => o \notin W
      /\ k = "set" => o \notin V /\ o \in Setters
  BY DEF Turn, Rare
<1>7. V \subseteq Setters /\ W \subseteq Owners
  OBVIOUS
<1> HIDE DEF W, V
<1>8. CASE k = "watch"
  <2> DEFINE x == <<o, PathOf[o]>>
  <2>1. x \in Watch
    BY DEF Watch
  <2>2. x \notin UsedBy
    BY <1>1, <1>6, <1>7, <1>8 DEF NotValues
  <2>3. UsedBy' = UsedBy \cup {x}
    BY <1>1, <1>2, <1>3, <1>5, <1>8
  <2> QED
    BY <1>8, <2>1, <2>2, <2>3 DEF Rare
<1>9. CASE k = "set"
  <2> DEFINE x == <<o, Attribute(o)>>
  <2>1. x \in Publish
    BY <1>6, <1>9 DEF Publish
  <2>2. x \notin UsedBy
    BY <1>1, <1>6, <1>7, <1>9 DEF NotValues
  <2>3. UsedBy' = UsedBy \cup {x}
    BY <1>1, <1>2, <1>3, <1>5, <1>9
  <2> QED
    BY <1>9, <2>1, <2>2, <2>3 DEF Rare
<1> QED
  BY <1>8, <1>9 DEF Rare

\* Where the server has got no more requests, no more is taken.
PastSame == \A q \in Owners, j \in Rare : (j = "watch" \/ q \in Setters) =>
              (Past(j, q)' <=> Past(j, q))

\* So room is left as before, where the tree has grown no fuller.
LEMMA SpaciousSame ==
  ASSUME Enough, Spacious, PastSame, Grove(tree), Grove(tree'), Room(tree') >= Room(tree)
  PROVE  Spacious'
<1> DEFINE W == {q \in Owners : Past("watch", q)}
           V == {q \in Setters : Past("set", q)}
<1>1. W' = W /\ V' = V
  BY PublisherAssumption DEF PastSame, Rare
<1>2. UsedBy = {<<q, PathOf[q]>> : q \in W} \cup {<<q, Attribute(q)>> : q \in V}
  BY DEF UsedBy
<1>3. UsedBy' = {<<q, PathOf[q]>> : q \in W'} \cup {<<q, Attribute(q)>> : q \in V'}
  BY DEF UsedBy
<1> HIDE DEF W, V
<1>4. UsedBy' = UsedBy
  BY <1>1, <1>2, <1>3
<1> DEFINE n == Cardinality(Used(UsedBy))
<1>5. n' = n
  BY <1>4 DEF Used, Takings
<1>6. Room(tree) \in Nat /\ Room(tree') \in Nat
  BY RoomIs
<1>7. n \in Int
  <2>1. Used(UsedBy) \in SUBSET Slots
    BY UsedBySome DEF Used, Slots
  <2>2. IsFiniteSet(Used(UsedBy))
    BY <2>1, FS_Subset DEF Enough
  <2> QED
    BY <2>2, FS_CardinalityType
<1>8. TableSize \in Nat
  BY MemoryAssumption
<1>9. Room(tree) + n >= TableSize - 1
  BY DEF Spacious
<1>10. Spacious' <=> Room(tree') + n' >= TableSize - 1
  BY DEF Spacious, Room
<1> HIDE DEF n
<1> QED
  BY <1>5, <1>6, <1>7, <1>8, <1>9, <1>10

\* What a publisher asks for leaves the others as they are, and it as it should be.
LEMMA HandleLife ==
  ASSUME Sane, Known, Apart, NotValues, Enough, NEW o \in Owners, NEW k \in Kinds \ Notifies,
         NEW r, r.kind = k, r.owner = o, r.path = (IF k = "set" THEN Attribute(o) ELSE PathOf[o]),
         NEW from, NEW l, Handle(r, from, l), Turn(k, o, l), Grove(tree')
  PROVE  Known'
<1>1. Grove(tree) /\ Tales
  BY DEF Sane
<1>2. PathOf[o] \in Seq(STRING)
  BY PublisherAssumption
<1>3. CASE k = "watch"
  <2> DEFINE x == <<o, PathOf[o]>>
  <2>1. x \in Watch \cup Publish /\ x \notin UsedBy /\ UsedBy' = UsedBy \cup {x} /\ x[2] = PathOf[o]
    BY <1>3, UsedTurn DEF Rare
  <2> HIDE DEF x
  <2>2. /\ Room(tree) >= Len(PathOf[o])
        /\ Room(tree') >= Room(tree) - Len(PathOf[o]) => Spacious'
    BY <2>1, RoomFor DEF Known
  <2>3. ~Past("watch", o)
    BY <1>3 DEF Turn, Rare
  <2>4. Watched(tree, PathOf[o]) = <<>> /\ Untold(o)
    BY <2>3 DEF Known, Placed, Informed
  <2>5. /\ NewWatch(tree, tree', o)
        /\ Posted'
        /\ \A q \in Owners \ {o} : Untold(q) => Untold(q)'
        /\ \A q \in Owners \ {o}, p \in InterestPaths : Knows(q, p) => Knows(q, p)'
        /\ \A p \in InterestPaths :
             Here(o.client) /\ o \in l /\ IsPrefix(PathOf[o], p) => Knows(o, p)'
    BY <1>3, <2>2, <2>4, WatchTells DEF Known, Informed
  <2>6. tree' = Tree!AddWatch(tree, PathOf[o], o).tree
    BY <1>3 DEF Handle, Notifies
  <2>7. Room(tree') >= Room(tree) - Len(PathOf[o])
    BY <1>1, <1>2, <2>6, OwnersHold, Added
  <2>8. \A q \in Owners \ {o} : Past("watch", q)' <=> Past("watch", q)
    BY <1>3 DEF Turn, Rare
  <2>9. Past("watch", o)'
    BY <1>3 DEF Turn, Rare
  <2>10. \A q \in Owners \ {o} : Registered(q)' => Registered(q)
    BY DEF Turn
  <2>11. Neat(tree)' /\ Placed'
    BY <2>5, <2>8, <2>9, <2>10 DEF NewWatch, Neat, Watched, Stored, Known, Placed
  <2>12. ASSUME NEW q \in Owners, NEW p \in InterestPaths, Expects(q, p)'
         PROVE  Knows(q, p)'
    <3>1. CASE q = o
      <4>1. Here(o.client) /\ o \in l /\ IsPrefix(PathOf[o], p)
        BY <1>3, <2>12, <3>1 DEF Expects, Registered, Here, Turn
      <4> QED
        BY <2>5, <3>1, <4>1
    <3>2. CASE q # o
      <4>1. AllHere(p)' => AllHere(p)
        BY DEF AllHere, Here, Turn
      <4>2. Expects(q, p)
        BY <2>8, <2>10, <2>12, <3>2, <4>1 DEF Expects
      <4>3. Knows(q, p)
        BY <4>2 DEF Known, Informed
      <4> QED
        BY <2>5, <3>2, <4>3
    <3> QED
      BY <3>1, <3>2
  <2>13. \A q \in Owners : ~Past("watch", q)' => Untold(q)'
    BY <2>5, <2>8, <2>9 DEF Known, Informed
  <2>14. Informed'
    BY <2>5, <2>12, <2>13 DEF Informed
  <2> QED
    BY <2>2, <2>7, <2>11, <2>14 DEF Known
<1>4. CASE k # "watch"
  <2>1. UNCHANGED <<pathsOfInterest, toClient, told>>
    BY <1>4 DEF Handle, Notifies
  <2>2. /\ gone \subseteq gone'
        /\ \A q \in Owners : Past("watch", q)' <=> Past("watch", q)
        /\ \A q \in Owners : Registered(q)' => Registered(q)
    BY <1>4 DEF Turn, Rare
  <2>3. \A p \in InterestPaths : SomeCount(p)' <=> SomeCount(p)
    BY <2>1 DEF SomeCount
  <2>4. ASSUME NEW S, Loses(tree, tree', S), \A q \in Owners \cap S : ~Registered(q)', Spacious'
        PROVE  Known'
    <3>1. Neat(tree)' /\ Placed' /\ Informed'
      BY <2>1, <2>2, <2>3, <2>4, QuietKnown DEF Known
    <3> QED
      BY <2>4, <3>1 DEF Known
  <2>5. CASE k = "set"
    <3> DEFINE x == <<o, Attribute(o)>>
    <3>1. x \in Watch \cup Publish /\ x \notin UsedBy /\ UsedBy' = UsedBy \cup {x}
          /\ x[2] = Attribute(o)
      BY <2>5, UsedTurn DEF Rare
    <3> HIDE DEF x
    <3>2. o \in Setters
      BY <2>5 DEF Turn
    <3>3. PICK v \in Values : tree' = Tree!Insert(tree, Attribute(o), o, v).tree
      BY <2>5 DEF Handle, Notifies
    <3>4. Loses(tree, tree', {})
      BY <1>1, <3>2, <3>3, SetLoses DEF Known
    <3>5. Attribute(o) \in Seq(STRING) /\ <<o, Attribute(o)>> \in Publish
      BY <3>2, PublisherAssumption DEF Publish
    <3>6. Room(tree') >= Room(tree) - Len(Attribute(o))
      BY <1>1, <3>3, <3>5, Inserted
    <3>7. Spacious'
      BY <3>1, <3>6, RoomFor DEF Known
    <3> QED
      BY <2>4, <3>4, <3>7
  <2>6. CASE k # "set"
    <3>1. PastSame
      BY <1>4, <2>6 DEF PastSame, Turn, Rare
    <3>2. Room(tree') >= Room(tree) => Spacious'
      BY <1>1, <3>1, SpaciousSame DEF Known
    <3>3. CASE k = "unwatch"
      <4>1. tree' = Tree!RemWatch(tree, PathOf[o], o).tree
        BY <3>3 DEF Handle, Notifies
      <4>2. Loses(tree, tree', {o}) /\ Room(tree') >= Room(tree)
        BY <1>1, <1>2, <4>1, UnwatchLoses, Unwatched DEF Known
      <4>3. ~Registered(o)'
        BY <3>3 DEF Turn
      <4> QED
        BY <2>4, <3>2, <4>2, <4>3
    <3>4. CASE k = "remove"
      <4>1. tree' = Tree!RemoveItems(tree, PathOf[o], o).tree
        BY <3>4 DEF Handle, Notifies
      <4> DEFINE S == {q \in Owners : Takes(q, o)}
      <4>2. Loses(tree, tree', S) /\ Room(tree') >= Room(tree)
        BY <1>1, <1>2, <4>1, RemoveLoses, Removed DEF Known
      <4>3. ~Registered(o)'
        BY <3>4 DEF Turn
      <4>4. \A q \in S : q = o
        BY PublisherAssumption DEF Takes
      <4> QED
        BY <2>4, <3>2, <4>2, <4>3, <4>4
    <3> QED
      BY <1>4, <2>6, <3>3, <3>4 DEF Kinds, Notifies
  <2> QED
    BY <2>5, <2>6
<1> QED
  BY <1>3, <1>4

\* A publisher that is alive listens; a client that is not connected any more is gone.
Attentive ==
  /\ \A o \in Owners : publishers[o] \in {"watching", "set"} => o \in watchObjects
  /\ Clients \ connections \subseteq gone

Truth == Sane /\ Known /\ Attentive

\* Where the tree stays too, everything does.
LEMMA StillKnown ==
  ASSUME Known, Enough, PastSame, Grove(tree), tree' = tree,
         \A q \in Owners : Registered(q)' /\ Past("watch", q) => Registered(q),
         gone \subseteq gone', UNCHANGED <<pathsOfInterest, toClient, told>>
  PROVE  Known'
<1>1. Loses(tree, tree', {})
  BY DEF Loses, Known
<1>2. \A q \in Owners : Past("watch", q)' <=> Past("watch", q)
  BY DEF PastSame, Rare
<1>3. \A p \in InterestPaths : SomeCount(p)' <=> SomeCount(p)
  BY DEF SomeCount
<1>4. Neat(tree)' /\ Placed' /\ Informed'
  BY <1>1, <1>2, <1>3, QuietKnown DEF Known
<1>5. Room(tree) \in Nat /\ Room(tree') = Room(tree)
  BY RoomIs
<1>6. Spacious'
  BY <1>5, SpaciousSame DEF Known
<1> QED
  BY <1>4, <1>6 DEF Known

\* A subscriber that comes or goes is told to the publishers that have asked.
LEMMA HandleNotify ==
  ASSUME Truth, Apart, OneProcess, Enough, NEW x \in Subscribers, NEW b \in BOOLEAN,
         NEW r, r.kind = (IF b THEN "interest" ELSE "disinterest"), r.path = x.path,
         Handle(r, x.client, watchObjects), x.client \notin Clients \ connections,
         ~b => x \in Tally(Queue(x.client), subscribers, x.path, x.client),
         UNCHANGED <<publishers, gone>>, PastSame
  PROVE  Known'
<1> DEFINE p0 == x.path
           c0 == x.client
<1>1. p0 \in InterestPaths /\ c0 \in Procs
  BY ProcessAssumption DEF InterestPaths, Procs
<1>2. DoNotify(p0, c0, b, watchObjects)
  <2>1. (r.kind = "interest") = b
    OBVIOUS
  <2> QED
    BY <2>1 DEF Handle, Notifies
<1>3. \A c \in Procs \ {c0} : pathsOfInterest[p0][c] = 0
  BY OthersNone DEF Truth
<1>4. ~b => pathsOfInterest[p0][c0] > 0 /\ pathsOfInterest[p0][c0] < UintRange
  BY <1>1, SomeCounted DEF Truth
<1>5. /\ Posted'
      /\ \A o \in Owners : Watched(tree, PathOf[o]) = <<>> /\ Untold(o) => Untold(o)'
      /\ \A o \in Owners, p \in InterestPaths :
           Here(o.client) /\ o \in watchObjects /\ OnWay(tree, o, p) /\ Knows(o, p)
             => Knows(o, p)'
  <2> HIDE DEF p0, c0
  <2> QED
    BY <1>1, <1>2, <1>3, <1>4, NotifyTells DEF Truth, Known, Informed
<1>6. UNCHANGED tree
  BY <1>2 DEF DoNotify
<1>7. \A q \in Owners : /\ Past("watch", q)' <=> Past("watch", q)
                        /\ Registered(q)' <=> Registered(q)
  BY DEF PastSame, Rare, Registered, Here
<1>8. Neat(tree)' /\ Placed'
  BY <1>6, <1>7 DEF Truth, Known, Neat, Placed, Watched, Stored
<1>9. ASSUME NEW o \in Owners, ~Past("watch", o)'
      PROVE  Untold(o)'
  <2>1. Watched(tree, PathOf[o]) = <<>> /\ Untold(o)
    BY <1>7, <1>9 DEF Truth, Known, Placed, Informed
  <2> QED
    BY <1>5, <2>1
<1>10. ASSUME NEW o \in Owners, NEW p \in InterestPaths, Expects(o, p)'
       PROVE  Knows(o, p)'
  <2>1. Expects(o, p)
    BY <1>7, <1>10 DEF Expects, AllHere, Here
  <2>2. Knows(o, p) /\ OnWay(tree, o, p)
    BY <2>1 DEF Truth, Known, Informed, Placed, OnWay, Expects
  <2>3. Here(o.client) /\ o \in watchObjects
    BY <2>1 DEF Truth, Attentive, Expects, Registered
  <2> QED
    BY <1>5, <2>2, <2>3
<1>11. Spacious'
  <2>1. Grove(tree)
    BY DEF Truth, Sane
  <2>2. Room(tree) \in Nat
    BY <2>1, RoomIs
  <2> QED
    BY <1>6, <2>1, <2>2, SpaciousSame DEF Truth, Known
<1> QED
  BY <1>5, <1>8, <1>9, <1>10, <1>11 DEF Known, Informed

-----------------------------------------------------------------------------
(* The steps.                                                              *)

\* A publisher gets on by asking for k: it has not asked for that before.
Life(k, o, l) ==
  /\ UNCHANGED <<gone, connections, subscribers>>
  /\ Ask(o.client, Request(k, o), l)
  /\ k \in Rare => publishers[o] \notin Reached(k)
  /\ \A q \in Owners, j \in Rare : (j = "watch" \/ q \in Setters) =>
       (publishers'[q] \in Reached(j) <=> publishers[q] \in Reached(j) \/ (j = k /\ q = o))
  /\ \A q \in Owners : Registered(q)' => Registered(q) \/ (k = "watch" /\ q = o)
  /\ k \in {"unwatch", "remove"} => ~Registered(o)'
  /\ k = "watch" => o \in l
  /\ k = "set" => o \in Setters
  /\ \A q \in Owners : publishers'[q] \in {"watching", "set"} => q \in watchObjects'

\* The four steps of its life do that.
LEMMA LifeGoesOn ==
  ASSUME Sane, Attentive, NEW o \in Owners,
         Connect(o) \/ SetValue(o) \/ RemoveSubTree(o) \/ RemoveWatches(o)
  PROVE  \E k \in Kinds \ Notifies : \E l : Life(k, o, l)
<1>1. publishers \in [Owners -> Stages]
  BY DEF Sane, Lives
<1>2. \A q \in Owners : publishers[q] \in {"watching", "set"} => q \in watchObjects
  BY DEF Attentive
<1>3. ASSUME Connect(o)
      PROVE  Life("watch", o, watchObjects')
  <2>1. publishers' = [publishers EXCEPT ![o] = "watching"] /\ publishers[o] = "unconnected"
    BY <1>3 DEF Connect
  <2>2. watchObjects' = watchObjects \cup {o} /\ UNCHANGED <<gone, connections, subscribers>>
        /\ Ask(o.client, Request("watch", o), watchObjects')
    BY <1>3 DEF Connect, Request
  <2>3. publishers'[o] = "watching" /\ \A q \in Owners \ {o} : publishers'[q] = publishers[q]
    BY <1>1, <2>1
  <2> QED
    BY <1>1, <1>2, <2>1, <2>2, <2>3 DEF Life, Registered, Here, Rare, Reached, Stages
<1>4. ASSUME SetValue(o)
      PROVE  Life("set", o, watchObjects)
  <2>1. publishers' = [publishers EXCEPT ![o] = "set"] /\ publishers[o] = "watching"
    BY <1>4 DEF SetValue
  <2>2. UNCHANGED <<gone, watchObjects, connections, subscribers>>
        /\ Ask(o.client, Request("set", o), watchObjects) /\ o \in Setters
    BY <1>4 DEF SetValue, Request
  <2>3. publishers'[o] = "set" /\ \A q \in Owners \ {o} : publishers'[q] = publishers[q]
    BY <1>1, <2>1
  <2> QED
    BY <1>1, <1>2, <2>1, <2>2, <2>3 DEF Life, Registered, Here, Rare, Reached, Stages
<1>5. ASSUME RemoveSubTree(o)
      PROVE  Life("remove", o, watchObjects)
  <2>1. publishers' = [publishers EXCEPT ![o] = "leaving"] /\ publishers[o] = "set"
    BY <1>5 DEF RemoveSubTree
  <2>2. UNCHANGED <<gone, watchObjects, connections, subscribers>>
        /\ Ask(o.client, Request("remove", o), watchObjects)
    BY <1>5 DEF RemoveSubTree, Request
  <2>3. publishers'[o] = "leaving" /\ \A q \in Owners \ {o} : publishers'[q] = publishers[q]
    BY <1>1, <2>1
  <2> QED
    BY <1>1, <1>2, <2>1, <2>2, <2>3 DEF Life, Registered, Here, Rare, Reached, Stages
<1>6. ASSUME RemoveWatches(o)
      PROVE  Life("unwatch", o, watchObjects')
  <2>1. publishers' = [publishers EXCEPT ![o] = "destroyed"]
        /\ publishers[o] = IF o \in Setters THEN "leaving" ELSE "watching"
    BY <1>6 DEF RemoveWatches
  <2>2. watchObjects' = watchObjects \ {o} /\ UNCHANGED <<gone, connections, subscribers>>
        /\ Ask(o.client, Request("unwatch", o), watchObjects')
    BY <1>6 DEF RemoveWatches, NoLongerWatched, Request
  <2>3. publishers'[o] = "destroyed" /\ \A q \in Owners \ {o} : publishers'[q] = publishers[q]
    BY <1>1, <2>1
  <2> QED
    BY <1>1, <1>2, <2>1, <2>2, <2>3 DEF Life, Registered, Here, Rare, Reached, Stages
<1> QED
  BY <1>3, <1>4, <1>5, <1>6 DEF Kinds, Notifies

\* Then what the publishers know stays right.
LEMMA LifeKnown ==
  ASSUME Truth, Sane', Apart, NotValues, Enough, NEW o \in Owners, NEW k \in Kinds \ Notifies,
         NEW l, Life(k, o, l)
  PROVE  Known' /\ Attentive'
<1> DEFINE r == Request(k, o)
<1>1. /\ r \in Requests /\ r.kind = k /\ r.owner = o
      /\ r.path = IF k = "set" THEN Attribute(o) ELSE PathOf[o]
  BY DEF Life, Request, Asks, Requests
<1>2. Ask(o.client, r, l)
  BY DEF Life
<1> HIDE DEF r
<1>3. Attentive'
  BY DEF Truth, Attentive, Life
<1>4. CASE o.client = Server
  <2>1. Handle(r, Server, l) /\ UNCHANGED toServer
    BY <1>2, <1>4 DEF Ask
  <2>2. \A c : Queue(c)' = Queue(c)
    BY <2>1 DEF Queue
  <2>3. \A q \in Owners : \A j : Pending(Queue(q.client), j, q)' <=> Pending(Queue(q.client), j, q)
    BY <2>2 DEF Pending
  <2>4. \A j : ~Pending(Queue(o.client), j, o)
    <3>1. Queue(o.client) = <<>> /\ Len(<<>>) = 0
      BY <1>4 DEF Queue
    <3> QED
      BY <3>1 DEF Pending
  <2>5. Turn(k, o, l)
    BY <2>3, <2>4 DEF Turn, Life, Past
  <2>6. Grove(tree')
    BY DEF Sane
  <2> QED
    BY <1>1, <1>3, <2>1, <2>5, <2>6, HandleLife DEF Truth
<1>5. CASE o.client # Server
  <2>1. toServer' = [toServer EXCEPT ![o.client] = Append(toServer[o.client], r)]
        /\ UNCHANGED <<tree, pathsOfInterest, toClient, told>>
    BY <1>2, <1>5 DEF Ask
  <2>2. o.client \in Clients /\ toServer \in [Clients -> Seq(Requests)]
    BY <1>5, ProcessAssumption DEF Truth, Sane, Types
  <2>3. ASSUME NEW q \in Owners, NEW j
        PROVE  Pending(Queue(q.client), j, q)' <=>
                 Pending(Queue(q.client), j, q) \/ (j = k /\ q = o)
    <3>1. CASE q.client = o.client
      <4>1. Queue(q.client) = toServer[o.client] /\ Queue(q.client)' = Append(toServer[o.client], r)
        BY <1>5, <2>1, <2>2, <3>1 DEF Queue
      <4>2. Pending(Append(toServer[o.client], r), j, q) <=>
              Pending(toServer[o.client], j, q) \/ (r.kind = j /\ r.owner = q)
        BY <1>1, <2>2, PendingAppend
      <4> QED
        BY <1>1, <4>1, <4>2 DEF Pending
    <3>2. CASE q.client # o.client
      <4>1. Queue(q.client)' = Queue(q.client)
        BY <2>1, <2>2, <3>2, ProcessAssumption DEF Queue
      <4> QED
        BY <3>2, <4>1 DEF Pending
    <3> QED
      BY <3>1, <3>2
  <2>4. PastSame
    BY <2>3 DEF PastSame, Past, Life
  <2>5. \A q \in Owners : Registered(q)' /\ Past("watch", q) => Registered(q)
    BY DEF Life, Past, Rare
  <2>6. Known'
    BY <2>1, <2>4, <2>5, StillKnown DEF Truth, Sane, Life
  <2> QED
    BY <1>3, <2>6
<1> QED
  BY <1>4, <1>5

\* A subscriber is made or destroyed.
LEMMA AskNotify ==
  ASSUME Truth, Sane', Apart, OneProcess, Enough, NEW x \in Subscribers, NEW b \in BOOLEAN,
         NEW r \in Requests, r.kind = (IF b THEN "interest" ELSE "disinterest"),
         r.path = x.path, r.owner = x, Ask(x.client, r, watchObjects),
         ~b => subscribers[x] = "interested",
         UNCHANGED <<publishers, gone, connections, watchObjects>>
  PROVE  Known' /\ Attentive'
<1>1. Attentive'
  BY DEF Truth, Attentive
<1>2. \A q \in Owners : Registered(q)' <=> Registered(q)
  BY DEF Registered, Here
<1>3. CASE x.client = Server
  <2>1. Handle(r, x.client, watchObjects) /\ UNCHANGED toServer
    BY <1>3 DEF Ask
  <2>2. \A c : Queue(c)' = Queue(c)
    BY <2>1 DEF Queue
  <2>3. PastSame
    BY <2>2 DEF PastSame, Past, Pending
  <2>4. ~b => x \in Tally(Queue(x.client), subscribers, x.path, x.client)
    <3>1. Queue(x.client) = <<>> /\ Len(<<>>) = 0
      BY <1>3 DEF Queue
    <3> QED
      BY <3>1 DEF Tally, Counted, Pending
  <2>5. x.client \notin Clients \ connections
    BY <1>3, ProcessAssumption
  <2>6. Known'
    BY <2>1, <2>3, <2>4, <2>5, HandleNotify
  <2> QED
    BY <1>1, <2>6
<1>4. CASE x.client # Server
  <2>1. toServer' = [toServer EXCEPT ![x.client] = Append(toServer[x.client], r)]
        /\ UNCHANGED <<tree, pathsOfInterest, toClient, told>>
    BY <1>4 DEF Ask
  <2>2. x.client \in Clients /\ toServer \in [Clients -> Seq(Requests)]
    BY <1>4, ProcessAssumption DEF Truth, Sane, Types
  <2>3. ASSUME NEW q \in Owners, NEW j \in Rare
        PROVE  Pending(Queue(q.client), j, q)' <=> Pending(Queue(q.client), j, q)
    <3>1. CASE q.client = x.client
      <4>1. Queue(q.client) = toServer[x.client] /\ Queue(q.client)' = Append(toServer[x.client], r)
        BY <1>4, <2>1, <2>2, <3>1 DEF Queue
      <4>2. Pending(Append(toServer[x.client], r), j, q) <=>
              Pending(toServer[x.client], j, q) \/ (r.kind = j /\ r.owner = q)
        BY <2>2, PendingAppend
      <4>3. r.kind # j
        BY DEF Rare
      <4> QED
        BY <4>1, <4>2, <4>3 DEF Pending
    <3>2. CASE q.client # x.client
      <4>1. Queue(q.client)' = Queue(q.client)
        BY <2>1, <2>2, <3>2, ProcessAssumption DEF Queue
      <4> QED
        BY <3>2, <4>1 DEF Pending
    <3> QED
      BY <3>1, <3>2
  <2>4. PastSame
    BY <2>3 DEF PastSame, Past
  <2>5. Known'
    BY <1>2, <2>1, <2>4, StillKnown DEF Truth, Sane
  <2> QED
    BY <1>1, <2>5
<1> QED
  BY <1>3, <1>4

\* The server serves a request.
LEMMA ServeKnown ==
  ASSUME Truth, Sane', Apart, NotValues, OneProcess, Enough, NEW c \in Clients, Serve(c)
  PROVE  Known' /\ Attentive'
<1> DEFINE w == toServer[c]
           r == Head(w)
<1>1. /\ w \in Seq(Requests) /\ w # <<>> /\ Asked(w, c, publishers)
      /\ Proper(w, c, subscribers) /\ c \in connections
  BY DEF Serve, ReadIfConnected, Truth, Sane, Types, Lives, Queues
<1>2. /\ toServer' = [toServer EXCEPT ![c] = Tail(w)]
      /\ Handle(r, c, watchObjects)
      /\ UNCHANGED <<connections, watchObjects, publishers, subscribers, gone>>
  BY DEF Serve, lives
<1>3. r \in Requests /\ (r.kind \notin Notifies => Made(r, c, publishers))
  BY <1>1, AskedTail
<1>4. \A d \in Procs : Queue(d) = IF d = c THEN w ELSE Queue(d)
  BY ProcessAssumption DEF Queue
<1>5. \A d \in Procs : Queue(d)' = IF d = c THEN Tail(w) ELSE Queue(d)
  BY <1>2, ProcessAssumption DEF Queue, Procs, Truth, Sane, Types
<1>6. c # Server
  BY ProcessAssumption
<1> HIDE DEF w
<1>7. \A q \in Owners : q.client \in Procs
  BY ProcessAssumption DEF Procs
<1>8. ASSUME NEW q \in Owners, NEW j \in Rare
      PROVE  /\ Past(j, q)' <=> Past(j, q) \/ (j = r.kind /\ q = r.owner)
             /\ j = r.kind /\ q = r.owner => ~Past(j, q)
  <2>1. CASE q.client = c
    <3>1. Pending(Tail(w), j, q) <=> Pending(w, j, q) /\ ~(r.kind = j /\ r.owner = q)
      <4>1. \A i, m \in 1 .. Len(w) :
              w[i].kind = j /\ w[m].kind = j /\ w[i].owner = w[m].owner => i = m
        BY <1>1 DEF Asked
      <4> QED
        BY <1>1, <4>1, PendingOnce
    <3>2. r.kind = j /\ r.owner = q => Pending(w, j, q) /\ publishers[q] \in Reached(j)
      <4>1. 1 \in 1 .. Len(w) /\ w[1] = r
        BY <1>1, EmptySeq, LenProperties
      <4> QED
        BY <1>3, <4>1 DEF Pending, Made, Rare, Notifies
    <3>3. Queue(q.client) = w /\ Queue(q.client)' = Tail(w)
      BY <1>4, <1>5, <1>7, <2>1
    <3>4. /\ Past(j, q) <=> publishers[q] \in Reached(j) /\ ~Pending(w, j, q)
          /\ Past(j, q)' <=> publishers[q] \in Reached(j) /\ ~Pending(Tail(w), j, q)
      BY <1>2, <3>3 DEF Past, Pending, Reached
    <3> QED
      BY <3>1, <3>2, <3>4
  <2>2. CASE q.client # c
    <3>1. Queue(q.client)' = Queue(q.client)
      BY <1>5, <1>7, <2>2
    <3>2. Past(j, q)' <=> Past(j, q)
      BY <1>2, <3>1 DEF Past, Pending, Reached
    <3>3. ~(j = r.kind /\ q = r.owner)
      BY <1>3, <2>2 DEF Made, Rare, Notifies
    <3> QED
      BY <3>2, <3>3
  <2> QED
    BY <2>1, <2>2
<1> HIDE DEF r
<1>9. Attentive'
  BY <1>2 DEF Truth, Attentive
<1>10. CASE r.kind \notin Notifies
  <2>1. PICK o \in Owners, k \in Kinds \ Notifies : o = r.owner /\ k = r.kind
    BY <1>3, <1>10 DEF Made, Requests
  <2>2. /\ k = "set" => o \in Setters
        /\ r.path = IF k = "set" THEN Attribute(o) ELSE PathOf[o]
        /\ publishers[o] \in Reached(k)
    BY <1>3, <1>10, <2>1 DEF Made
  <2>3. \A q \in Owners : Registered(q)' <=> Registered(q)
    BY <1>2 DEF Registered, Here
  <2>4. k \in {"unwatch", "remove"} => ~Registered(o)
    BY <2>2 DEF Reached, Registered
  <2>5. Registered(o) => o \in watchObjects
    BY <2>2 DEF Truth, Attentive, Registered
  <2>6. Turn(k, o, watchObjects)
    <3>1. \A q \in Owners, j \in Rare : Past(j, q)' <=> Past(j, q) \/ (j = k /\ q = o)
      BY <1>8, <2>1
    <3>2. k \in Rare => ~Past(k, o)
      BY <1>8, <2>1
    <3>3. /\ gone' = gone
          /\ \A q \in Owners : Registered(q)' => Registered(q) \/ (k = "watch" /\ q = o)
          /\ k = "watch" /\ Registered(o)' => o \in watchObjects
          /\ k = "set" => o \in Setters
      BY <1>2, <2>2, <2>3, <2>5
    <3>4. k \in {"unwatch", "remove"} => ~Registered(o)'
      BY <2>2, <2>3, <2>4
    <3> QED
      BY <3>1, <3>2, <3>3, <3>4 DEF Turn
  <2>7. Grove(tree')
    BY DEF Sane
  <2>8. Known'
    BY <1>2, <2>1, <2>2, <2>6, <2>7, HandleLife DEF Truth
  <2> QED
    BY <1>9, <2>8
<1>11. CASE r.kind \in Notifies
  <2> DEFINE x == r.owner
             b == r.kind = "interest"
  <2>1. /\ x \in Subscribers /\ x.client = c /\ r.path = x.path
        /\ ~b => /\ subscribers[x] = "destroyed" /\ ~Pending(w, "interest", x)
                 /\ Pending(w, "disinterest", x)
    BY <1>1, <1>11, HeadAbout DEF r, Notifies
  <2>2. b \in BOOLEAN /\ r.kind = IF b THEN "interest" ELSE "disinterest"
    BY <1>11 DEF Notifies
  <2>3. PastSame
    BY <1>8, <1>11 DEF PastSame, Rare, Notifies
  <2>4. c \in Procs
    BY DEF Procs
  <2>5. ~b => x \in Tally(Queue(c), subscribers, r.path, c)
    <3>1. Queue(c) = w
      BY <1>4, <2>4
    <3> QED
      BY <2>1, <3>1 DEF Tally, Counted
  <2> HIDE DEF x, b
  <2>6. Known'
    BY <1>1, <1>2, <2>1, <2>2, <2>3, <2>5, HandleNotify
  <2> QED
    BY <1>9, <2>6
<1> QED
  BY <1>10, <1>11

\* A client hears a notice.
LEMMA DeliverKnown ==
  ASSUME Truth, Sane', Enough, NEW c \in Clients, Deliver(c)
  PROVE  Known' /\ Attentive'
<1> DEFINE w == toClient[c]
           n == Head(w)
<1>1. /\ w # <<>> /\ toClient' = [toClient EXCEPT ![c] = Tail(w)]
      /\ told' = Heard({n}, watchObjects)
      /\ UNCHANGED <<tree, pathsOfInterest, connections, toServer, watchObjects, publishers,
                     subscribers, gone>>
  BY DEF Deliver, lives
<1>2. w \in Seq(Notices) /\ toClient \in [Clients -> Seq(Notices)]
  BY DEF Truth, Sane, Tales
<1>3. c # Server
  BY ProcessAssumption
<1>4. n \in ToSet(w) /\ ToSet(Tail(w)) \subseteq ToSet(w)
  <2>1. /\ Len(w) \in Nat /\ Len(w) > 0 /\ Len(Tail(w)) = Len(w) - 1 /\ w[1] = n
        /\ \A i \in 1 .. Len(w) - 1 : Tail(w)[i] = w[i + 1]
        /\ Tail(w) \in Seq(Notices)
    <3>1. Len(w) \in Nat /\ Len(w) > 0
      BY <1>1, <1>2, EmptySeq, LenProperties
    <3>2. w[1] = n
      OBVIOUS
    <3> HIDE DEF w
    <3> QED
      BY <1>1, <1>2, <3>1, <3>2, HeadTailProperties
  <2> HIDE DEF w, n
  <2>2. /\ ToSet(w) = {w[i] : i \in 1 .. Len(w)}
        /\ ToSet(Tail(w)) = {Tail(w)[i] : i \in 1 .. Len(Tail(w))}
    BY <1>2, <2>1, LenProperties DEF ToSet
  <2>3. /\ 1 \in 1 .. Len(w)
        /\ \A i \in 1 .. Len(Tail(w)) : i + 1 \in 1 .. Len(w) /\ Tail(w)[i] = w[i + 1]
    BY <2>1
  <2> QED
    BY <2>1, <2>2, <2>3
<1> HIDE DEF w, n
<1>5. /\ toClient'[c] = Tail(w) /\ toClient[c] = w
      /\ \A d \in Clients \ {c} : toClient'[d] = toClient[d]
  BY <1>1, <1>2 DEF w
<1>6. \A d \in Clients : ToSet(toClient'[d]) \subseteq ToSet(toClient[d])
  BY <1>4, <1>5
<1>7. n.to.client = c
  BY <1>4, <1>5 DEF Truth, Known, Informed, Posted
<1>8. PastSame /\ \A q \in Owners : Past("watch", q)' <=> Past("watch", q)
  BY <1>1 DEF PastSame, Past, Pending, Queue
<1>9. \A q \in Owners : Registered(q)' <=> Registered(q)
  BY <1>1 DEF Registered, Here
<1>10. Neat(tree)' /\ Placed'
  BY <1>1, <1>8, <1>9 DEF Truth, Known, Neat, Placed, Watched, Stored
<1>11. Posted'
  BY <1>6 DEF Truth, Known, Informed, Posted
<1>12. ASSUME NEW o \in Owners, ~Past("watch", o)'
       PROVE  Untold(o)'
  <2>1. Untold(o)
    BY <1>8, <1>12 DEF Truth, Known, Informed
  <2>2. n.to # o
    BY <1>4, <1>5, <2>1 DEF Untold, Unaddressed
  <2>3. Unaddressed(o)'
    BY <1>6, <2>1 DEF Untold, Unaddressed
  <2>4. ASSUME NEW p \in InterestPaths
        PROVE  told'[o][p] = FALSE
    <3>1. \A m \in {n} : ~About(m, o, p)
      BY <2>2 DEF About
    <3>2. told'[o][p] = told[o][p]
      BY <1>1, <3>1, HeardIs
    <3> QED
      BY <2>1, <3>2 DEF Untold
  <2> QED
    BY <2>3, <2>4 DEF Untold
<1>13. ASSUME NEW o \in Owners, NEW p \in InterestPaths, Expects(o, p)'
       PROVE  Knows(o, p)'
  <2>1. Expects(o, p)
    BY <1>1, <1>8, <1>9, <1>13 DEF Expects, AllHere, Here
  <2>2. Knows(o, p) /\ (SomeCount(p)' <=> SomeCount(p))
    BY <1>1, <2>1 DEF Truth, Known, Informed, SomeCount
  <2>3. ASSUME NEW b, LastTold(o, p, b)
        PROVE  LastSays(Line(o.client)', told'[o][p], o, p, b)
    <3>1. CASE o.client = c
      <4>1. Line(o.client) = w /\ Line(o.client)' = Tail(w)
        BY <1>3, <1>5, <3>1 DEF Line
      <4>2. told'[o][p] = IF About(n, o, p) THEN n.interested ELSE told[o][p]
        <5>1. o \in watchObjects /\ Concerns(o, p)
          BY <2>1 DEF Truth, Attentive, Expects, Registered, Concerns
        <5>2. CASE About(n, o, p)
          <6>1. /\ \E m \in {n} : About(m, o, p)
                /\ \A m \in {n} : About(m, o, p) => m.interested = n.interested
            BY <5>2
          <6>2. Heard({n}, watchObjects)[o][p] = n.interested
            BY <5>1, <6>1, HeardIs
          <6> QED
            BY <1>1, <5>2, <6>2
        <5>3. CASE ~About(n, o, p)
          <6>1. \A m \in {n} : ~About(m, o, p)
            BY <5>3
          <6>2. Heard({n}, watchObjects)[o][p] = told[o][p]
            BY <6>1, HeardIs
          <6> QED
            BY <1>1, <5>3, <6>2
        <5> QED
          BY <5>2, <5>3
      <4>3. LastSays(w, told[o][p], o, p, b)
        BY <2>3, <4>1 DEF LastTold
      <4>4. LastSays(Tail(w), told'[o][p], o, p, b)
        BY <1>1, <1>2, <4>2, <4>3, LastHeard DEF n
      <4> QED
        BY <4>1, <4>4
    <3>2. CASE o.client # c
      <4>1. Line(o.client)' = Line(o.client)
        BY <1>5, <3>2, ProcessAssumption DEF Line
      <4>2. \A m \in {n} : ~About(m, o, p)
        BY <1>7, <3>2 DEF About
      <4>3. told'[o][p] = told[o][p]
        BY <1>1, <4>2, HeardIs
      <4> QED
        BY <2>3, <4>1, <4>3 DEF LastTold
    <3> QED
      BY <3>1, <3>2
  <2> QED
    BY <2>2, <2>3 DEF Knows, LastTold
<1>14. Spacious'
  <2>1. Grove(tree) /\ tree' = tree
    BY <1>1 DEF Truth, Sane
  <2>2. Room(tree) \in Nat
    BY <2>1, RoomIs
  <2> QED
    BY <1>8, <2>1, <2>2, SpaciousSame DEF Truth, Known
<1>15. Attentive'
  BY <1>1 DEF Truth, Attentive
<1> QED
  BY <1>10, <1>11, <1>12, <1>13, <1>14, <1>15 DEF Known, Informed

\* A client dies.
LEMMA DieKnown ==
  ASSUME Truth, Sane', Enough, NEW c \in Clients, Die(c)
  PROVE  Known' /\ Attentive'
<1>1. /\ gone' = gone \cup {c}
      /\ UNCHANGED <<tree, pathsOfInterest, connections, toServer, toClient, watchObjects,
                     publishers, subscribers, told>>
  BY DEF Die
<1>2. PastSame
  BY <1>1 DEF PastSame, Past, Pending, Queue
<1>3. \A q \in Owners : Registered(q)' => Registered(q)
  BY <1>1 DEF Registered, Here
<1>4. Known'
  BY <1>1, <1>2, <1>3, StillKnown DEF Truth, Sane
<1> QED
  BY <1>1, <1>4 DEF Truth, Attentive

\* The server sees that it has.
LEMMA DisconnectedKnown ==
  ASSUME Truth, Sane', Enough, NEW c \in Clients, Disconnected(c)
  PROVE  Known' /\ Attentive'
<1> DEFINE S == {q \in Owners : Takes(q, EveryoneOf(c))}
<1>1. /\ c \in gone /\ c \in connections /\ connections' = connections \ {c}
      /\ tree' = Tree!RemoveItems(tree, <<>>, EveryoneOf(c)).tree
      /\ pathsOfInterest' = CountsDropped(c)
      /\ UNCHANGED <<toServer, toClient, told, watchObjects, publishers, subscribers, gone>>
  BY DEF Disconnected, lives
<1>2. <<>> \in Seq(STRING) /\ Grove(tree)
  BY DEF Truth, Sane
<1>3. Loses(tree, tree', S) /\ Room(tree') >= Room(tree)
  BY <1>1, <1>2, RemoveLoses, Removed DEF Truth, Known
<1>4. \A q \in S : q.client = c
  BY DEF Takes, EveryoneOf
<1> HIDE DEF S
<1>5. \A q \in Owners : Registered(q)' <=> Registered(q)
  BY <1>1 DEF Registered, Here
<1>6. \A q \in Owners \cap S : ~Registered(q)'
  BY <1>1, <1>4, <1>5 DEF Registered, Here
<1>7. PastSame /\ \A q \in Owners : Past("watch", q)' <=> Past("watch", q)
  BY <1>1 DEF PastSame, Past, Pending, Queue
<1>8. ASSUME NEW p \in InterestPaths, AllHere(p)'
      PROVE  SomeCount(p)' <=> SomeCount(p)
  <2> DEFINE T == Tally(Queue(c), subscribers, p, c)
  <2>1. T = {}
    BY <1>1, <1>8 DEF Tally, AllHere, Here
  <2>2. pathsOfInterest[p][c] = 0
    <3>1. pathsOfInterest[p][c] = Cardinality(T)
      BY <1>1 DEF Truth, Sane, Counts, Procs
    <3> QED
      BY <2>1, <3>1, FS_EmptySet
  <2>3. pathsOfInterest \in [InterestPaths -> [Procs -> Nat]]
    BY DEF Truth, Sane, Types
  <2>4. \A d \in Procs : pathsOfInterest'[p][d] = pathsOfInterest[p][d]
    <3>1. pathsOfInterest'[p] = [pathsOfInterest[p] EXCEPT ![c] = 0]
      BY <1>1 DEF CountsDropped
    <3> QED
      BY <2>2, <2>3, <3>1
  <2> QED
    BY <2>4 DEF SomeCount
<1>9. Neat(tree)' /\ Placed' /\ Informed'
  BY <1>1, <1>3, <1>5, <1>6, <1>7, <1>8, QuietKnown DEF Truth, Known
<1>10. Grove(tree')
  BY DEF Sane
<1>11. Spacious'
  BY <1>2, <1>3, <1>7, <1>10, SpaciousSame DEF Truth, Known
<1>12. Attentive'
  BY <1>1 DEF Truth, Attentive
<1> QED
  BY <1>9, <1>11, <1>12 DEF Known

\* Initially nobody watches and nobody has been told anything.
LEMMA InitTruth ==
  ASSUME Init
  PROVE  Truth
<1>1. Sane
  BY InitSane
<1>2. /\ Room(tree) = TableSize - 1
      /\ \A p \in Seq(STRING) : Watched(tree, p) = <<>> /\ Stored(tree, p) = <<>>
  BY Planted
<1>3. \A o \in Owners : PathOf[o] \in Seq(STRING)
  BY PublisherAssumption
<1>4. \A o \in Owners : publishers[o] = "unconnected"
  BY DEF Init
<1>5. Neat(tree)
  BY <1>2, <1>3 DEF Neat
<1>6. \A o \in Owners : ~Registered(o)
  BY <1>4 DEF Registered
<1>7. \A j \in Rare, o \in Owners : ~Past(j, o)
  BY <1>4 DEF Past, Rare, Reached, Stages
<1>8. Placed
  BY <1>2, <1>3, <1>6 DEF Placed
<1>9. \A c \in Clients : ToSet(toClient[c]) = {}
  <2>1. \A c \in Clients : toClient[c] = <<>>
    BY DEF Init
  <2>2. ToSet(<<>>) = {}
    BY DEF ToSet
  <2> QED
    BY <2>1, <2>2
<1>10. Informed
  BY <1>6, <1>9 DEF Informed, Posted, Untold, Unaddressed, Expects, Init
<1>11. Spacious
  <2>1. UsedBy = {}
    <3>1. {q \in Owners : Past("watch", q)} = {} /\ {q \in Setters : Past("set", q)} = {}
      BY <1>7, PublisherAssumption DEF Rare
    <3> QED
      BY <3>1 DEF UsedBy
  <2>2. Used({}) = {}
    BY DEF Used
  <2> QED
    BY <1>2, <2>1, <2>2, FS_EmptySet, MemoryAssumption DEF Spacious
<1>12. Attentive
  BY <1>4 DEF Attentive, Init
<1> QED
  BY <1>1, <1>5, <1>8, <1>10, <1>11, <1>12 DEF Truth, Known

\* Every step keeps what publishers know right.
LEMMA TruthStep ==
  ASSUME Truth, Apart, NotValues, OneProcess, Enough, [Next]_vars
  PROVE  Truth'
<1>1. Sane'
  BY SaneStep DEF Truth
<1>2. ASSUME NEW o \in Owners, Connect(o) \/ SetValue(o) \/ RemoveSubTree(o) \/ RemoveWatches(o)
      PROVE  Known' /\ Attentive'
  <2>1. PICK k \in Kinds \ Notifies : \E l : Life(k, o, l)
    BY <1>2, LifeGoesOn DEF Truth
  <2> QED
    BY <1>1, <2>1, LifeKnown
<1>3. ASSUME NEW x \in Subscribers, Subscribe(x) \/ Unsubscribe(x)
      PROVE  Known' /\ Attentive'
  <2>1. x.path \in InterestPaths
    BY DEF InterestPaths
  <2>2. CASE Subscribe(x)
    <3> DEFINE r == Asks("interest", x, x.path)
    <3>1. r \in Requests /\ r.kind = "interest" /\ r.path = x.path /\ r.owner = x
      BY <2>1 DEF Asks, Requests, Kinds, Notifies
    <3>2. /\ Ask(x.client, r, watchObjects)
          /\ UNCHANGED <<publishers, gone, connections, watchObjects>>
      BY <2>2 DEF Subscribe
    <3> HIDE DEF r
    <3>3. TRUE \in BOOLEAN
      OBVIOUS
    <3> QED
      BY <1>1, <3>1, <3>2, <3>3, AskNotify
  <2>3. CASE Unsubscribe(x)
    <3> DEFINE r == Asks("disinterest", x, x.path)
    <3>1. r \in Requests /\ r.kind = "disinterest" /\ r.path = x.path /\ r.owner = x
      BY <2>1 DEF Asks, Requests, Kinds, Notifies
    <3>2. /\ Ask(x.client, r, watchObjects) /\ subscribers[x] = "interested"
          /\ UNCHANGED <<publishers, gone, connections, watchObjects>>
      BY <2>3 DEF Unsubscribe
    <3> HIDE DEF r
    <3>3. FALSE \in BOOLEAN
      OBVIOUS
    <3> QED
      BY <1>1, <3>1, <3>2, <3>3, AskNotify
  <2> QED
    BY <1>3, <2>2, <2>3
<1>4. ASSUME NEW c \in Clients, Serve(c) \/ Deliver(c) \/ Die(c) \/ Disconnected(c)
      PROVE  Known' /\ Attentive'
  BY <1>1, <1>4, ServeKnown, DeliverKnown, DieKnown, DisconnectedKnown
<1>5. ASSUME UNCHANGED vars
      PROVE  Known' /\ Attentive'
  <2>1. UNCHANGED <<tree, pathsOfInterest, connections, toServer, toClient, watchObjects,
                    publishers, subscribers, gone, told>>
    BY <1>5 DEF vars
  <2>2. PastSame
    BY <2>1 DEF PastSame, Past, Pending, Queue
  <2>3. \A q \in Owners : Registered(q)' => Registered(q)
    BY <2>1 DEF Registered, Here
  <2>4. Known'
    BY <2>1, <2>2, <2>3, StillKnown DEF Truth, Sane
  <2> QED
    BY <2>1, <2>4 DEF Truth, Attentive
<1>6. Known' /\ Attentive'
  <2>1. CASE Next
    BY ONLY <2>1, <1>2, <1>3, <1>4 DEF Next
  <2>2. CASE UNCHANGED vars
    BY ONLY <2>2, <1>5
  <2> QED
    BY <2>1, <2>2
<1> QED
  BY ONLY <1>1, <1>6 DEF Truth

\* Where nothing is on its way, what a publisher knows is what there is.
LEMMA TruthTells ==
  ASSUME Truth
  PROVE  TellsTruth
<1> SUFFICES ASSUME Quiet, NEW o \in Owners, NEW p \in InterestPaths,
                    Registered(o), IsPrefix(PathOf[o], p), AllHere(p)
             PROVE  told[o][p] = Interested(p)
  BY DEF TellsTruth, AllHere
<1>1. \A c \in Procs : Here(c) => Queue(c) = <<>> /\ Line(c) = <<>>
  BY DEF Quiet, Queue, Line, Procs
<1>2. Len(<<>>) = 0
  OBVIOUS
<1>3. \A c \in Procs : \A k, x : Here(c) => ~Pending(Queue(c), k, x)
  BY <1>1, <1>2 DEF Pending
<1>4. o.client \in Procs /\ Here(o.client)
  BY ProcessAssumption DEF Registered, Procs
<1>5. Knows(o, p)
  <2>1. Past("watch", o)
    BY <1>3, <1>4 DEF Past, Registered, Reached, Stages
  <2> QED
    BY <2>1 DEF Truth, Known, Informed, Expects
<1>6. told[o][p] = IF SomeCount(p) THEN TRUE ELSE FALSE
  <2>1. Line(o.client) = <<>>
    BY <1>1, <1>4
  <2>2. \A b : LastTold(o, p, b) => told[o][p] = b
    BY <1>2, <2>1 DEF LastTold, LastSays, Silent
  <2> QED
    BY <1>5, <2>2 DEF Knows
<1>7. \A x \in Subscribers : x.client \in Procs
  BY ProcessAssumption DEF Procs
<1>8. ASSUME SomeCount(p)
      PROVE  Interested(p)
  <2>1. PICK c \in Procs : pathsOfInterest[p][c] > 0
    BY <1>8 DEF SomeCount
  <2> DEFINE T == Tally(Queue(c), subscribers, p, c)
  <2>2. pathsOfInterest[p][c] = IF c \in Clients \ connections THEN 0 ELSE Cardinality(T)
    BY DEF Truth, Sane, Counts
  <2>3. T # {}
    BY <2>1, <2>2, FS_EmptySet
  <2>4. PICK x \in Subscribers : x.client = c /\ x.path = p /\ Counted(Queue(c), subscribers, x)
    BY <2>3 DEF Tally
  <2>5. Here(c)
    BY <2>4 DEF AllHere
  <2>6. subscribers[x] = "interested"
    BY <1>3, <2>4, <2>5 DEF Counted
  <2> QED
    BY <2>4, <2>5, <2>6 DEF Interested
<1>9. ASSUME Interested(p)
      PROVE  SomeCount(p)
  <2>1. PICK x \in Subscribers : x.path = p /\ subscribers[x] = "interested" /\ Here(x.client)
    BY <1>9 DEF Interested
  <2>2. x.client \notin Clients \ connections
    BY <2>1 DEF Truth, Attentive, Here
  <2>3. x \in Tally(Queue(x.client), subscribers, p, x.client)
    BY <1>3, <1>7, <2>1 DEF Tally, Counted
  <2>4. pathsOfInterest[p][x.client] > 0
    BY <1>7, <2>2, <2>3, SomeCounted DEF Truth
  <2> QED
    BY <1>7, <2>4 DEF SomeCount
<1>10. SomeCount(p) <=> Interested(p)
  BY <1>8, <1>9
<1>11. Interested(p) \in BOOLEAN
  BY Zenon DEF Interested
<1> QED
  BY <1>6, <1>10, <1>11

\* Where one process subscribes to a path, publishers keep apart, no value is set at a
\* publisher's path and the table does not run full, a publisher that listens knows whether
\* anybody is interested in what it publishes, once nothing is on its way.
THEOREM TruthIsTold ==
  ASSUME OneProcess, Apart, NotValues, Enough
  PROVE  Spec => []TellsTruth
<1>1. Init => Truth
  BY InitTruth
<1>2. Truth /\ [Next]_vars => Truth'
  BY TruthStep
<1>3. Truth => TellsTruth
  BY TruthTells
<1> QED
  BY <1>1, <1>2, <1>3, PTL DEF Spec
================================================================================
