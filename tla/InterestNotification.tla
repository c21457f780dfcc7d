------------------------ MODULE InterestNotification ------------------------
(***************************************************************************)
(* How publishers learn that somebody subscribes to what they publish      *)
(* (QValueSpacePublisher::interestChanged(), class SharedMemoryLayer,      *)
(* sharedmemorylayer.cpp).  A publisher's watch lies in the tree at its    *)
(* path; the server counts, for each path and process, the subscribers;    *)
(* when the first comes or the last goes it tells the publishers watching  *)
(* on the way from the path up to the root.                                *)
(*                                                                         *)
(* The tree is FixedMemoryTree's, with the operations the server runs on   *)
(* it.  A client's requests reach the server in order, the notices reach   *)
(* the client in order; that requests travel in packets, and the SYNC      *)
(* messages, are SharedMemoryLayer's and left out.  A publisher and a      *)
(* subscriber live once, and no value is reset before its publisher goes.  *)
(* The departed client's own watches are not told anything: they are       *)
(* removed first and the process is gone.                                  *)
(*                                                                         *)
(* A definition that no other one uses is a slip: the definition after it  *)
(* as a wrong edit of the code would have it.  None is part of Next.       *)
(***************************************************************************)
EXTENDS Integers, Sequences, FiniteSets, SequencesExt

CONSTANTS
  Server,       \* the server process
  Clients,      \* the client processes
  Owners,       \* publishers: records [client, publisher]
  PathOf,       \* the path each publisher was made for
  Setters,      \* the publishers that also set a value
  Subscribers,  \* subscribers: records [client, path, number]
  Mortal,       \* clients whose process may end
  Values,       \* values, named by their length
  TableSize,    \* entries of the version table
  UintRange     \* 2^32, the range of a count

ASSUME ProcessAssumption ==
  /\ Mortal \subseteq Clients /\ Server \notin Clients
  /\ \A o \in Owners \cup Subscribers : o.client \in Clients \cup {Server}
ASSUME RangeAssumption ==
  IsFiniteSet(Subscribers) /\ UintRange \in Nat /\ UintRange > Cardinality(Subscribers)

\* A value is set below the publisher's path, as an attribute.
Attribute(o) == Append(PathOf[o], "attribute")
Watch == {<<o, PathOf[o]>> : o \in Owners}
Publish == {<<o, Attribute(o)>> : o \in Setters}
InterestPaths == {x.path : x \in Subscribers}
Procs == Clients \cup {Server}

VARIABLES
  tree,             \* shared memory
  pathsOfInterest,  \* server: how many subscribers of a process at a path
  connections,      \* server: the clients it is connected to
  toServer,         \* requests on their way
  toClient,         \* notices on their way
  watchObjects,     \* each process: its publishers that may be told
  publishers,       \* how far each publisher's life has got
  subscribers,      \* how far each subscriber's
  gone,             \* clients whose process has ended
  told              \* history: what a publisher was last told of a path

vars == <<tree, pathsOfInterest, connections, toServer, toClient, watchObjects,
          publishers, subscribers, gone, told>>
lives == <<watchObjects, publishers, subscribers, gone>>

Tree == INSTANCE FixedMemoryTree

ASSUME PublisherAssumption ==
  /\ \A o \in Owners :
       /\ o = [client |-> o.client, publisher |-> o.publisher] /\ o.publisher # Tree!Everyone
       /\ PathOf[o] \in Seq(STRING) /\ Attribute(o) \in Seq(STRING)
  /\ Setters \subseteq Owners
ASSUME SubscriberAssumption == \A x \in Subscribers : x.path \in Seq(STRING)
ASSUME MemoryAssumption == TableSize \in Nat \ {0} /\ Values \subseteq Nat \ {0}
-----------------------------------------------------------------------------
(* Telling publishers.                                                     *)

\* watchers(): the watches at the closest node and at each of its ancestors.
Watchers(t, p) ==
  LET w == Tree!Walk(t, p)
      up[i \in 0 .. Len(p)] ==
        t.node[w[i]].watches \o IF i = 0 THEN <<>> ELSE up[i - 1]
  IN up[Tree!Matched(t, p)]

\* doClientNotify(): what publishers have been told once they heard notices.
\* Those destroyed do not listen, nor does one for a path that is not its own.
\* The code compares characters (startsWith()), the model names: they differ
\* only where one name begins with another.
Concerns(o, p) == IsPrefix(PathOf[o], p) \/ IsPrefix(p, PathOf[o])
Heard(N, listening) ==
  [o \in Owners |-> [p \in InterestPaths |->
     LET mine == {n \in N : n.to = o /\ n.path = p}
     IN IF mine = {} \/ o \notin listening \/ ~Concerns(o, p) THEN told[o][p]
        ELSE (CHOOSE n \in mine : TRUE).interested]]

\* A notice reaches publishers of the server's process at once, those of a
\* client's process by a message.
Tell(notices, listening) ==
  \E N \in {notices} :
    /\ told' = Heard({n \in N : n.to.client = Server}, listening)
    /\ toClient' = [c \in Clients |->
         IF c \in gone THEN toClient[c]
         ELSE toClient[c] \o SetToSeq({n \in N : n.to.client = c})]

\* The watches a change of interest is told: all those of the server's own
\* process, the first one of each client (`written').
Addressed(owners) ==
  {owners[i] : i \in {j \in DOMAIN owners :
     owners[j].client = Server \/ \A l \in 1 .. j - 1 : owners[l].client # owners[j].client}}

\* doNotify(): the count moves; watches are told when it becomes one, or none.
CountUp(n) == n + 1
CountDown(n) == (n - 1) % UintRange
ToldEveryTime(n, interested) == TRUE
ToldOnce(n, interested) == n = IF interested THEN 1 ELSE 0

DoNotify(p, from, interested, listening) ==
  LET n == IF interested THEN CountUp(pathsOfInterest[p][from])
                         ELSE CountDown(pathsOfInterest[p][from])
      owners == Addressed(Watchers(tree, p))
  IN /\ pathsOfInterest' = [pathsOfInterest EXCEPT ![p][from] = n]
     /\ Tell(IF ToldOnce(n, interested)
               THEN {[to |-> o, path |-> p, interested |-> interested] : o \in owners}
               ELSE {}, listening)
     /\ UNCHANGED tree

\* doNotifyObject(): a new watch is told of the interest there already is.
ToldBefore(t, o) ==
  {p \in InterestPaths :
     /\ \E c \in Procs : pathsOfInterest[p][c] > 0
     /\ o \in ToSet(Watchers(t, p))}

\* doSetWatch(), doRemWatch(), doSetItem(), doRemItems(), doNotify(): what the
\* server does for a request, of a client or of its own process.
Handle(r, from, listening) ==
  \/ /\ r.kind = "watch"
     /\ \E t \in {Tree!AddWatch(tree, r.path, r.owner).tree} :
          /\ tree' = t
          /\ Tell({[to |-> r.owner, path |-> p, interested |-> TRUE] :
                     p \in ToldBefore(t, r.owner)}, listening)
     /\ UNCHANGED pathsOfInterest
  \/ /\ \/ /\ r.kind = "unwatch"
           /\ tree' = Tree!RemWatch(tree, r.path, r.owner).tree
        \/ /\ r.kind = "set"
           /\ \E v \in Values : tree' = Tree!Insert(tree, r.path, r.owner, v).tree
        \/ /\ r.kind = "remove"
           /\ tree' = Tree!RemoveItems(tree, r.path, r.owner).tree
     /\ UNCHANGED <<pathsOfInterest, toClient, told>>
  \/ /\ r.kind \in {"interest", "disinterest"}
     /\ DoNotify(r.path, from, r.kind = "interest", listening)

\* A process asks for one thing: the server's own at once, a client by message.
Ask(proc, r, listening) ==
  IF proc = Server
    THEN Handle(r, Server, listening) /\ UNCHANGED toServer
    ELSE /\ toServer' = [toServer EXCEPT ![proc] = Append(@, r)]
         /\ UNCHANGED <<tree, pathsOfInterest, toClient, told>>
-----------------------------------------------------------------------------
(* Publishers and subscribers.                                             *)

Asks(kind, o, p) == [kind |-> kind, owner |-> o, path |-> p]
Here(proc) == proc \notin gone

\* connectNotify(): the first connection to interestChanged(); addWatch().
Connect(o) ==
  /\ Here(o.client) /\ publishers[o] = "unconnected"
  /\ publishers' = [publishers EXCEPT ![o] = "watching"]
  /\ watchObjects' = watchObjects \cup {o}
  /\ Ask(o.client, Asks("watch", o, PathOf[o]), watchObjects')
  /\ UNCHANGED <<connections, subscribers, gone>>

\* setValue(), once.
SetValue(o) ==
  /\ o \in Setters /\ Here(o.client) /\ publishers[o] = "watching"
  /\ publishers' = [publishers EXCEPT ![o] = "set"]
  /\ Ask(o.client, Asks("set", o, Attribute(o)), watchObjects)
  /\ UNCHANGED <<connections, watchObjects, subscribers, gone>>

\* ~QValueSpacePublisher(): removeSubTree() of what it has set, removeWatches().
NoLongerWatched(o) == watchObjects \ {o}
RemoveSubTree(o) ==
  /\ Here(o.client) /\ publishers[o] = "set"
  /\ publishers' = [publishers EXCEPT ![o] = "leaving"]
  /\ Ask(o.client, Asks("remove", o, PathOf[o]), watchObjects)
  /\ UNCHANGED <<connections, watchObjects, subscribers, gone>>

RemoveWatches(o) ==
  /\ Here(o.client)
  /\ publishers[o] \in (IF o \in Setters THEN {"leaving"} ELSE {"watching"})
  /\ publishers' = [publishers EXCEPT ![o] = "destroyed"]
  /\ watchObjects' = NoLongerWatched(o)
  /\ Ask(o.client, Asks("unwatch", o, PathOf[o]), watchObjects')
  /\ UNCHANGED <<connections, subscribers, gone>>

\* QValueSpaceSubscriberPrivate: notifyInterest() when made and when destroyed.
Subscribe(x) ==
  /\ Here(x.client) /\ subscribers[x] = "new"
  /\ subscribers' = [subscribers EXCEPT ![x] = "interested"]
  /\ Ask(x.client, Asks("interest", x, x.path), watchObjects)
  /\ UNCHANGED <<connections, watchObjects, publishers, gone>>

Unsubscribe(x) ==
  /\ Here(x.client) /\ subscribers[x] = "interested"
  /\ subscribers' = [subscribers EXCEPT ![x] = "destroyed"]
  /\ Ask(x.client, Asks("disinterest", x, x.path), watchObjects)
  /\ UNCHANGED <<connections, watchObjects, publishers, gone>>
-----------------------------------------------------------------------------
(* The server, the network and the processes.                              *)

\* disconnected() takes the connection off, so nothing of it is read any more.
ReadRegardless(c) == TRUE
ReadIfConnected(c) == c \in connections

\* readyRead(), server: one request of a client.
Serve(c) ==
  /\ toServer[c] # <<>> /\ ReadIfConnected(c)
  /\ toServer' = [toServer EXCEPT ![c] = Tail(@)]
  /\ Handle(Head(toServer[c]), c, watchObjects)
  /\ UNCHANGED <<connections, lives>>

\* readyRead(), client: one notice.
Deliver(c) ==
  /\ toClient[c] # <<>> /\ Here(c)
  /\ toClient' = [toClient EXCEPT ![c] = Tail(@)]
  /\ told' = Heard({Head(toClient[c])}, watchObjects)
  /\ UNCHANGED <<tree, pathsOfInterest, connections, toServer, lives>>

Die(c) ==
  /\ c \in Mortal \ gone
  /\ gone' = gone \cup {c}
  /\ UNCHANGED <<tree, pathsOfInterest, connections, toServer, toClient, watchObjects,
                 publishers, subscribers, told>>

\* disconnected(), server: the client's part of the tree and its counts go.
\* Nobody is told: the notices are for the departed client's own watches.
EveryoneOf(c) == [client |-> c, publisher |-> Tree!Everyone]
CountsKept(c) == pathsOfInterest
CountsDropped(c) == [p \in InterestPaths |-> [pathsOfInterest[p] EXCEPT ![c] = 0]]
Disconnected(c) ==
  /\ c \in gone \cap connections
  /\ connections' = connections \ {c}
  /\ tree' = Tree!RemoveItems(tree, <<>>, EveryoneOf(c)).tree
  /\ pathsOfInterest' = CountsDropped(c)
  /\ UNCHANGED <<toServer, toClient, told, lives>>

Init ==
  /\ tree = Tree!EmptyTree
  /\ pathsOfInterest = [p \in InterestPaths |-> [c \in Procs |-> 0]]
  /\ connections = Clients
  /\ toServer = [c \in Clients |-> <<>>]
  /\ toClient = [c \in Clients |-> <<>>]
  /\ watchObjects = {}
  /\ publishers = [o \in Owners |-> "unconnected"]
  /\ subscribers = [x \in Subscribers |-> "new"]
  /\ gone = {}
  /\ told = [o \in Owners |-> [p \in InterestPaths |-> FALSE]]

Next ==
  \/ \E o \in Owners :
       Connect(o) \/ SetValue(o) \/ RemoveSubTree(o) \/ RemoveWatches(o)
  \/ \E x \in Subscribers : Subscribe(x) \/ Unsubscribe(x)
  \/ \E c \in Clients : Serve(c) \/ Deliver(c) \/ Die(c) \/ Disconnected(c)

Spec == Init /\ [][Next]_vars
-----------------------------------------------------------------------------
Interested(p) ==
  \E x \in Subscribers : x.path = p /\ subscribers[x] = "interested" /\ Here(x.client)

Registered(o) == Here(o.client) /\ publishers[o] \in {"watching", "set"}

\* The counts are within reach and every queue holds what belongs there.
TypeOK ==
  /\ \A p \in InterestPaths, c \in Procs :
       pathsOfInterest[p][c] \in 0 .. Cardinality(Subscribers)
  /\ connections \subseteq Clients /\ gone \subseteq Mortal
  /\ watchObjects \subseteq Owners
  /\ told \in [Owners -> [InterestPaths -> BOOLEAN]]

Waiting(c, kind, p) ==
  IF c = Server THEN 0
  ELSE Cardinality({i \in 1 .. Len(toServer[c]) :
                      toServer[c][i].kind = kind /\ toServer[c][i].path = p})

\* What the server has counted, with the requests on their way, is how many
\* subscribers there are, and nothing remains of a client that has left:
\* no interest is counted twice, lost, or kept for a process that ended.
InterestCounted ==
  \A p \in InterestPaths, c \in Procs :
    IF c \in Clients \ connections THEN pathsOfInterest[p][c] = 0
    ELSE pathsOfInterest[p][c] + Waiting(c, "interest", p) - Waiting(c, "disinterest", p)
         = Cardinality({x \in Subscribers :
                          x.client = c /\ x.path = p /\ subscribers[x] = "interested"})

Quiet == \A c \in Clients : Here(c) => toServer[c] = <<>> /\ toClient[c] = <<>>

\* When nothing is on its way any more, a publisher that listens knows whether anybody
\* is interested in a path it publishes, unless a process that was interested
\* has died ("Signal that is emitted when interest in attribute changes",
\* qvaluespacepublisher.cpp:113).
TellsTruth ==
  Quiet =>
    \A o \in Owners, p \in InterestPaths :
      /\ Registered(o) /\ IsPrefix(PathOf[o], p)
      /\ \A x \in Subscribers : x.path = p => Here(x.client)
      => told[o][p] = Interested(p)
=============================================================================
