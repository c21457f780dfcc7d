--------------------------- MODULE SharedMemoryLayer ---------------------------
(***************************************************************************)
(* How changes reach subscribers (class SharedMemoryLayer,                 *)
(* sharedmemorylayer.cpp).  One server process writes the tree in shared   *)
(* memory; clients read it in place, send the server their changes in      *)
(* packets, and are woken by a SYNC message when a node they hold an index *)
(* bit for was bumped.                                                     *)
(*                                                                         *)
(* The tree is what FixedMemoryTree is checked to be when every path has   *)
(* one publisher: a value or none at each path, a node for every prefix of *)
(* a path with a value, an operation bumping the prefixes of what it       *)
(* changes.  An entry of the version table is named by the path of its     *)
(* node.  The version and creation id a handle remembers are abstracted to *)
(* what comparing them with the node's tells: same, bumped, or gone (the   *)
(* node was removed, whether or not it has been made again).               *)
(*                                                                         *)
(* A client's pass over its handles (doClientEmit) takes no lock.  For the *)
(* clients of Overtaken the server may write between the search for a node *)
(* and the reading of its version; for the others the pass is one step.    *)
(* Not modelled: the 8191 changed nodes that overflow the list, packet ids *)
(* wrapping round, a second handle in one client, and a handle resting at  *)
(* a node that is cut off later (RestingPlaces).                           *)
(*                                                                         *)
(* A definition that no other one uses is a slip: the definition after it  *)
(* as a wrong edit of the code would have it.  None is part of Next.       *)
(***************************************************************************)
EXTENDS Integers, Sequences, FiniteSets, SequencesExt

CONSTANTS
  Server,     \* the server process
  Clients,    \* the client processes
  Publish,    \* pairs <<process, path>>: who sets and removes which value
  Subscribe,  \* pairs <<process, path>>: who has a handle on which path
  Overtaken,  \* clients during whose handle pass the server may write
  Readers,    \* subscriptions whose value() is called
  Leavers,    \* subscriptions that are given up again
  Mortal,     \* clients whose process may end
  Arriving,   \* clients whose index the server has not yet been told of
  Values,
  MaxPacks,   \* bound: packets a client sends
  MaxTodo     \* bound: requests in one packet

Paths == {x[2] : x \in Publish \cup Subscribe}
Nodes == UNION {Prefixes(p) : p \in Paths}
Root == <<>>        \* ROOT_VERSION_ENTRY
Nowhere == <<"-">>  \* INVALID_HANDLE
Unset == 0

Procs == Clients \cup {Server}

ASSUME NamesAssumption == /\ Server \notin Clients /\ Nowhere \notin Nodes
                          /\ Publish \cup Subscribe \subseteq Procs \X Seq(STRING)
ASSUME BoundsAssumption == MaxPacks \in Nat /\ MaxTodo \in Nat
ASSUME OnePublisher == \A x, y \in Publish : x[2] = y[2] => x = y
ASSUME OneHandle == \A x, y \in Subscribe : x[1] = y[1] => x = y
ASSUME ClientSets == /\ Overtaken \subseteq Clients /\ Mortal \subseteq Clients
                     /\ Arriving \subseteq Clients
                     /\ Readers \subseteq Subscribe /\ Leavers \subseteq Subscribe
ASSUME ValuesAssumption == Unset \notin Values
\* The path of a handle and another path have only the root in common.
ASSUME RestingPlaces ==
  \A x \in Subscribe, p \in Paths :
    x[2] # p => Prefixes(x[2]) \cap Prefixes(p) = {Root}

VARIABLES
  value,        \* shared memory: the value at each path
  handle,       \* ReadHandle of each subscription
  forceChangeCount,
  told,         \* history: the value at the last handleChanged()
  asked,        \* history: what its publisher last asked for at each path
  connections,  \* server: the clients it is connected to
  mapped,       \* server: clients whose index is attached
  changedNodes,
  timer,        \* server: a posted event will run doServerTransmit()
  serving,      \* server: the packet being worked on, or Idle
  toServer,     \* packets on their way
  toClient,     \* ids of the SYNC messages on their way, 0 for "others"
  todo,         \* client: the requests of the packet being filled
  lastSentId, lastRecvId,
  syncing,      \* clients blocked in doClientSync()
  gone,         \* clients whose process has ended
  spinning,     \* processes that never leave doClientEmit() again
  nodeInterest, \* client: m_nodeInterest; the index has the bits it counts
  walking       \* client: the node a pass in progress has found

handles == <<handle, forceChangeCount, told, spinning>>
server == <<connections, mapped, changedNodes, timer, serving>>
net == <<toServer, toClient>>
ids == <<todo, lastSentId, lastRecvId, syncing>>
local == <<gone, nodeInterest, walking>>
vars == <<value, asked, handles, server, net, ids, local>>

Idle == [from |-> Server, id |-> 0, ops |-> <<>>, any |-> FALSE]
NoHandle == [at |-> Nowhere, seen |-> "same", forceChange |-> FALSE]
Held(x) == handle[x] # NoHandle
-----------------------------------------------------------------------------
(* The tree and the handles.                                               *)

Alive(val) == {Root} \cup UNION {Prefixes(p) : p \in {q \in Paths : val[q] # Unset}}

\* findClosest()
Closest(val, p) ==
  CHOOSE n \in Prefixes(p) \cap Alive(val) :
    \A m \in Prefixes(p) \cap Alive(val) : Len(m) <= Len(n)

Put(f, P, v) == [p \in Paths |-> IF p \in P THEN v ELSE f[p]]

OnlyItself(n) == {n}
WayTo(n) == Prefixes(n)

\* A write under the write lock: the value at p set, or those in P removed.
\* Removing a value from a node that stays bumps nothing (875-888).
SetBumps(p) == WayTo(p)
RemBumps(P) ==
  UNION {WayTo(n) : n \in Alive(value) \ Alive(Put(value, P, Unset))}

\* What every handle's remembered version and creation id compare to then.
Write(val, bumped) ==
  LET Compared(h) == IF h.at \in Alive(value) \ Alive(val) THEN "gone"
                     ELSE IF h.at \in bumped /\ h.seen = "same" THEN "bumped"
                     ELSE h.seen
  IN /\ value' = val
     /\ handle' = [x \in Subscribe |-> [handle[x] EXCEPT !.seen = Compared(handle[x])]]

SetItem(p, v) == Write(Put(value, {p}, v), SetBumps(p))
RemItems(P) == Write(Put(value, P, Unset), RemBumps(P))

\* refreshHandle(): a handle whose node is as remembered stays, any other
\* looks for the closest node again.
StaysIfThere(h) == h.seen # "gone"
StaysIfSame(h) == h.seen = "same"
Refreshed(h, p) ==
  [h EXCEPT !.at = IF StaysIfSame(h) THEN @ ELSE Closest(value, p), !.seen = "same"]

\* ... and its return value: a handleChanged() signal is needed.
Moved(h, at, p) == IF at = p THEN h.at # at \/ h.seen # "same" ELSE h.at = p

\* decNode() of the old node and incNode() of the new one; a handle whose node
\* is gone has been cleared, which counted it out already.
CountedOutTwice(counts, h, at) ==
  [n \in Nodes |-> counts[n] + (IF n = at THEN 1 ELSE 0)
                   - (IF n # h.at THEN 0 ELSE IF h.seen = "gone" THEN 2 ELSE 1)]
OldBitKept(counts, h, at) == [n \in Nodes |-> counts[n] + (IF n = at THEN 1 ELSE 0)]
Recounted(counts, h, at) ==
  [n \in Nodes |-> counts[n] + (IF n = at THEN 1 ELSE 0) - (IF n = h.at THEN 1 ELSE 0)]

Counted(proc, h, at) ==
  nodeInterest' = [c \in Clients |-> IF c = proc THEN Recounted(nodeInterest[c], h, at)
                                                 ELSE nodeInterest[c]]

Indexed(c) == {n \in Nodes : nodeInterest[c][n] > 0}

\* What a pass signals: handles that moved, and those a value() call found
\* moved before.
SignalMoved(h, at, p) == Moved(h, at, p)
SignalForced(h, at, p) == Moved(h, at, p) \/ h.forceChange

\* doClientEmit() in one process, its handle x having been found at a node.
\* The last loop runs until every forced change has been signalled.
Emit(proc, at) ==
  LET mine == {x \in Subscribe : x[1] = proc /\ Held(x)}
      forced == Cardinality({x \in mine : handle[x].forceChange})
  IN /\ handle' = [x \in Subscribe |->
           IF x \in mine THEN [at |-> at, seen |-> "same", forceChange |-> FALSE]
                         ELSE handle[x]]
     /\ told' = [x \in Subscribe |->
           IF x \in mine /\ SignalForced(handle[x], at, x[2]) THEN value[x[2]]
                                                             ELSE told[x]]
     /\ forceChangeCount' = [forceChangeCount EXCEPT ![proc] = @ - forced]
     /\ spinning' = IF forceChangeCount[proc] > forced THEN spinning \cup {proc}
                                                       ELSE spinning

\* The node a pass finds for the process's handle, if it has one.
Found(proc) ==
  LET mine == {x \in Subscribe : x[1] = proc /\ Held(x)}
  IN IF mine = {} THEN Nowhere
     ELSE LET x == CHOOSE x \in mine : TRUE IN Refreshed(handle[x], x[2]).at

HandleOf(proc) ==
  LET mine == {x \in Subscribe : x[1] = proc /\ Held(x)}
  IN IF mine = {} THEN NoHandle ELSE handle[CHOOSE x \in mine : TRUE]
-----------------------------------------------------------------------------
(* The server.                                                             *)

ServerFree == serving = Idle /\ Server \notin spinning

\* readyRead(), server: a packet is taken up; the list of changed nodes starts
\* afresh, whatever was in it.
ReceivePacket(c) ==
  /\ ServerFree
  /\ c \in connections
  /\ toServer[c] # <<>>
  /\ serving' = [from |-> c, id |-> Head(toServer[c]).id,
                 ops |-> Head(toServer[c]).ops, any |-> FALSE]
  /\ toServer' = [toServer EXCEPT ![c] = Tail(@)]
  /\ changedNodes' = {}
  /\ UNCHANGED <<value, asked, handles, connections, mapped, timer, toClient, ids, local>>

\* The paths under p that proc publishes: what remove(p, owner) strips.
Owned(proc, p) == {q \in Paths : <<proc, q>> \in Publish /\ IsPrefix(p, q)}
\* What its request to set p, or to remove what is at p, changes.
Changed(proc, p, v) == IF v = Unset THEN Owned(proc, p) ELSE {p}

\* One request of it: SHMLAYER_SUBINDEX, SHMLAYER_ADD or SHMLAYER_REM, each
\* write under the write lock.
ServeRequest ==
  LET op == Head(serving.ops)
      P == Owned(serving.from, op.path)
      Done(any) == [serving EXCEPT !.ops = Tail(@), !.any = @ \/ any]
  IN /\ serving.ops # <<>>
     /\ \/ /\ op.kind = "index"
           /\ mapped' = mapped \cup {serving.from}
           /\ serving' = Done(FALSE)
           /\ UNCHANGED <<value, handle, changedNodes>>
        \/ /\ op.kind = "add"
           /\ SetItem(op.path, op.value)
           /\ changedNodes' = changedNodes \cup SetBumps(op.path)
           /\ serving' = Done(TRUE)
           /\ UNCHANGED mapped
        \/ /\ op.kind = "rem"
           /\ RemItems(P)
           /\ changedNodes' = changedNodes \cup RemBumps(P)
           /\ serving' = Done(RemBumps(P) # {})
           /\ UNCHANGED mapped
     /\ UNCHANGED <<asked, forceChangeCount, told, spinning, connections, timer,
                    net, ids, local>>

\* doServerTransmit(): SYNC to whoever has an index bit for a changed node.
Sent(first) ==
  toClient' = [c \in Clients |->
    IF c \in gone \/ c \notin connections THEN <<>>
    ELSE toClient[c] \o first[c]
         \o (IF c \notin mapped \/ Indexed(c) \cap changedNodes # {} THEN <<0>> ELSE <<>>)]

Nothing == [c \in Clients |-> <<>>]

\* The packet is done: its sender is told first, then the others.
Reply ==
  /\ serving.from \in Clients
  /\ serving.ops = <<>>
  /\ LET causal == [Nothing EXCEPT ![serving.from] = <<serving.id>>]
     IN IF serving.any
          THEN /\ Sent(causal)
               /\ changedNodes' = {}
               /\ Emit(Server, Found(Server))
          ELSE /\ toClient' = [c \in Clients |->
                    IF c \in gone THEN <<>> ELSE toClient[c] \o causal[c]]
               /\ UNCHANGED <<handles, changedNodes>>
  /\ serving' = Idle
  /\ UNCHANGED <<value, asked, connections, mapped, timer, toServer, ids, local>>

\* timerEvent(), server.
ServerTimer ==
  /\ ServerFree
  /\ timer
  /\ timer' = FALSE
  /\ Sent(Nothing)
  /\ changedNodes' = {}
  /\ Emit(Server, Found(Server))
  /\ UNCHANGED <<value, asked, connections, mapped, serving, toServer, ids, local>>

\* setItem(), remItems() by a publisher in the server's own process.
LocalChange(p, v) ==
  LET P == Owned(Server, p)
      bumped == IF v = Unset THEN RemBumps(P) ELSE SetBumps(p)
  IN /\ ServerFree
     /\ <<Server, p>> \in Publish
     /\ \A c \in Clients : Len(toClient[c]) < MaxPacks
     /\ IF v = Unset THEN RemItems(P) ELSE SetItem(p, v)
     /\ asked' = Put(asked, Changed(Server, p, v), v)
     /\ changedNodes' = changedNodes \cup bumped
     /\ timer' = (timer \/ bumped # {})
     /\ UNCHANGED <<forceChangeCount, told, spinning, connections, mapped, serving,
                    net, ids, local>>

\* disconnected(), server: everything of the client goes; unread packets too.
Drop(c) ==
  LET P == Owned(c, Root)
  IN /\ ServerFree
     /\ c \in gone \cap connections
     /\ connections' = connections \ {c}
     /\ toServer' = [toServer EXCEPT ![c] = <<>>]
     /\ RemItems(P)
     /\ changedNodes' = changedNodes \cup RemBumps(P)
     /\ serving' = IF RemBumps(P) = {} THEN Idle
                   ELSE [from |-> Server, id |-> 0, ops |-> <<>>, any |-> TRUE]
     /\ UNCHANGED <<asked, forceChangeCount, told, spinning, mapped, timer, toClient,
                    ids, local>>

\* ... and every other client is told.
DropDone ==
  /\ serving.from = Server
  /\ serving.any
  /\ serving' = Idle
  /\ toClient' = [c \in Clients |-> IF c \in connections \ gone
                                      THEN Append(toClient[c], 0) ELSE <<>>]
  /\ Emit(Server, Found(Server))
  /\ UNCHANGED <<value, asked, connections, mapped, changedNodes, timer, toServer,
                 ids, local>>
-----------------------------------------------------------------------------
(* The clients.                                                            *)

Free(c) == c \notin gone \cup syncing \cup spinning /\ walking[c] = Nowhere

\* newPackId(): the first request of a packet takes the next id.
NewPackId(c) == lastSentId' = [lastSentId EXCEPT ![c] = IF todo[c] = <<>> THEN @ + 1 ELSE @]

\* setItem(), remItems(), client: a request is put into the packet.
Request(c, p, v) ==
  /\ Free(c)
  /\ <<c, p>> \in Publish
  /\ Len(todo[c]) < MaxTodo
  /\ todo[c] = <<>> => lastSentId[c] < MaxPacks
  /\ todo' = [todo EXCEPT ![c] =
       Append(@, [kind |-> IF v = Unset THEN "rem" ELSE "add", path |-> p, value |-> v])]
  /\ NewPackId(c)
  /\ asked' = Put(asked, Changed(c, p, v), v)
  /\ UNCHANGED <<value, handles, server, net, lastRecvId, syncing, local>>

\* doClientTransmit()
NotTransmitted(c) == UNCHANGED <<todo, toServer>>
Transmitted(c) ==
  /\ todo' = [todo EXCEPT ![c] = <<>>]
  /\ toServer' = IF todo[c] = <<>> THEN toServer
                 ELSE [toServer EXCEPT ![c] =
                         Append(@, [id |-> lastSentId[c], ops |-> todo[c]])]

\* timerEvent(), client: the event triggerTodo() posted.
ClientTimer(c) ==
  /\ Free(c)
  /\ todo[c] # <<>>
  /\ Transmitted(c)
  /\ UNCHANGED <<value, asked, handles, server, toClient, lastSentId, lastRecvId,
                 syncing, local>>

\* doClientSync(): nothing to wait for, or send and wait.
Sync(c) ==
  /\ Free(c)
  /\ lastRecvId[c] < lastSentId[c]
  /\ Transmitted(c)
  /\ syncing' = syncing \cup {c}
  /\ UNCHANGED <<value, asked, handles, server, toClient, lastSentId, lastRecvId, local>>

SyncReturn(c) ==
  /\ c \in syncing \ spinning
  /\ walking[c] = Nowhere
  /\ lastRecvId[c] >= lastSentId[c]
  /\ syncing' = syncing \ {c}
  /\ UNCHANGED <<value, asked, handles, server, net, todo, lastSentId, lastRecvId, local>>

\* The id of the last reply; a SYNC for others has none.
ReceivedAny(c, id) == lastSentId[c]
Received(c, id) == IF id # 0 THEN id ELSE lastRecvId[c]

\* readyRead(), client, up to where the pass needs to look for a node.
TakeSync(c) ==
  /\ c \notin gone \cup spinning /\ walking[c] = Nowhere
  /\ toClient[c] # <<>>
  /\ toClient' = [toClient EXCEPT ![c] = Tail(@)]
  /\ lastRecvId' = [lastRecvId EXCEPT ![c] = Received(c, Head(toClient[c]))]

\* A SYNC, and the pass over the handles in one go.
ReceiveSync(c) ==
  /\ TakeSync(c)
  /\ Emit(c, Found(c))
  /\ IF HandleOf(c) = NoHandle THEN UNCHANGED nodeInterest
                               ELSE Counted(c, HandleOf(c), Found(c))
  /\ UNCHANGED <<value, asked, server, toServer, todo, lastSentId, syncing, gone, walking>>

\* A SYNC whose pass the server overtakes: a handle that has to look for its
\* node has found one ...
BeginPass(c) ==
  /\ c \in Overtaken
  /\ TakeSync(c)
  /\ \E x \in Subscribe :
       /\ x[1] = c /\ Held(x)
       /\ handle[x].seen = "gone" \/ (handle[x].seen = "bumped" /\ handle[x].at # x[2])
  /\ walking' = [walking EXCEPT ![c] = Found(c)]
  /\ UNCHANGED <<value, asked, handles, server, toServer, todo, lastSentId, syncing,
                 gone, nodeInterest>>

Died(c) ==
  /\ gone' = gone \cup {c}
  /\ handle' = [x \in Subscribe |-> IF x[1] = c THEN NoHandle ELSE handle[x]]
  /\ told' = [x \in Subscribe |-> IF x[1] = c THEN Unset ELSE told[x]]
  /\ asked' = [p \in Paths |-> IF <<c, p>> \in Publish THEN Unset ELSE asked[p]]
  /\ forceChangeCount' = [forceChangeCount EXCEPT ![c] = 0]
  /\ nodeInterest' = [nodeInterest EXCEPT ![c] = [n \in Nodes |-> 0]]
  /\ walking' = [walking EXCEPT ![c] = Nowhere]
  /\ todo' = [todo EXCEPT ![c] = <<>>]
  /\ toClient' = [toClient EXCEPT ![c] = <<>>]
  /\ spinning' = spinning \ {c}
  /\ syncing' = syncing \ {c}

\* ... and its version and creation id are read.  A node that went in between
\* is a null pointer.
EndPass(c) ==
  /\ walking[c] # Nowhere
  /\ \/ /\ walking[c] \in Alive(value)
        /\ Emit(c, walking[c])
        /\ Counted(c, HandleOf(c), walking[c])
        /\ walking' = [walking EXCEPT ![c] = Nowhere]
        /\ UNCHANGED <<asked, net, ids, gone>>
     \/ /\ walking[c] \notin Alive(value)
        /\ Died(c)
        /\ UNCHANGED <<toServer, lastSentId, lastRecvId>>
  /\ UNCHANGED <<value, server>>

\* item(): a handle, brought up to date under the read lock.
Hold(x) ==
  LET at == Closest(value, x[2])
  IN /\ IF x[1] = Server THEN ServerFree ELSE Free(x[1])
     /\ ~Held(x)
     /\ handle' = [handle EXCEPT ![x] = [NoHandle EXCEPT !.at = at]]
     /\ told' = [told EXCEPT ![x] = value[x[2]]]
     /\ Counted(x[1], NoHandle, at)
     /\ UNCHANGED <<value, asked, forceChangeCount, spinning, server, net, ids, gone,
                    walking>>

\* value(): a handle short of its path, or whose node is gone, is refreshed
\* under the read lock; the change it finds is to be signalled later.
Read(x) ==
  LET h == handle[x]
      r == Refreshed(h, x[2])
      force == \/ h.forceChange
               \/ h.seen = "gone" /\ h.at = x[2]
               \/ Moved(h, r.at, x[2])
  IN /\ IF x[1] = Server THEN ServerFree ELSE Free(x[1])
     /\ x \in Readers
     /\ Held(x)
     /\ h.at # x[2] \/ h.seen = "gone"
     /\ handle' = [handle EXCEPT ![x] = [r EXCEPT !.forceChange = force]]
     /\ forceChangeCount' = [forceChangeCount EXCEPT ![x[1]] =
                               IF force /\ ~h.forceChange THEN @ + 1 ELSE @]
     /\ Counted(x[1], h, r.at)
     /\ UNCHANGED <<value, asked, told, spinning, server, net, ids, gone, walking>>

\* removeHandle(): the last subscriber of the path goes.
Release(x) ==
  /\ IF x[1] = Server THEN ServerFree ELSE Free(x[1])
  /\ x \in Leavers
  /\ Held(x)
  /\ handle' = [handle EXCEPT ![x] = NoHandle]
  /\ Counted(x[1], handle[x], Nowhere)
  /\ UNCHANGED <<value, asked, forceChangeCount, told, spinning, server, net, ids, gone,
                 walking>>

\* A client's process ends.
Exit(c) ==
  /\ c \in Mortal \ gone
  /\ Died(c)
  /\ UNCHANGED <<value, server, toServer, lastSentId, lastRecvId>>
-----------------------------------------------------------------------------
\* Every client has connected; an arriving one has just sent where its index
\* is, with id 0.
Init ==
  /\ value = [p \in Paths |-> Unset]
  /\ handle = [x \in Subscribe |-> NoHandle]
  /\ forceChangeCount = [q \in Procs |-> 0]
  /\ told = [x \in Subscribe |-> Unset]
  /\ asked = [p \in Paths |-> Unset]
  /\ connections = Clients
  /\ mapped = Clients \ Arriving
  /\ changedNodes = {}
  /\ timer = FALSE
  /\ serving = Idle
  /\ toServer = [c \in Clients |-> IF c \notin Arriving THEN <<>> ELSE
       <<[id |-> 0, ops |-> <<[kind |-> "index", path |-> Root, value |-> Unset]>>]>>]
  /\ toClient = Nothing
  /\ todo = Nothing
  /\ lastSentId = [c \in Clients |-> 0]
  /\ lastRecvId = [c \in Clients |-> 0]
  /\ syncing = {}
  /\ gone = {}
  /\ spinning = {}
  /\ nodeInterest = [c \in Clients |-> [n \in Nodes |-> 0]]
  /\ walking = [c \in Clients |-> Nowhere]

ServerStep ==
  \/ \E c \in Clients : ReceivePacket(c)
  \/ ServeRequest \/ Reply \/ ServerTimer \/ DropDone
  \/ \E c \in Clients : Drop(c)

\* readyRead() in a client.
Deliver(c) == ReceiveSync(c) \/ BeginPass(c) \/ EndPass(c)

Next ==
  \/ ServerStep
  \/ \E c \in Clients : Deliver(c) \/ ClientTimer(c) \/ Sync(c) \/ SyncReturn(c) \/ Exit(c)
  \/ \E x \in Publish, v \in Values \cup {Unset} :
       LocalChange(x[2], v) \/ (x[1] \in Clients /\ Request(x[1], x[2], v))
  \/ \E x \in Subscribe : Hold(x) \/ Read(x) \/ Release(x)

\* Both event loops keep turning: a posted event is run, a socket with data is
\* read, a broken connection noticed, a step in progress goes on.  A client
\* looks at the loop condition of doClientSync() after every readyRead().
Fairness ==
  /\ WF_vars(ServeRequest \/ Reply \/ DropDone) /\ WF_vars(ServerTimer)
  /\ \A c \in Clients : /\ WF_vars(ReceivePacket(c)) /\ WF_vars(Drop(c))
                        /\ WF_vars(Deliver(c)) /\ SF_vars(SyncReturn(c))

Spec == Init /\ [][Next]_vars /\ Fairness
-----------------------------------------------------------------------------
\* Shape, and no count ever below zero: decNode() asserts it (3222).
TypeOK ==
  /\ value \in [Paths -> Values \cup {Unset}]
  /\ nodeInterest \in [Clients -> [Nodes -> Nat]]
  /\ forceChangeCount \in [Procs -> Nat]
  /\ \A x \in Subscribe : handle[x].at \in Nodes \cup {Nowhere}
  /\ \A c \in Clients : lastRecvId[c] <= lastSentId[c] /\ lastSentId[c] <= MaxPacks

\* A client's index has a bit for the node of every handle and for no other:
\* incNode() and decNode() are paired on every way through refreshHandle(),
\* clearHandle() and removeHandle().
IndexMatchesHandles ==
  \A c \in Clients : Indexed(c) = {HandleOf(c).at} \ {Nowhere}

\* A handle that remembers the current version of its node is where its path
\* leads: no value() call answers from a place the path has grown past.  It
\* takes a pass that the server cannot overtake ("The layer MUST be locked for
\* reading", sharedmemorylayer.cpp:2555; doClientEmit() does not lock it).
HandleNotStuck ==
  \A x \in Subscribe :
    Held(x) /\ handle[x].seen = "same" =>
      handle[x].at = Closest(value, x[2])

\* A subscriber that has not been told of the present value will be woken: a
\* SYNC or a change is on its way to its process.
StaleHandleIsWoken ==
  \A x \in Subscribe :
    Held(x) /\ told[x] # value[x[2]] =>
      /\ handle[x].seen # "same" \/ handle[x].forceChange
      /\ \/ x[1] = Server /\ timer
         \/ x[1] \in Clients /\ toClient[x[1]] # <<>>
         \/ x[1] \in Clients /\ timer /\ HandleOf(x[1]).at \in changedNodes
         \/ serving # Idle /\ serving.any

\* Sooner or later a subscriber that stays is told of a change ("Emitted
\* whenever any value under the current path changes",
\* qvaluespacesubscriber.cpp:97; "only the most recent value", 99).
ChangeIsTold ==
  \A x \in Subscribe :
    (Held(x) /\ told[x] # value[x[2]]) ~> (~Held(x) \/ told[x] = value[x[2]])

\* When sync() returns, what its process last asked for is in the tree
\* ("all other processes in the system will be able to see the attribute
\* changes", qvaluespacepublisher.cpp:269-271).
SyncMeansApplied ==
  [][\A c \in Clients :
       SyncReturn(c) => \A p \in Owned(c, Root) : value[p] = asked[p]]_vars

\* sync() returns.
SyncReturns == \A c \in Clients : c \in syncing ~> c \notin syncing
=============================================================================
