# Qt Mobility: a verification project

TLA+ models of the parts of Qt Mobility whose correctness depends on the order in which
things happen: the read-write lock between processes, the shared-memory value space built
on it and its interest notification (`src/publishsubscribe`), the NMEA position source
(`src/location`), network sessions (`src/bearer`), the playlist and its navigator
(`src/multimedia`) and the contacts' memory engine (`src/contacts`).
TLC checks the models on small instances; TLAPS proves the central properties of all of them
for every value of their constants. `PROJECT.json` lists the components, the runs, the
line of code that every definition translates, the hazards and the theorems.

Line numbers refer to the files named in each section.

## 1. The system and its parts

Qt Mobility is a set of libraries, most of which put one interface over several platforms.
Most of its code is conversion, queries and platform calls; the parts below keep state of
their own.

| part | state | operations | hard because |
|---|---|---|---|
| System read-write lock, `qsystemreadwritelock_unix.cpp` | four kernel semaphores, every process's undo record | `lockForRead`, `lockForWrite`, `unlock`, open, reset, destructor | several processes, each call several `semop()`s, a signal or the end of a process between any two |
| Fixed memory tree, `sharedmemorylayer.cpp` 110-1656 | version table with a free list, nodes with data and watches | insert, remove, add and remove watches, remove a client's | nodes recycled, blocks moved, several owners at one path, the table full |
| Shared memory layer, `sharedmemorylayer.cpp` 1660-3399 | server: connections, changed nodes; client: packet being filled, handles, index bits | set, remove, item, value, sync, SYNC messages, connect, disconnect | one server and many clients; clients read memory the server writes; messages cross |
| Interest notification, `sharedmemorylayer.cpp` 2741-2931, 3236-3395 | how many subscribers of each process at each path; watches in the tree | subscriber made and destroyed, publisher connected and destroyed, disconnect | counts per process and path, requests and notices that cross |
| Packet protocol, `qpacketprotocol.cpp` | bytes of a packet not complete yet | send, read | packets split and joined by the stream |
| Value space API | little | forwards to the layers | destruction while signals are delivered |
| NMEA position source, `qnmeapositioninfosource.cpp` | pending update, silence flags, timers, replay position | start, stop, interval, request, device data and closing | timers against data, buffered data, replay interrupted |
| Contacts: memory engine, `qcontactmemorybackend.cpp` | contacts, relationships in up to four places, engines sharing a store | batches saved and removed, self contact | structures that must agree, batches that fail in part, stale copies saved again |
| Bearer: network sessions, `qnetworksession_p.cpp`, `qnetworkconfigmanager_p.cpp` | state, `opened`, `isOpen` of each session; the manager's table, online count and service network | open, close, stop, wait; interfaces reported, errors queued | closing what is still connecting, late errors, configurations removed and found again |
| Multimedia: playlist and navigator, `qmediaplaylistnavigator.cpp`, `qlocalmediaplaylistprovider.cpp` | items, current position and item, mode, random history | next, previous, jump, edits, mode, another playlist | a position and a history kept right under edits |
| Versit reader and writer | device, state, cancel flag | start, cancel, wait | a thread that is cancelled |
| Symbian contacts server | a state machine over a store | open, close, backup, restore | restart of the store under open sessions |
| Sensors, service framework, system information, messaging, other value space layers, allocator, sentence parser, platform position sources | little, or the platform's | queries and platform calls | mostly not concurrency |

How the value space fits together:

```
 client process                       server process
 publisher --setItem--> packet ====socket====> readyRead --> FixedMemoryTree (shared memory)
 subscriber <--handleChanged-- refreshHandle       |  write lock      ^
     |   ^                          ^              |                  | read lock
     |   +---- SYNC <====socket=====|====== doServerTransmit          |
     +--value()-----------------reads in place------------------------+
     index bits in shared memory of the client: incNode/decNode -> read by the server
```

The lock keeps the server's writing and the clients' reading apart. A *handle* remembers the
node closest to its path and that node's version and creation id; a write bumps the versions
of the nodes on the way; a client's *index* has a bit for each node its handles rest at, so
that the server can tell whom to send a SYNC message; the SYNC makes the client go through
its handles.

What makes each part correct:

* *lock*: a writer is alone; a process that ends gives back what it had and nothing else; a
  waiting writer is not passed by new readers and gets its turn whoever ends.
* *tree*: an entry is in the tree or on the free list, never both; whoever remembers a version
  can tell that something has changed; each owner's values are its own.
* *layer*: a subscriber is told of every last change; the index agrees with the handles; when
  `sync()` returns the requests are in the tree, and it returns.
* *interest*: the server's counts are the subscribers there are; once everything has arrived a
  publisher knows whether anybody is interested.
* *packet protocol* (planned): the packets read are those sent, however the stream is split.
* *NMEA source*: at most one periodic update in an interval, the newest; a silence is reported
  once, with the second silent interval; nothing buffered before the start; a replay is
  complete and in order.
* *sessions*: a session's state is the one its interface gives; it opens only if it is wanted;
  applications are told of what `isOnline()` says; a refused `waitForOpened()` returns.
* *playlist*: the player has the item at the position, whatever was edited; `nextIndex()` says
  where `next()` leads; random playback can be retraced.
* *contacts engine*: the places a relationship is kept in agree, no relationship outlives its
  contacts, and observers of every engine on the store learn of all changes.

The hazards, each at its line with the properties that would catch it, are in `PROJECT.json`.

## 2. Modules

| module | what it models |
|---|---|
| `AbstractReadWriteLock` | the promise of the lock: readers or one writer, no reader past a waiting writer |
| `SystemReadWriteLock` | the semaphores, one action per `semop()`, signals and process ends |
| `SystemReadWriteLockProofs` | the theorems about it |
| `PublishedValues` | the promise of the tree: each owner has its own values |
| `FixedMemoryTree`, `MCTree` | version table, free list, nodes and every operation on them; instances |
| `FixedMemoryTreeProofs` | the theorems about it |
| `SharedMemoryLayer`, `MCLayer` | server and clients, packets, SYNC messages, handles, index; instances |
| `SharedMemoryLayerProofs` | the theorems about it: types, index, handles, and `sync()` at the end |
| `NmeaPositionSource`, `MCNmea` | both readers, the timers, the application and the device; instances |
| `NmeaPositionSourceProofs` | the theorems about it |
| `InterestNotification`, `MCInterest` | publishers, subscribers, counts and notices, over `FixedMemoryTree` (`INSTANCE`); instances |
| `InterestNotificationProofs` | the theorems about it, on those about the tree (`INSTANCE`) |
| `NetworkSession`, `MCSession` | sessions, the configuration manager, what they see of an engine; instances |
| `NetworkSessionProofs` | the theorems about it |
| `PlaylistNavigator`, `MCPlaylist` | the local playlist and the navigator on it; instances |
| `PlaylistNavigatorProofs` | the theorems about it |
| `ContactsMemoryEngine`, `MCContacts` | a store of contacts, the engines on it and a program's copy; instances |
| `ContactsMemoryEngineProofs` | the theorems about it |

In each module a definition that nothing else uses, under a heading or beside the one it
imitates, is a *slip*: that definition as a plausible wrong edit would have it. Slips are not
part of `Next`. Put in place of the real definition, a slip breaks the property it is listed
with in `PROJECT.json`: that is the evidence that each property can fail.

### The lock

`activeReaders`, `totalWriters`, `activeWriterSem` are the three semaphores; `undo[p]` is what
the kernel adds to them when `p` ends; `pc[p]` is where a process is in a call. `lockForRead`
is one `semop()` (384-414), `lockForWrite` three (announce 420-441, wait for the readers
443-446, wait for the slot 459-462) with two different error paths (447-457 and 464-474), and
`unlock` two (484-499 and 500-522). `Exit` is the end of a process at any point, `Open` its
return. External: what the kernel does with undo records (`semop(2)`; the sum is cut at 0).

`lockForWrite` can fail in the wait for the readers in any process (`DrainInterrupted`), in the
wait for the slot only in the processes of `Signalled` (`SlotInterrupted`), because the two
paths differ. Each gives the count back by another `semop()`, which is a step of its own
(`DrainTakenBack`, `SlotTakenBack`): the process may end between the two. The
second path decrements the count without `SEM_UNDO`, and leaves the process owing a decrement
(`MaxOwed` bounds how many).

Left out: the fourth semaphore, the constructor that resets a set, the destructor. Callers unlock
only what they got (the layer ignores a failed `lockForRead()`; that is in the hazards).

### The tree

A tree is a record, and each operation a function from a tree to the tree left, the entries
bumped and the value returned. `Insert`, `RemoveItems`, `AddWatch`, `RemWatch` are `insert`,
`remove`, `setWatch` and `remWatch`; the actions are their calls by the server:
`doSetItem`, `doRemItems`, `doSetWatch`, `doRemWatch`, and `disconnected`. The code's
recursion along a path is a function of the position on it (`Walk`, `Prune`), its recursion
over a subtree a set (`Under`). What the code does wrong is modelled as it is: a datum too
big for an empty block (`SetData`), the assignments where a comparison is meant (`Stripped`,
`WithoutWatch`), watches looked for where the datum lies (`Overlaid`), entries of cut-off nodes
that never return (`Prune`). A value is its length: that is all the room of a block asks of it.
Left out because no instance and no caller gets there: a value for the root itself, which is
refused (531), a value longer than `MAX_DATA_SIZE` (525), and three or more watches at one node, for which
`watchBlockSize()` (226-235) gives 0 when `setData()` copies them.

### The layer

The module takes the tree as the tree's runs show it to be when every path has one publisher
(`OnePublisher`), and names a node by its path. What a handle remembers is kept as what
comparing it gives: `same`, `bumped`, `gone`. The server's actions are `ReceivePacket`,
`ServeRequest`, `Reply` (`readyRead`, server), `ServerTimer` (the posted event),
`LocalChange` (publishers in its own process), `Drop` and `DropDone` (a lost connection). A
client's are `Request` (set, remove), `ClientTimer`, `Sync`, `SyncReturn`, `ReceiveSync` or
`BeginPass` and `EndPass` (`readyRead`, client), `Hold`, `Read`, `Release` (`item`, `value`,
`removeHandle`) and `Exit`.

`doClientEmit()` passes over the handles without the read lock. For the clients of
`Overtaken` the pass is two steps between which the server may write; for the others it is
one. Both are run, because what the split breaks (`layer_overtaken`) would hide everything else.

`told` and `asked` are history: the value at a handle's last `handleChanged()`, and what each
publisher last asked for.

### The position source

The device is a `tape` of sentences and a position on it; `readyRead()` is a pending flag.
`readAvailableData()` runs to its end before anything else does, which `reading` sees to:
every action of the application, the timers and the device waits for it. `NotifyFix` is
`notifyNewUpdate()`, `Tick` the interval timer with `emitPendingUpdate()`, `SimulatedTime`
the replay's timer. A timer that runs may fire at any moment. A sentence is what the source
tells apart in it: a date, a time of day, a coordinate, a fix.

### Interest notification

The tree in this module is a state of `FixedMemoryTree`, changed by that module's `Insert`,
`RemoveItems`, `AddWatch` and `RemWatch`, so that the watches a notice looks for are those the
tree really has. `pathsOfInterest[p][c]` is the count of the code's hash of the same name; a count of
0 is an entry the code has removed. Paths are compared name by name, where the code asks
`startsWith()` of strings (3250-3259): the two differ for siblings one of whose names begins
with the other, which the instances do not have. No value is reset before its publisher goes. `Handle` is the server's part of a request
(`doSetWatch`, `doRemWatch`, `doSetItem`, `doRemItems`, `doNotify`), run at once for the
server's own process and by `Serve` for a client's. `Watchers` climbs from the closest node to
the root, and `Addressed` keeps one notice per client, as `written` does. `told` is history: what a
publisher heard last of a path.

### Network sessions

A configuration is a shared object: when an identifier is removed and found again the manager
has a new object and sessions keep the old one, so objects are pairs of an identifier and a
number. `UpdateConfigurations` is one `updateConfigurations()` for everything an engine
reports, in any order, with the signals it emits on the way (`Added`, `Changed`, `Removed`,
`UpdateInternetService`) applied to each session at once, as direct connections are.
`connectionError()` is queued, and `Deliver` is its arrival. The build is the one with
`BACKEND_NM`. `wanted` and `toldOnline` are history.

The state of a configuration is the set of its flags, because the code asks two different
questions of it. `Has` is `(state & flags) == flags`, as sessions, `allConfigurations()` and
`isOnline()` ask; the manager counts as online those whose state is *equal* to `Active` (92, 117,
160, 165). They differ for `Undefined|Active`, which the Network Manager's engine reports for
an access point in use that is not among the known ones, or whose device is in no known
state (`qnmwifiengine_unix.cpp` 399-403, 416-449). `Snapshot` is what the service network
becomes: the members that have `Defined` (207) and the flags of all of them together. That
every access point is one of internet access is what the engine says (395).

### The playlist

Actions are the calls of a user: `Advance` (`next`), `Retreat` (`previous`), `Ask`
(`nextIndex`, `previousIndex`, which draw random positions and keep them), `SetCurrentIndex`
(`jump`), `SetPlaybackMode`, `SetPlaylist`, and edits of the provider, each with the slot of
the navigator that follows (`Inserted`, `Removed`, `Changed`). `Ask` keeps every answer, -1
too, until the steps asked about have been taken or something else is done; steps are 0 and
more (no caller asks for fewer). Positions are the code's, from 0,
-1 for none. Where the code would read a list out of its range the program has no defined
behaviour: `undefined` becomes true and nothing more happens.

### The contacts engine

`d` is `QContactMemoryEngineData`, with the lists of the code. A batch is folded over its
items by the code's function for one (`SaveContact`, `RemoveContact`, `SaveRelationship`,
`RemoveRelationship`) and ends with `EmitSharedSignals`. `held` is a copy of a contact a program
keeps and may save again later; `views` is what an observer of each engine knows that fetches
whatever a signal names. `undefined` is as in the playlist.

## 3. Runs

| run | instance | what it shows |
|---|---|---|
| `lock` | 3 processes, 2 may end, the third may be signalled | exclusion, exact undo records, no reader past a waiting writer (refinement of `AbstractReadWriteLock`), `lockForWrite()` returns |
| `lock_leak` | as above, one process both | *fails*: exclusion is lost (finding 1) |
| `tree` | 2 clients, 2 paths published, one watched, 6 entries | free list, links, creation ids, visible growth, values stored, refinement of `PublishedValues` |
| `layer` | a publishing client that may die, a subscribing client, a subscriber and a publisher in the server | changes are told, stale handles woken, `sync()` returns when the requests are in the tree |
| `layer_index` | an overtaken client that may die, one not yet attached, subscribers that leave | the index has the bits of the handles |
| `layer_lost_sync` | a subscriber of a publisher in the server | *fails*: a change is never told (finding 2) |
| `nmea` | live and replay, every tape of 3 sentences | one update an interval, silences reported once, nothing buffered, replays complete and in order |
| `interest` | a publisher of an object in the server, one of a part of it in a client that may die and sets a value; three subscribers of two processes | counts are those of the subscribers, also of a process that dies with requests unread; publishers know the truth when all is quiet |
| `session` | two sessions over two configurations or their service network; one configuration can be started and stopped, the other not | states follow interfaces, what was told of the online state is what `isOnline()` says unless an undefined access point is active, nothing opens unasked, a refused wait returns |
| `playlist` | three items of two contents, all modes, two other playlists, history of four, steps of two | the player has the current item, `nextIndex()` is where `next()` leads but for a sequential playback that answers -1, random playback goes back as it came |
| `contacts` | two engines, two contacts of two types, two relationships whose first contact may be of another manager, batches of two | observers up to date, the places of a relationship agree |
| `contacts_empty_uri` | a first contact may be given without a manager's URI | *fails*: a relationship outlives its contact (finding 3) |

### Bounds, and why they are enough

* *lock*: three processes are the fewest with a writer in, a writer waiting and a reader that
  wants in. `MaxOwed = 2` lets the leak happen more than once; TLAPS needs no bound.
* *tree*: six entries hold the root and the four nodes of the instance in use and one more; cut
  entries leak, so that all of them are exhausted in the middle of a path in many states. Versions
  and creation ids only grow, and the code compares them for equality alone: `VIEW Shape`
  leaves them, and unreachable nodes, out of what makes states different. The action properties
  compare them across single steps, where they are present.
* *layer*: one handle in each process, two packets (one in the other runs of the layer) with one request each, one
  value besides none. Two packets let a packet arrive while another's SYNC is on its way;
  `LocalChange` stops when `MaxPacks` messages wait for some client. `RestingPlaces` keeps a
  handle from resting at a node that another path's removal cuts off (there the tree shows
  that the version does not move).
* *interest*: two subscribers in one process are the fewest that tell first and last from others;
  the third is at the ancestor. Publishers and subscribers live once; a queue holds at
  most what they ask for. `UintRange` (16 for 2^32) only has to exceed the number of subscribers: a
  wrong decrement would wrap to 15 and break `TypeOK`. Paths have one watch and
  subscribers of one process (other cases are departures, section 4).
* *session*: two sessions share an interface or not; two configurations can change places in one
  update. `MaxGen = 2` objects for an identifier let one be replaced while a session holds the
  other. The cable is plugged in or not; the wireless network is not there, `Undefined`,
  `Discovered`, `Active` or `Undefined|Active`. `MaxQueue = 1` error waits for each session, and `ConnectError` and
  `NotSupported` can each be that one.
* *playlist*: three items allow an edit before, at and behind the current one. The history grows
  at either end by what is asked; steps stop at `MaxHistory = 4` entries, enough to go two
  ahead, come back and go on. Questions are about 0, 1 or 2 steps: two are enough to go beyond the
  end and past it. Insertions are of one or two items.
* *contacts*: with two contacts a relationship goes either way, and the second contact may be of
  another manager with an id that exists here. Ids are never used again, so `MaxId` also
  bounds how many are saved. Relationships are removed from those stored, twice if asked,
  which is the item of a batch that fails.
* *nmea*: three sentences let one be shown, one wait and one arrive, and a replay be
  interrupted twice. Intervals 0 and 1 are "as often as possible" and "timed". `idleTicks`
  stops at 2, as nothing tells more silent intervals apart.

`CHECK_DEADLOCK FALSE` in the runs of the layer: with packets bounded and all handles up to
date the system rests. Also in `interest`, where everyone lives once, and in `playlist` and
`contacts`, where the program stops at what is undefined. Everywhere else deadlock is checked.

### Fairness

* *lock*: `WF` for the wait for readers and the steps of `unlock()`: a caller that has the lock
  releases it. `SF` for taking the slot, because the kernel serves the processes queued on
  a semaphore in order. Nothing is assumed of starting calls, signals and ends of processes;
  readers may starve.
* *layer*: `WF` for each event loop's handlers: a packet in a socket is read, a posted event run, a
  broken connection noticed, a step in progress finished. `SF` for `SyncReturn`: the loop in
  `doClientSync()` looks at its condition after each `readyRead()`.
* *nmea*: `WF` for reading to the end and for a signal of the device, `SF` for the replay's
  timer, which is enabled whenever nothing is being read. Interval and request timers are not
  assumed to fire: no property needs it.
* *session*: `WF` for `Deliver`: an event loop delivers the errors queued to a session, the loop
  inside `waitForOpened()` too. Nothing is assumed of the platform or the user.
* *interest*, *playlist*, *contacts*: safety only.

## 4. Findings

Each is a violation run in `PROJECT.json`, which quotes the line contradicted.

1. `lock_leak`: `lockForWrite()` cut short in its last wait gives its count back without
   `SEM_UNDO` (`qsystemreadwritelock_unix.cpp:469`); when the process ends the kernel takes it
   a second time, from another writer, and a reader gets in beside it.
2. `layer_lost_sync`: changes of the server's own publishers are forgotten when a packet
   arrives (`sharedmemorylayer.cpp:2199`).
3. `contacts_empty_uri`: a relationship accepted with an empty URI for its first contact stays
   when that contact is removed (`qcontactmemorybackend.cpp:429`).

Other departures of the code from what it says or what one would expect have a configuration
beside the modules, to be run the same way (`tlc -config X.cfg M`); TLC ends each with a
counterexample.

| configuration (module) | property | what the counterexample shows |
|---|---|---|
| `TreeLostValue` (`MCTree`) | `SetIsStored` | a value that does not fit a node's block is counted in the block that is freed (1223), and lost |
| `TreeWrongOwner` (`MCTree`) | `ImplementsPublishedValues` | an assignment for a comparison (748): a publisher's removal takes another's value |
| `Tree` (`MCTree`) with `Values = {1, 2}` | `ImplementsPublishedValues` | of two values the one left in the list is the longer: it is moved to the node's block (780), does not fit and is lost |
| `TreeWatchedValues` (`MCTree`) | `ImplementsPublishedValues` | a watch takes the room behind a list of two values (1117): the one left when the other is removed is lost |
| `TreeUnseenChange` (`MCTree`) | `ChangeIsVisible` | with several owners at a path the value seen changes, the version does not (1285) |
| `LayerOvertaken` (`MCLayer`) | `HandleNotStuck` | a pass without the read lock (2324) leaves a handle with a version it has not looked at |
| `NmeaOlder` (`MCNmea`) | `UpdatesNotOlder` | a request leaves an older pending update in place, emitted later (`qnmeapositioninfosource.cpp:376`) |
| `NmeaSeek` (`MCNmea`) | `NothingBuffered` | "skip over any buffered data" (297) seeks to the number of bytes left, not to the end, of a device that is not sequential (302) |
| `InterestShared` (`MCInterest`) | `TellsTruth` | two processes subscribe at one path, one leaves: publishers are told that interest has ended (2782) |
| `InterestTwins` (`MCInterest`) | `TellsTruth` | of two watches at a path the wrong one is removed (1062): the publisher that stays hears nothing |
| `InterestOneWay` (`MCInterest`) | `TellsTruth` | of two watches of one client on one way only the first is told (`written`, 2797): the publisher of the part is told, that of the object not |
| `InterestWatchedValue` (`MCInterest`) | `TellsTruth` | a value is set where another publisher watches: the watch is overlaid by the datum (1202) |
| `InterestFull` (`MCInterest`) | `TellsTruth` | the table has no entry left for a watch: `addWatch()` (3361) returns nothing, the publisher never hears |
| `SessionHasty` (`MCSession`) | `OpensOnlyIfWanted` | `close()` while connecting is ignored (`qnetworksession_p.cpp:220`): the session opens afterwards |
| `SessionUndefined` (`MCSession`) | `OnlineIsTold` | an access point that is active and undefined: `isOnline()` (302) is true, `onlineStateChanged(true)` is not emitted (160), nor is false when it goes, where `qnetworkconfigmanager.cpp` says of the signal "online for as long as allConfigurations(QNetworkConfiguration::Active) returns a list with at least one entry" |
| `SessionService` (`MCSession`) | `ServiceFollowsMembers` | one member goes down and another comes up in one update: the service session says disconnected |
| `PlaylistAnswer` (`MCPlaylist`) | `AnswerIsKept` | at the last item in sequential playback `nextIndex(2)` is -1 (108-112), but two `next()` lead to 0, by way of no position; likewise `previousIndex(2)` at the first (153-157). `qmediaplaylist.cpp:279-280` promises the "item, which would be current after calling next() steps times" |
| `PlaylistAnnounced` (`MCPlaylist`) | `PositionIsAnnounced` | edits set the position before `jump()` compares with it (470, 486, 490): `currentIndexChanged()` is not emitted |
| `PlaylistStays` (`MCPlaylist`) | `CurrentItemStays` | an item inserted before the current one makes another one current (470) |
| `PlaylistUndefined` (`MCPlaylist`) | `AlwaysDefined` | `next()` on an empty list in random mode, or a jump after a change of playlist, reads the history out of range (441) |
| `ContactsCarry` (`MCContacts`) | `ContactsCarryRelationships` | a stale copy saved again wipes the relationships of the stored contact (256) |
| `ContactsUndefined` (`MCContacts`) | `AlwaysDefined` | a second contact of another manager with an id not used here: the contacts are indexed with -1 (479) |

Seen while modelling, without a configuration: `removeHandle()` (2669-2684) leaves `forceChangeCount` as
it is when the handle's change was still to be signalled, and the last loop of `doClientEmit()`
(2343-2356) then never ends. The model has it (`spinning`); run `layer_index` goes through it, and
`ChangeIsTold` fails in `Layer.cfg` once `Leavers <- Reader`. Nobody is told when an interested
process dies (2117). `saveRelationship()` of one that exists returns true, where
`qcontactmanager.cpp:664` promises false with `AlreadyExistsError`.

## 5. Proofs

`SystemReadWriteLockProofs` proves, for every finite set of processes and without bounds on
the length of a run:

* `TypeCorrect`: `Safety => []TypeOK`, from the assumptions on the constants alone;
* `Exclusive`: `Safety => []MutualExclusion`,
* `UndoIsExact`: `Safety => []UndoMatchesHoldings`,
* `Implements`: `Safety => ImplementsPromise`,
  these three when `Signalled \cap Mortal = {}`: no process that may end is one whose wait for the
  slot may be cut short. Run `lock_leak` shows that the condition is needed.

`MutualExclusion` is not inductive: a state with a writer and a count of 0 satisfies it, and lets
a reader in. The inductive invariant `IInv` adds what the semaphores mean:

* `Counts`: `activeReaders` is the number of readers, `totalWriters` that of the processes
  announced, `activeWriterSem` is 1 less the number of writers;
* `UndoExact`: undo records are what processes hold, so that `Exit` keeps `Counts`. For the
  writers' count this is true only of processes that may end: a signalled one keeps
  a debt, which never falls due;
* `NoReaderOnceDrained`: from the moment one writer has seen the readers gone there is none,
  because `totalWriters` stays above 0 while it is announced.

Exclusion follows: the slot is 0 or 1 and 1 less the number of writers, so there is at most
one, and no reader beside it. `unlock()`'s guess is right for the same reason: a writer that
unlocks finds no reader, so it does not leave as one. The module has a lemma on cardinalities, one on
what moving a process does to the groups counted, one on what a count of 0 or 1 says of its set, and
one lemma per action; the theorems put them together.

`FixedMemoryTreeProofs` proves of the tree, for any owners, values, size of the table and paths of any
length, and any number of operations one after the other:

* `TypeCorrect`: `Spec => []TypeOK`,
* `FreeListIsSound`: `Spec => []FreeListSound`,
* `LinksAreConsistent`: `Spec => []LinksConsistent`,
* `GrowthVisible`: `Spec => GrowthIsVisible`,
* `SetStored`: `Spec => SetIsStored` when `LeavesOnly` holds,
* `ValuesImplemented`: `Spec => ImplementsPublishedValues`, the refinement of `PublishedValues`, when
  `OneLength`, `OnePublisher` and `UnwatchedValues` hold.

None of the three invariants is inductive: they speak of the entries that can be reached, and what
a removal leaves reachable is known only of trees whose links are in order. The invariant
(`SoundAlways`) says that the tree is `Sound` for some set of entries that holds the root and is closed
under sub nodes; within it each node is named by the node it names as its parent, no two sub
nodes have one name, no two nodes one creation id, and none is on the free list. The set
may keep nodes that were cut and not freed, as the code does. `Thinned` is the heart of it:
what keeps some of the nodes and of their links keeps all that. For each operation one lemma says that
it leaves a tree sound for some other set, and `Told`: a node's version has grown, or
everything under it is linked as before (`GrownKeeps`, `InsertKeeps`, `AddWatchKeeps`, `RemWatchKeeps`,
`RemoveItemsKeeps`). Three things carry the weight: a node of the way along a path is under nodes of the way
only (`AboveWay`), so the bumps along the way are enough; subtrees are nested or disjoint
(`Disjoint`); and the entries a removal hands back are each on the list once (`HandedBackIs`).
`Under` and `Walk` are recursive functions, and the provers have no induction over data: that such a
function exists and is what it says (`StepByStep`, `UnderIs`, `WalkSteps`) goes by the least place
where it would fail, which `LeastExists` derives from the library's theorem that the order of the
naturals is well-founded. `PathsAssumption` says that paths are sequences of strings, paired
with who publishes or watches there.

The last two theorems speak of data, and of paths rather than entries. A second layer of lemmas says
for each operation what is at the end of every path afterwards, the one it works at and all others
(`InsertPath`, `AddWatchPath`, `RemWatchPath`, `RemoveItemsPath`). There are two cases only: the
node at a path is turned into a given one, or cut if that is empty (`Turned`), or a way of new nodes has
been made through or to the path (`Grows`). Each invariant about contents then has a lemma for each
of the two:

* `FilledAlways`: at a path lie only data and watches somebody may put there, and one datum at
  most of each owner. The watches are of those who watch there, or of what a datum written over
  them reads as, which is why `Holders` has the owners of data and `Garbage` too;
* published paths are leaves, with data while they are there: this is inductive when no published
  path leads through another or to a watch (`LeavesOnly`). `SetStored` needs it because a
  value for a node that has none is written into the node's block whether it fits or not;
* `RoomFits`: a block with data has room for every value.

`ValuesImplemented` composes them: a removal takes the values of a set of owners at and below
its path and no others (`RemoveValues`), a removal for a client those of its publishers, `insert()` moves
the owner's value at its path only. The hypotheses are not there for the provers: TLC has a counterexample
without each of them (section 4). Without `LeavesOnly` it is `TreeLostValue`; without `OneLength`
`Tree` with two lengths of values, where a removal loses somebody else's value; without `UnwatchedValues`
`TreeWatchedValues`; without `OnePublisher` `TreeWrongOwner`. `Tree.cfg` satisfies all four.

`PlaylistNavigatorProofs` proves of the playlist, for any contents and other playlists, without a
bound on the length of playlists, histories and runs:

* `TypeCorrectness`: `Spec => []TypeOK`,
* `PlayerFollows`: `Spec => []PlayerHasCurrentItem`,
* `HistoryIsRetraced`: `Spec => RandomRetraces`,
* `PromiseKept`: `Spec => []PromiseIsKept`,
  from the named assumptions on the constants: modes are the five of the code, other playlists are
  lists of contents, bounds are natural numbers (the values of the bounds do not matter).

`RandomRetraces` needs an invariant that ties three things the code keeps apart:

* `HistoryPresent`: a history has a present entry exactly in random playback with a position, and
  that entry is the position. It also shows that an edit never makes `jump()` read the history out
  of range (`undefined` can come only from `next()`, `previous()` or a jump where there is no
  position), which `TypeOK` needs after a removal;
* `TrailKept`: the entries before the present one are the positions random playback came from. An
  answer to `previousIndex()` may fall on such an entry: it is one of the playlist's positions, so
  `Random` answers with it and draws none.

`PaddedFacts` carries the weight: padding a history at either end leaves the entries up to the
present one where they were as seen from it. `RandomKeepsTrail` puts it together with what
drawing changes, `JumpFacts` says what `jump()` leaves, and one lemma per action follows.

`PromiseIsKept` speaks of the moment when the last step has been taken; `Leads` says of every moment
before it, mode by mode, how the position promised follows from where playback is: by a distance (in
sequential playback also one that ends off the list, with steps that come to no position on the
way, which is the one case excepted), round a loop, or as an entry of the history that lies that far from the present one. A question asked in
between may draw other entries, and ends the promise in the model; a step takes the entry that is
there (`RandomStepLeads`), and going round a loop step by step leads where all steps at once do (`Wraps`).

`NmeaPositionSourceProofs` proves every safety property of the position source, for any device,
sentences and intervals, and tapes of any length: `TypeCorrect` (`TypeOK`), `OneUpdatePerInterval`
(`OnePerInterval`), `SilenceReported` (`SilenceIsReported`), `TimeoutsWhenDue`
(`TimeoutWhenDue`), `ReplayedInOrder` (`ReplayInOrder`), and `NothingBufferedPassed`
(`NothingBuffered`) for a sequential device: `NmeaSeek.cfg` shows why only for that. The invariant
has four parts. `Flags` says what each combination of timer, pending update and silence flag
remembers of the intervals before; `Fresh` places the next sentence to be read behind the
place where the source was started; `Replay` says that the sentence a replay has reached is a link of
the chain of sentences it owes, that all links before it have been passed on and none
else. `Chain` is a set given by a condition on each of its members, without recursion: what would
be an induction along it is an argument about a least member (`LeastExists`).

`SharedMemoryLayerProofs` proves of the layer, for any server, clients, publishers and
subscribers (one publisher of a path, one handle in a process: `OnePublisher`, `OneHandle`,
`RestingPlaces`), values and bounds:

* `LayerTypes`: `Spec => []TypeOK`, and `IndexFollowsHandles`: `Spec => []IndexMatchesHandles`,
  without further conditions, so also where passes are overtaken and clients die;
* `NoHandleStuck`: `Spec => []HandleNotStuck` when `Overtaken = {}`. `LayerOvertaken.cfg` shows that
  the condition is needed: it is what the read lock would give to a pass;
* `StaleHandlesWoken`: `Spec => []StaleHandleIsWoken` when `Apart` holds: nothing is
  overtaken, no client subscribes to what the server's process publishes, and nobody subscribes at
  the root. The second condition is the one that run `layer_lost_sync` shows to be needed; the third
  leaves out a handle whose path is a prefix of all others.

`Core` is the invariant under all of them. `QueueTypes` and `Ids` follow packets and
replies: whatever is on its way was sent, and no reply has an id that was not. `Places` says where
handles are (at a prefix of their path, nowhere exactly when not held), and who counts them: the
counts of a client are 1 at the node of its handle and 0 elsewhere, which is what
`IndexMatchesHandles` needs to be inductive across the several ways through `refreshHandle()`,
`clearHandle()` and `removeHandle()`. `HandleStep` and `PacketStep` reduce the steps of `Next`
to the few things they do to handles and to packets, so that each invariant has one lemma for each
of these. `HandleNotStuck` is inductive with `Core`: a write that leaves the version of a
handle's node alone has not touched the way to it, so the deepest node of the handle's path is where
it was (`WriteKeepsClosest`, on the lemmas about prefixes). For `StaleHandleIsWoken` the invariant
adds `Remembers` (what a handle has told last is Unset or was read at its own path's node, so a
change of the value moves or bumps it), `Connected` (who is gone holds nothing and the rest are
connected) and `Woken` (a stale handle's process has a SYNC on its way, or the server has the
whole way to the handle in `changedNodes` and will send one before it rests).

The last part of `SharedMemoryLayerProofs` proves `SyncsApplied`: `Spec => SyncMeansApplied`, without
further conditions. The last request for a path is in the packet being filled, or in one on its way with no
later one behind it, or in the one being served, or its effect is in the tree (`Pursued`); packets with
requests are unanswered, the newer the higher their ids (`Order`). When `sync()` returns the
answer to the newest packet has come, so no packet with requests is left, and the effect is in the
tree. That nobody else has changed it since is `OnePublisher`.

`InterestNotificationProofs` proves of interest notification, for any clients, publishers,
subscribers, paths and values, and clients that die at any moment:

* `InterestIsCounted`: `Spec => []InterestCounted`,
* `TypeCorrect`: `Spec => []TypeOK`, both from the assumptions on the constants alone: an `unsigned int`
  holds the number of subscribers (`RangeAssumption`), processes are clients or the server, paths are
  sequences of strings, the owner that stands for all publishers of a process is none of
  them (`PublisherAssumption`), the table has an entry and values have a length (`MemoryAssumption`),
* `TruthIsTold`: `Spec => []TellsTruth` when `OneProcess`, `Apart`, `NotValues` and `Enough` hold.

The sum in `InterestCounted` is not inductive: it allows a queue in which a disinterest comes before
the interest it ends, and serving that would wrap the count below zero. The invariant says which
subscribers a count counts: those whose interest is no longer on its way and whose disinterest is
still to be made or to be served (`Counts`); and what a queue can hold: each request once, of
the client's own subscribers, the interest of each before its disinterest (`Queues`). What the tree
does with watches plays no part in this half.

The other half needs the tree. `Facts == INSTANCE FixedMemoryTreeProofs` brings what is proved of
it, for the tree the server keeps; `TreeFits` proves the assumptions of that module from those of this
one, and `SameAdd` and its like that the operations are the same seen from either. A lemma for each
operation says what it does to the watches and data at every path. The invariant `Truth` is

* `Sane`: the types, the counts, whose queues hold what (`Asked`: requests publishers of that client
  have come to make, a watch and a value once), which notices are on their way, and a tree that is
  sound and filled with what belongs there;
* `Neat`: at a publisher's path lies its own watch or none, and no value; elsewhere no watch;
* `Placed`: the watch of a publisher that listens is in the tree once its request has been served;
* `Informed`: a publisher whose watch has not been made has been told nothing (`Untold`); one whose
  watch has been made was told last what the counts say, the notices on their way taken as
  heard in their order (`Knows`, `LastTold`), at the paths where no process that subscribes has
  ended. When nothing is on its way this is `TellsTruth`;
* `Spacious`: the entries left in the table are enough for those watches and values that are yet to
  come, which is why the watch is really made;
* `Attentive`: who listens is in `watchObjects`, who is not connected has ended.

`DoNotify` keeps `Knows` because it tells when a count becomes one or none, and with one process at a
path (`OneProcess`) that is when somebody is counted or nobody is. `Watchers` is a recursive function that
climbs; that it finds every watch on the way, and that `Addressed` drops none when no two
publishers of a client lie on one way (`Apart`), goes by the least place where it would not.
The hypotheses are not there for the provers: without each of them TLC has a counterexample (section 4),
`InterestShared` without `OneProcess`, `InterestTwins` and `InterestOneWay` without the two parts of
`Apart`, `InterestWatchedValue` without `NotValues`, `InterestFull` without `Enough`.
`Interest.cfg` satisfies all four.

`NetworkSessionProofs` proves of sessions, for any configurations, sessions and reports of the
platform, without a bound on the length of runs:

* `TypeCorrect`: `Spec => []TypeOK`; the bound on `online` is the part that says something,
* `StateFollows`: `Spec => []StateFollowsConfiguration`,
* `OnlineRight`: `Spec => []OnlineAgrees`: what was told is what `isOnline()` says, but while all that
  is active is undefined as well, which is the one case where the code's two questions differ,
* `OnlineTold`: `Spec => []OnlineIsTold`, without the exception, when the platform reports nothing
  as `Undefined|Active`; `SessionUndefined.cfg` shows that the condition is needed,
* `OpensIfWanted`: `Spec => OpensOnlyIfWanted` when `Hasty = {}`; `SessionHasty.cfg` shows that the
  condition is needed.

`UpdateConfigurations` is a fold of reports, each of which changes an object, the count, the
signal and sessions. `Consistent` is what is true of each world of the fold: exactly the objects in the
table are valid, count and signal agree with those whose state is equal to `Active`, every session
follows its configuration. Between updates the service network is also the `Snapshot` of the
table, so `isOnline()`, which lists it too, says nothing that no access point says. `AddedStep`, `ChangedStep` and `RemovedStep` keep it for a report of any kind, and
`FoldAlong` carries it over any number of reports in any order by an argument about the first one that
would break it (`LeastExists`). `Kin` says what a session may become on the way. An object that is
found again gets a number no session holds (`Unused`), which is why a session over the old one is never
taken for one over the new; `Kept` then frees what nobody holds.

`ContactsMemoryEngineProofs` proves of the contacts engine, for any types, engines, batches and
numbers of contacts and relationships:

* `TypeCorrect`: `Spec => []TypeOK`,
* `ObserversFollow`: `Spec => []ObserversUpToDate`, without further conditions,
* `RelationshipsAgreeAlways`: `Spec => []RelationshipsAgree` when `FirstsNamed`: no first contact is
  given without a manager's URI, as in `Contacts.cfg`. `ContactsEmptyUri.cfg` shows that the
  condition is needed; it is a finding about the code.

A batch is a loop that fails for some items and goes on: `Each`, a function on the numbers up to the
length of the list. `EachReaches` carries a set that every item leads into along the loop, by an
argument about the least item that would leave it (`AlongNumbers`). `IInv` has the types, `Matched` (the
two parallel lists, the reference count) and that observers are up to date. Between the items of a
batch observers are behind, so the loop keeps `Shown` instead: an observer knows every contact
that the change set does not name, and what the set says of the self contact is true of the
store; `EmitShows` turns that into up to date when the signals go out. `Agree` holds the
relationships together: the list of a contact is `Among` all relationships those it takes part in, in
their order. The lemmas about `Among` say how picking goes with appending to a list and with taking one
place out of it; the latter needs that no relationship is stored twice, which is therefore part of
the invariant. A contact's removal runs a second batch, over the relationships found for it, and
`RemoveContactAgrees` is that none of its relationships is missed; that is where the condition comes in.
The assumptions are that the bounds are numbers, that a store has finitely many engines, and that no contact
has the type the model uses for "no type".

Only model-checked, because the provers cannot reach it: liveness (`WriteCallReturns`, `ChangeIsTold`,
`SyncReturns`, `ReplayGoesOn`, `WaitReturns`). Every invariant and every action property of the passing
runs is the conclusion of a theorem, and so are both refinements.

## 6. Not modelled, and the plan

Done: the lock; the tree; the layer on the tree's results; the position source; interest
notification over the tree; network sessions; the playlist navigator; the contacts' memory
engine. Next, most important first:

1. `LockLifecycle`: `NumInstances`, the constructor with and without reset, the two last destructors,
   and the server's startup around it (1894).
2. `PacketProtocol`: a byte stream cut anywhere; promise: a FIFO of packets.
3. The states of contacts requests and of the Versit reader's thread.

Left out of modelled parts: in the interest module packets (requests are single messages; packets
are the layer's) and the wild pointers of a watch overlaid by a datum (1202); in sessions the
engines' own state, Symbian and Maemo sessions, calls from slots; in the playlist
loading and saving, and `lastValidPos`, which nothing reads; in the contacts engine detail
definitions, filters, display labels and timestamps.

Not planned: layers that adapt platform stores, sentence parsing, sensors, service database,
system information, messaging and the platform position sources, which keep no protocol state that a
model would say more about than the code; the allocator, which is vendored; the Symbian
contacts server, which needs Symbian's database server to be understood.
