---------------------------- MODULE NetworkSession ----------------------------
(***************************************************************************)
(* Network sessions over shared configurations: QNetworkSessionPrivate     *)
(* (qnetworksession_p.cpp), QNetworkConfigurationManagerPrivate            *)
(* (qnetworkconfigmanager_p.cpp) and what they use of an engine            *)
(* (qnmwifiengine_unix.cpp, the build with BACKEND_NM).                    *)
(*                                                                         *)
(* A configuration found again after it was removed is a new object with   *)
(* the old identifier; sessions keep the object they were made with, so    *)
(* objects are pairs of a configuration and a number; one that neither the *)
(* manager nor a session holds is free again.  Signals call their slots at *)
(* once, except connectionError(), which waits in each session's event     *)
(* queue.  Not modelled: roaming (every function of it is a warning),      *)
(* statistics, an application that calls a session from a slot of the same *)
(* signal, names and bearers.                                              *)
(*                                                                         *)
(* A definition that no other one uses is a slip: the definition after it  *)
(* as a wrong edit of the code would have it.  None is part of Next.       *)
(***************************************************************************)
EXTENDS Integers, Sequences, FiniteSets, SequencesExt

CONSTANTS
  Configs,   \* identifiers the platform may report
  Sessions,  \* places for QNetworkSession objects of the application
  Reported,  \* per identifier, the states the platform may report, or Absent
  Startable, \* configurations connectToId() can start
  Stoppable, \* configurations disconnectFromId() can stop
  Hasty,     \* sessions whose user may call close() while not open
  None,      \* no object
  MaxGen,    \* bound: objects in use for one identifier
  MaxQueue   \* bound: errors waiting in one session

\* QNetworkConfiguration::StateFlags: each state has the flags of those before
\* it, except Undefined, which is a flag of its own.  An access point nobody has
\* used before that is the active one is both undefined and active.
Flags == {"undefined", "defined", "discovered", "active"}
Undefined == {"undefined"}
Defined == {"defined"}
Discovered == Defined \cup {"discovered"}
Active == Discovered \cup {"active"}
StateFlags == {Undefined, Defined, Discovered, Active, Undefined \cup Active}
Absent == {}   \* a configuration the platform does not report

ASSUME ConfigsAssumption ==
  /\ IsFiniteSet(Configs) /\ IsFiniteSet(Sessions)
  /\ \A c \in Configs : Reported[c] \subseteq StateFlags \cup {Absent}
  /\ Startable \subseteq Configs /\ Stoppable \subseteq Configs
  /\ Hasty \subseteq Sessions
ASSUME BoundsAssumption == MaxGen \in Nat \ {0} /\ MaxQueue \in Nat

Objects == Configs \X (1 .. MaxGen)
ASSUME NoneAssumption == None \notin Objects \cup Configs

VARIABLES
  known,      \* accessPointConfigurations: identifier -> number of its object, 0 none
  object,     \* what every object holds: valid, flags
  snap,       \* "Internet Service Network": flags, members
  online,     \* onlineConfigurations
  session,    \* the sessions; exists = FALSE is a free place
  activating, \* the engine's activatingConnectionPath
  toldOnline, \* history: the last onlineStateChanged(), at first whether any counted
  wanted      \* history: open() has been accepted and nothing has ended it

manager == <<known, object, snap, online, toldOnline>>
Blank == [valid |-> FALSE, flags |-> Undefined]
vars == <<manager, session, activating, wanted>>

Free == [exists |-> FALSE, service |-> FALSE, active |-> None, state |-> "Invalid",
         opened |-> FALSE, isOpen |-> FALSE, waiting |-> FALSE, queue |-> <<>>]
-----------------------------------------------------------------------------
(* A session r, the objects being o and the service network's state n.     *)

\* (state() & flags) == flags
Has(o, x, flags) == flags \subseteq o[x].flags

\* The state a valid or removed access point gives.
StateOf(o, x) ==
  CASE ~o[x].valid -> "Invalid"
    [] o[x].valid /\ Has(o, x, Active) -> "Connected"
    [] o[x].valid /\ Has(o, x, Discovered) /\ ~Has(o, x, Active) -> "Disconnected"
    [] o[x].valid /\ ~Has(o, x, Discovered) -> "NotAvailable"

\* opened() ends a waitForOpened(), and so does error(); closed() does not.
FromActiveConfig(r, o) ==
  LET open == r.opened /\ o[r.active].valid /\ Has(o, r.active, Active)
  IN [r EXCEPT !.state = StateOf(o, r.active), !.isOpen = open,
               !.waiting = @ /\ (r.isOpen \/ ~open)]

\* The first active member is taken; members come in an order of identifiers.
FromServiceNetwork(r, o, n) ==
  LET up == {x \in n.members : Has(o, x, Active)}
  IN [r EXCEPT !.state = IF up # {} THEN "Connected"
                         ELSE IF n.members = {} THEN "NotAvailable" ELSE "Disconnected",
               !.active = IF up # {} THEN CHOOSE x \in up : TRUE ELSE @]

NetworkConfigurationsChanged(r, o, n) ==
  IF r.service THEN FromServiceNetwork(r, o, n) ELSE FromActiveConfig(r, o)

\* Slot of configurationChanged() for an access point.
ConfigurationChanged(r, x, o, n) ==
  IF r.exists /\ r.active = x THEN NetworkConfigurationsChanged(r, o, n) ELSE r

\* Slot of configurationChanged() for the service network.
ServiceChanged(r, o, n) == IF r.exists /\ r.service THEN FromServiceNetwork(r, o, n) ELSE r

\* Slip: the error is queued in open sessions only.
QueuedIfOpen(s, c, e) ==
  [t \in Sessions |->
     IF s[t].exists /\ s[t].isOpen THEN [s[t] EXCEPT !.queue = Append(@, <<c, e>>)] ELSE s[t]]

\* connectionError() of the engine: queued in every session that has one.
Queued(s, c, e) ==
  [t \in Sessions |->
     IF s[t].exists /\ s[t].active # None THEN [s[t] EXCEPT !.queue = Append(@, <<c, e>>)]
     ELSE s[t]]
QueueRoom == \A t \in Sessions : Len(session[t].queue) < MaxQueue
-----------------------------------------------------------------------------
(* updateConfigurations() of the manager, on a record of all it changes.   *)

World == [known |-> known, object |-> object, snap |-> snap,
          online |-> online, told |-> toldOnline, session |-> session]

\* onlineStateChanged() at the first and after the last online configuration.
\* Counted are those whose state is Active and no more; whoever asks whether
\* the flags of Active are set gets yes for undefined and active ones as well.
Counted(w, d) ==
  LET n == w.online + d
  IN [w EXCEPT !.online = n,
               !.told = IF d = 1 /\ n = 1 THEN TRUE ELSE IF d = -1 /\ n = 0 THEN FALSE ELSE @]

\* External: the last reference to an object frees it (QExplicitlySharedDataPointer).
Kept(o, k, s) ==
  [x \in Objects |->
     IF k[x[1]] = x[2] \/ \E t \in Sessions : s[t].active = x THEN o[x] ELSE Blank]

Unused(s, c) == {g \in 1 .. MaxGen : \A t \in Sessions : s[t].active # <<c, g>>}

Added(w, c, f) ==
  LET g == CHOOSE i \in Unused(w.session, c) : TRUE
      v == [w EXCEPT !.known[c] = g,
                     !.object[<<c, g>>] = [valid |-> TRUE, flags |-> f]]
  IN IF f = Active THEN Counted(v, 1) ELSE v

\* Slip: every report of an active configuration counts.
ChangedCounted(w, c, f) ==
  LET x == <<c, w.known[c]>>
      v == [w EXCEPT !.object[x].flags = f]
      u == [v EXCEPT !.session = [t \in Sessions |->
              ConfigurationChanged(v.session[t], x, v.object, v.snap)]]
  IN IF f = Active THEN Counted(u, 1) ELSE u

\* Slip: only a configuration that becomes active is passed on.
ChangedUp(w, c, f) ==
  LET x == <<c, w.known[c]>>
      v == [w EXCEPT !.object[x].flags = f]
  IN IF w.object[x].flags = f THEN w
     ELSE IF f = Active
          THEN Counted([v EXCEPT !.session = [t \in Sessions |->
                 ConfigurationChanged(v.session[t], x, v.object, v.snap)]], 1)
          ELSE v

Changed(w, c, f) ==
  LET x == <<c, w.known[c]>>
      v == [w EXCEPT !.object[x].flags = f]
      u == [v EXCEPT !.session = [t \in Sessions |->
              ConfigurationChanged(v.session[t], x, v.object, v.snap)]]
  IN IF w.object[x].flags = f THEN w
     ELSE IF f = Active THEN Counted(u, 1)
     ELSE IF w.object[x].flags = Active THEN Counted(u, -1)
     ELSE u

\* Slip: a removed configuration stays counted.
RemovedUncounted(w, c) == [w EXCEPT !.known[c] = 0, !.object[<<c, w.known[c]>>].valid = FALSE]

\* No session is connected to configurationRemoved().
Removed(w, c) ==
  LET x == <<c, w.known[c]>>
      v == [w EXCEPT !.known[c] = 0, !.object[x].valid = FALSE]
  IN IF w.object[x].flags = Active THEN Counted(v, -1) ELSE v

\* The members are those of internet access, which the Network Manager says of
\* every configuration, that are defined; their flags are the network's.
Table(k) == {<<c, k[c]>> : c \in {d \in Configs : k[d] # 0}}
Snapshot(k, o) ==
  LET members == {x \in Table(k) : Has(o, x, Defined)}
  IN [flags |-> Defined \cup UNION {o[x].flags : x \in members}, members |-> members]

UpdateInternetService(w) ==
  LET n == Snapshot(w.known, w.object)
  IN IF n = w.snap THEN w
     ELSE [w EXCEPT !.snap = n,
                    !.session = [t \in Sessions |-> ServiceChanged(w.session[t], w.object, n)]]

\* What getConfigurations() finds, p giving its states, in any order: changed
\* or added; then the ones it no longer finds are removed.
Found(p) == {c \in Configs : p[c] # Absent}
Lost(p) == {c \in Configs : p[c] = Absent /\ known[c] # 0}
Seen(w, c, f) == IF w.known[c] = 0 THEN Added(w, c, f) ELSE Changed(w, c, f)
Told(w, c, f) == IF f = Absent THEN Removed(w, c) ELSE Seen(w, c, f)
Orders(p) ==
  {q \in SetToSeqs(Found(p) \cup Lost(p)) :
     \A i, j \in DOMAIN q : q[i] \in Found(p) /\ q[j] \in Lost(p) => i < j}
Updated(p, order) ==
  LET world[i \in 0 .. Len(order)] ==
        IF i = 0 THEN World ELSE Told(world[i - 1], order[i], p[order[i]])
  IN UpdateInternetService(world[Len(order)])

\* External: the platform reports any state of its interfaces; one that is not
\* known appears only while there is a free object for it.
Reports ==
  {p \in [Configs -> StateFlags \cup {Absent}] :
     \A c \in Configs : /\ p[c] \in Reported[c]
                        /\ p[c] # Absent => known[c] # 0 \/ Unused(session, c) # {}}

\* The engine reports by itself, or asked by requestUpdate().
UpdateConfigurations ==
  \E p \in Reports : \E w \in {Updated(p, order) : order \in Orders(p)} :
    /\ known' = w.known /\ object' = Kept(w.object, w.known, w.session) /\ snap' = w.snap
    /\ online' = w.online /\ toldOnline' = w.told /\ session' = w.session
    /\ UNCHANGED <<activating, wanted>>

\* performAsyncConfigurationUpdate(): an update that ends with updateCompleted().
\* Nothing new is reported in it; an update that brings something new is an
\* UpdateConfigurations and then this.
PerformAsyncUpdate ==
  /\ session' = [s \in Sessions |->
       IF session[s].exists THEN NetworkConfigurationsChanged(session[s], object, snap)
       ELSE session[s]]
  /\ object' = Kept(object, known, session')
  /\ UNCHANGED <<known, snap, online, toldOnline, activating, wanted>>
-----------------------------------------------------------------------------
(* The platform and its engine.                                            *)

\* The platform could not start what connectToId() was last called for.
ActivationFails ==
  /\ activating # None /\ QueueRoom
  /\ session' = Queued(session, activating, "ConnectError")
  /\ UNCHANGED <<manager, activating, wanted>>
-----------------------------------------------------------------------------
(* A session.                                                              *)

\* Constructor and syncStateWithInterface().
Create(s) ==
  /\ ~session[s].exists
  /\ \E x \in Table(known) \cup {None} :
       LET r == [Free EXCEPT !.exists = TRUE, !.service = (x = None), !.active = x]
       IN session' = [session EXCEPT ![s] = NetworkConfigurationsChanged(r, object, snap)]
  /\ UNCHANGED <<manager, activating, wanted>>

Destroy(s) ==
  /\ session[s].exists
  /\ session' = [session EXCEPT ![s] = Free]
  /\ object' = Kept(object, known, session')
  /\ wanted' = [wanted EXCEPT ![s] = FALSE]
  /\ UNCHANGED <<known, snap, online, toldOnline, activating>>

\* An access point in use by s.
Plain(s) == session[s].exists /\ ~session[s].service
Id(s) == session[s].active[1]
Flagged(s, flags) == Has(object, session[s].active, flags)

\* open() where there is nothing to open: error() and no more.
OpenUndiscovered(s) ==
  /\ Plain(s) /\ ~session[s].isOpen /\ ~Flagged(s, Discovered)
  /\ session' = [session EXCEPT ![s].waiting = FALSE]
  /\ UNCHANGED <<manager, activating, wanted>>

OpenActive(s) ==
  /\ Plain(s) /\ ~session[s].isOpen /\ Flagged(s, Active)
  /\ session' = [session EXCEPT ![s].opened = TRUE, ![s].isOpen = TRUE, ![s].waiting = FALSE]
  /\ wanted' = [wanted EXCEPT ![s] = TRUE]
  /\ UNCHANGED <<manager, activating>>

\* connectToId() is remembered in any case.
OpenInactive(s) ==
  /\ Plain(s) /\ ~session[s].isOpen /\ QueueRoom
  /\ Flagged(s, Discovered) /\ ~Flagged(s, Active)
  /\ LET own == [session EXCEPT ![s].opened = TRUE, ![s].state = "Connecting"]
     IN session' = IF Id(s) \in Startable THEN own ELSE Queued(own, Id(s), "NotSupported")
  /\ activating' = Id(s)
  /\ wanted' = [wanted EXCEPT ![s] = TRUE]
  /\ UNCHANGED manager

\* The loop of waitForOpened() is entered.
WaitForOpened(s) ==
  /\ session[s].exists /\ ~session[s].isOpen /\ session[s].state = "Connecting"
  /\ session' = [session EXCEPT ![s].waiting = TRUE]
  /\ UNCHANGED <<manager, activating, wanted>>

Close(s) ==
  /\ Plain(s) /\ (session[s].isOpen \/ s \in Hasty)
  /\ session' = IF session[s].isOpen
                THEN [session EXCEPT ![s].opened = FALSE, ![s].isOpen = FALSE]
                ELSE session
  /\ wanted' = [wanted EXCEPT ![s] = FALSE]
  /\ UNCHANGED <<manager, activating>>

\* Slip: closed without forgetting that it was to be opened.
ForcedKeepsOpened(r, x) == IF r.exists /\ r.active = x
                           THEN [r EXCEPT !.isOpen = FALSE, !.waiting = FALSE] ELSE r

\* forcedSessionClose(): every session over the same object, error() included.
ForcedSessionClose(r, x) ==
  IF r.exists /\ r.active = x
  THEN [r EXCEPT !.opened = FALSE, !.isOpen = FALSE, !.waiting = FALSE] ELSE r

StopActive(s) ==
  /\ Plain(s) /\ Flagged(s, Active) /\ QueueRoom
  /\ LET x == session[s].active
         own == [session EXCEPT ![s].state = "Closing"]
         told == IF Id(s) \in Stoppable THEN own ELSE Queued(own, Id(s), "NotSupported")
     IN /\ session' = [t \in Sessions |-> ForcedSessionClose(told[t], x)]
        /\ wanted' = [t \in Sessions |->
             wanted[t] /\ ~(session[t].exists /\ session[t].active = x)]
  /\ activating' = IF Id(s) \in Stoppable THEN None ELSE activating
  /\ UNCHANGED manager

StopInactive(s) ==
  /\ Plain(s) /\ ~Flagged(s, Active)
  /\ session' = [session EXCEPT ![s].opened = FALSE, ![s].isOpen = FALSE]
  /\ wanted' = [wanted EXCEPT ![s] = FALSE]
  /\ UNCHANGED <<manager, activating>>

\* connectionError(): the session looks at its configuration first, then
\* forgets that it was to be opened if the engine cannot do it at all.
ConnectionError(r, e) ==
  LET q == NetworkConfigurationsChanged(r, object, snap)
  IN [q EXCEPT !.opened = @ /\ e # "NotSupported", !.waiting = FALSE]

Deliver(s) ==
  /\ session[s].queue # <<>>
  /\ LET e == Head(session[s].queue)
         r == [session[s] EXCEPT !.queue = Tail(@)]
         mine == r.active # None /\ r.active[1] = e[1]
     IN /\ session' = [session EXCEPT ![s] = IF mine THEN ConnectionError(r, e[2]) ELSE r]
        /\ wanted' = [wanted EXCEPT ![s] = @ /\ ~(mine /\ e[2] = "NotSupported")]
  /\ UNCHANGED <<manager, activating>>
-----------------------------------------------------------------------------
\* The first update, in the manager's constructor, tells nobody.
Init ==
  \E p \in [Configs -> StateFlags \cup {Absent}] :
    /\ \A c \in Configs : p[c] \in Reported[c]
    /\ known = [c \in Configs |-> IF p[c] = Absent THEN 0 ELSE 1]
    /\ object = [x \in Objects |->
         IF x[2] = 1 /\ p[x[1]] # Absent THEN [valid |-> TRUE, flags |-> p[x[1]]]
         ELSE Blank]
    /\ snap = Snapshot(known, object)
    /\ online = Cardinality({c \in Configs : p[c] = Active})
    /\ toldOnline = (online > 0)
    /\ session = [s \in Sessions |-> Free]
    /\ activating = None
    /\ wanted = [s \in Sessions |-> FALSE]

User(s) ==
  \/ Create(s) \/ Destroy(s)
  \/ OpenUndiscovered(s) \/ OpenActive(s) \/ OpenInactive(s) \/ WaitForOpened(s)
  \/ Close(s) \/ StopActive(s) \/ StopInactive(s)

Next ==
  \/ UpdateConfigurations \/ PerformAsyncUpdate \/ ActivationFails
  \/ \E s \in Sessions : User(s) \/ Deliver(s)

\* An event loop delivers what is queued, also the loop of waitForOpened().
Fairness == \A s \in Sessions : WF_vars(Deliver(s))
Spec == Init /\ [][Next]_vars /\ Fairness
-----------------------------------------------------------------------------
Errors == Configs \X {"NotSupported", "ConnectError"}
SessionStates == {"Invalid", "NotAvailable", "Connecting", "Connected", "Closing", "Disconnected"}

\* Types; the count of online configurations never exceeds those there are,
\* and only a session of an access point is ever opened.
TypeOK ==
  /\ known \in [Configs -> 0 .. MaxGen]
  /\ object \in [Objects -> [valid : BOOLEAN, flags : StateFlags]]
  /\ snap \in [flags : SUBSET Flags, members : SUBSET Objects]
  /\ online \in 0 .. Cardinality(Configs) /\ toldOnline \in BOOLEAN
  /\ \A s \in Sessions :
       /\ session[s] \in [exists : BOOLEAN, service : BOOLEAN, active : Objects \cup {None},
                          state : SessionStates, opened : BOOLEAN, isOpen : BOOLEAN,
                          waiting : BOOLEAN, queue : Seq(Errors)]
       /\ session[s].opened \/ session[s].isOpen => Plain(s)
  /\ activating \in Configs \cup {None}
  /\ wanted \in [Sessions -> BOOLEAN]

InTable(x) == known[x[1]] = x[2]

\* A session whose configuration is in the manager's table is in the state that
\* configuration gives, unless it is connecting or closing; it is open only
\* over an active interface, and one that was to be opened is open as soon as
\* the interface is active, whoever brought it up (409-457, against the
\* emissions of configurationChanged()).
StateFollowsConfiguration ==
  \A s \in Sessions : Plain(s) /\ InTable(session[s].active) =>
    /\ \/ session[s].state = StateOf(object, session[s].active)
       \/ session[s].state = "Connecting" /\ Flagged(s, Discovered) /\ ~Flagged(s, Active)
       \/ session[s].state = "Closing" /\ Flagged(s, Active)
    /\ session[s].isOpen => Flagged(s, Active)
    /\ session[s].opened /\ Flagged(s, Active) => session[s].isOpen

\* The access points that allConfigurations() lists, and isOnline(), which
\* lists the service network as well.
AllConfigurations(flags) == {x \in Table(known) : Has(object, x, flags)}
IsOnline == AllConfigurations(Active) # {} \/ Active \subseteq snap.flags

\* onlineStateChanged() leaves the application with what isOnline() says,
\* through configurations that are removed, found again, or change places
\* within one update - unless all that is active is undefined as well: no such
\* configuration is counted (92, 117, 160, 165), and then only isOnline() is
\* true.
OnlineAgrees ==
  /\ toldOnline => IsOnline
  /\ IsOnline /\ ~toldOnline =>
       /\ AllConfigurations(Active) # {}
       /\ \A x \in AllConfigurations(Active) : Has(object, x, Undefined)

\* "The state is considered to be online for as long as allConfigurations(
\* QNetworkConfiguration::Active) returns a list with at least one entry"
\* (qnetworkconfigmanager.cpp, of onlineStateChanged()).  (Not so where an
\* access point nobody used before is the active one; and an application that
\* asked isOnline() then is never told that it has gone.)
OnlineIsTold == toldOnline = IsOnline

\* A session opens only for an open() that no close(), stop(), forced closing
\* or refusal by the engine has ended since, however late interface and error come.
OpensOnlyIfWanted ==
  [][\A s \in Sessions : ~session[s].isOpen /\ session'[s].isOpen => wanted'[s]]_vars

\* waitForOpened(-1) on an interface that the engine cannot start comes back.
WaitReturns ==
  \A s \in Sessions :
    (session[s].waiting /\ Id(s) \notin Startable) ~> ~session[s].waiting

\* A session of the service network is connected while a member is active.
\* (Not so: within one update a member may be seen going down before another
\* is seen coming up, and the service network itself has not changed then.)
ServiceFollowsMembers ==
  \A s \in Sessions : session[s].exists /\ session[s].service =>
    ((session[s].state = "Connected") = (Active \subseteq snap.flags))
=============================================================================
