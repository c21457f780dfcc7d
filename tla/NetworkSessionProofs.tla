------------------------- MODULE NetworkSessionProofs --------------------------
(***************************************************************************)
(* Proofs about NetworkSession.  The properties are about states between   *)
(* actions, but an update is a fold of reports that each change objects,   *)
(* the count and sessions: they are proved of every world of the fold, for *)
(* any set of reports and any order, and then of what is left when the     *)
(* objects nobody holds have been freed.  The invariant adds which objects *)
(* are valid and that the service network is a snapshot of the table: with *)
(* the first no session looks at a removed object as if it were there, by  *)
(* the second the network is active only over a member that is.            *)
(***************************************************************************)
EXTENDS NetworkSession, FiniteSetTheorems, SequenceTheorems, WellFoundedInduction, TLAPS

\* A set of naturals has a least element.
LEMMA LeastExists ==
  ASSUME NEW S \in SUBSET Nat, S # {}
  PROVE  \E k \in S : \A j \in S : k <= j
<1> DEFINE R == {x \in Nat \X Nat : x[1] < x[2]}
<1>1. OpToRel(<, Nat) = R
  BY Zenon DEF OpToRel
<1>2. IsWellFoundedOn(R, Nat)
  BY <1>1, NatLessThanWellFounded, Zenon
<1>3. PICK k \in S : \A j \in S : <<j, k>> \notin R
  <2> HIDE DEF R
  <2> QED
    BY <1>2, WFMin
<1>4. \A j \in S : j \in Nat /\ k \in Nat /\ ~(j < k)
  BY <1>3
<1> QED
  BY <1>4

\* The states an object may be in: what the platform reports of some
\* configuration, or that of an object nobody holds.
Shown == {Undefined} \cup {f \in StateFlags : \E c \in Configs : f \in Reported[c]}

\* The records of sessions, the contents of objects, and the rest of a world.
Records == [exists : BOOLEAN, service : BOOLEAN, active : Objects \cup {None},
            state : SessionStates, opened : BOOLEAN, isOpen : BOOLEAN,
            waiting : BOOLEAN, queue : Seq(Errors)]
Contents == [valid : BOOLEAN, flags : Shown]
Networks == [flags : SUBSET Flags, members : SUBSET Objects]
Tables == [Configs -> 0 .. MaxGen]
Worlds == [known : Tables, object : [Objects -> Contents], snap : Networks,
           online : Int, told : BOOLEAN, session : [Sessions -> Records]]

\* Types, without the bound on the count of online configurations.
Types ==
  /\ known \in Tables /\ object \in [Objects -> Contents] /\ snap \in Networks
  /\ online \in Int /\ toldOnline \in BOOLEAN
  /\ session \in [Sessions -> Records]
  /\ activating \in Configs \cup {None}
  /\ wanted \in [Sessions -> BOOLEAN]

\* An access point's session.
Single(r) == r.exists /\ ~r.service

\* A well-formed session: one of an access point has an object, only such
\* a one is opened, and a free place has none.
Owned(r) == /\ Single(r) => r.active \in Objects
            /\ r.opened \/ r.isOpen => Single(r)
            /\ ~r.exists => ~r.service /\ r.active = None

\* Exactly the objects in the table are valid.
ValidInTable(k, o) ==
  /\ \A c \in Configs : k[c] # 0 => o[<<c, k[c]>>].valid
  /\ \A x \in Objects : o[x].valid => k[x[1]] = x[2]

\* The active configurations, and a count and a signal that agree with them.
Up(k, o) == {c \in Configs : k[c] # 0 /\ o[<<c, k[c]>>].flags = Active}
Agrees(k, o, n, told) == n = Cardinality(Up(k, o)) /\ told = (n > 0)

\* The session r is in the state its configuration in the table gives.
Follows(k, o, r) ==
  Single(r) /\ k[r.active[1]] = r.active[2] =>
    /\ \/ r.state = StateOf(o, r.active)
       \/ r.state = "Connecting" /\ Has(o, r.active, Discovered) /\ ~Has(o, r.active, Active)
       \/ r.state = "Closing" /\ Has(o, r.active, Active)
    /\ r.isOpen => Has(o, r.active, Active)
    /\ r.opened /\ Has(o, r.active, Active) => r.isOpen

\* q is what looking at its configuration makes of r.
Kin(r, q, members) ==
  /\ q \in Records
  /\ q.exists = r.exists /\ q.service = r.service /\ q.opened = r.opened /\ q.queue = r.queue
  /\ q.active = r.active \/ (r.service /\ q.active \in members)
  /\ q.isOpen => r.isOpen \/ (Single(r) /\ q.opened)

\* What holds of one session, and of everything.
Fits(k, o, r) == r \in Records /\ Owned(r) /\ Follows(k, o, r)
Good ==
  /\ Types /\ snap = Snapshot(known, object)
  /\ ValidInTable(known, object) /\ Agrees(known, object, online, toldOnline)
  /\ \A s \in Sessions : Fits(known, object, session[s])

\* What is to be opened is wanted; what opens is wanted.
Asked == \A s \in Sessions : session[s].opened => wanted[s]
Opens == \A s \in Sessions : ~session[s].isOpen /\ session'[s].isOpen => wanted'[s]

\* What the flags of a state say of each other.
LEMMA FlagFacts ==
  /\ Shown \subseteq StateFlags /\ Undefined \in Shown
  /\ StateFlags \subseteq SUBSET Flags /\ Defined \subseteq Flags
  /\ Active # Absent /\ Undefined # Undefined \cup Active
  /\ Defined \subseteq Active /\ "active" \in Active /\ "active" \notin Defined
  /\ \A f \in StateFlags : "active" \in f => Active \subseteq f
  /\ \A f \in StateFlags : Active \subseteq f => f = Active \/ f = Undefined \cup Active
BY DEF Shown, StateFlags, Flags, Undefined, Defined, Discovered, Active, Absent

LEMMA UndefinedApart == ~(Undefined \subseteq Active)
BY DEF Undefined, Active, Discovered, Defined

\* The state an access point gives is one of the states of a session.
LEMMA StateOfType ==
  ASSUME NEW o \in [Objects -> Contents], NEW x \in Objects
  PROVE  StateOf(o, x) \in SessionStates
<1>1. o[x].valid \in BOOLEAN
  BY DEF Contents
<1>2. CASE ~o[x].valid
  BY <1>2 DEF StateOf, SessionStates
<1>3. CASE o[x].valid /\ Has(o, x, Active)
  BY <1>3 DEF StateOf, SessionStates
<1>4. CASE o[x].valid /\ Has(o, x, Discovered) /\ ~Has(o, x, Active)
  BY <1>4 DEF StateOf, SessionStates
<1>5. CASE o[x].valid /\ ~Has(o, x, Discovered) /\ ~Has(o, x, Active)
  BY <1>5 DEF StateOf, SessionStates
<1> QED
  BY <1>1, <1>2, <1>3, <1>4, <1>5

\* What a session of an access point takes over from it: the state, and that
\* it is open when it was to be opened and the interface is active.
LEMMA FromActive ==
  ASSUME NEW r \in Records, NEW o \in [Objects -> Contents], r.active \in Objects
  PROVE  LET q == FromActiveConfig(r, o)
         IN /\ q \in Records
            /\ q.exists = r.exists /\ q.service = r.service /\ q.opened = r.opened
            /\ q.queue = r.queue /\ q.active = r.active
            /\ q.state = StateOf(o, r.active)
            /\ q.isOpen = (r.opened /\ o[r.active].valid /\ Has(o, r.active, Active))
<1> DEFINE open == r.opened /\ o[r.active].valid /\ Has(o, r.active, Active)
           st == StateOf(o, r.active)
           wt == r.waiting /\ (r.isOpen \/ ~open)
<1>1. st \in SessionStates
  BY StateOfType
<1>2. open \in BOOLEAN /\ wt \in BOOLEAN
  OBVIOUS
<1>3. FromActiveConfig(r, o) = [r EXCEPT !.state = st, !.isOpen = open, !.waiting = wt]
  BY DEF FromActiveConfig
<1>4. open = (r.opened /\ o[r.active].valid /\ Has(o, r.active, Active))
  OBVIOUS
<1> HIDE DEF open, st, wt
<1> QED
  BY <1>1, <1>2, <1>3, <1>4 DEF Records, st

\* A session of the service network keeps everything but its state and the
\* member it is over.
LEMMA FromService ==
  ASSUME NEW r \in Records, NEW o \in [Objects -> Contents], NEW n \in Networks
  PROVE  LET q == FromServiceNetwork(r, o, n)
         IN /\ q \in Records
            /\ q.exists = r.exists /\ q.service = r.service /\ q.opened = r.opened
            /\ q.queue = r.queue /\ q.isOpen = r.isOpen
            /\ q.active = r.active \/ q.active \in n.members
<1> DEFINE up == {x \in n.members : Has(o, x, Active)}
           st == IF up # {} THEN "Connected"
                 ELSE IF n.members = {} THEN "NotAvailable" ELSE "Disconnected"
           ac == IF up # {} THEN CHOOSE x \in up : TRUE ELSE r.active
<1>1. st \in SessionStates
  BY DEF SessionStates
<1>2. ac = r.active \/ ac \in n.members
  OBVIOUS
<1>3. ac \in Objects \cup {None}
  BY <1>2 DEF Networks, Records
<1>4. FromServiceNetwork(r, o, n) = [r EXCEPT !.state = st, !.active = ac]
  BY DEF FromServiceNetwork
<1> HIDE DEF st, ac
<1> QED
  BY <1>1, <1>2, <1>3, <1>4 DEF Records

\* A session that looks at its configuration again keeps what it is and what
\* was asked of it, and opens only for an open() that was asked for.
LEMMA ChangedKin ==
  ASSUME NEW r \in Records, Owned(r), r.exists,
         NEW o \in [Objects -> Contents], NEW n \in Networks
  PROVE  Kin(r, NetworkConfigurationsChanged(r, o, n), n.members)
<1> DEFINE q == NetworkConfigurationsChanged(r, o, n)
<1>1. CASE r.service
  <2>1. q = FromServiceNetwork(r, o, n)
    BY <1>1 DEF NetworkConfigurationsChanged
  <2> HIDE DEF q
  <2>2. /\ q \in Records
        /\ q.exists = r.exists /\ q.service = r.service /\ q.opened = r.opened
        /\ q.queue = r.queue /\ q.isOpen = r.isOpen
        /\ q.active = r.active \/ q.active \in n.members
    BY <2>1, FromService
  <2>3. Kin(r, q, n.members)
    BY <1>1, <2>2 DEF Kin
  <2> QED
    BY <2>3 DEF q
<1>2. CASE ~r.service
  <2>1. q = FromActiveConfig(r, o)
    BY <1>2 DEF NetworkConfigurationsChanged
  <2>2. Single(r) /\ r.active \in Objects
    BY <1>2 DEF Owned, Single
  <2> HIDE DEF q
  <2>3. /\ q \in Records
        /\ q.exists = r.exists /\ q.service = r.service /\ q.opened = r.opened
        /\ q.queue = r.queue /\ q.active = r.active
        /\ q.isOpen = (r.opened /\ o[r.active].valid /\ Has(o, r.active, Active))
    BY <2>1, <2>2, FromActive
  <2>4. Kin(r, q, n.members)
    BY <2>2, <2>3 DEF Kin
  <2> QED
    BY <2>4 DEF q
<1> QED
  BY <1>1, <1>2 DEF Records

\* ... and is then in the state its configuration gives, if that is valid or
\* no longer in the table.
LEMMA ChangedFollows ==
  ASSUME NEW r \in Records, Owned(r), r.exists,
         NEW o \in [Objects -> Contents], NEW n \in Networks, NEW k,
         ~r.service => o[r.active].valid \/ k[r.active[1]] # r.active[2]
  PROVE  Follows(k, o, NetworkConfigurationsChanged(r, o, n))
<1> DEFINE q == NetworkConfigurationsChanged(r, o, n)
<1>1. CASE r.service
  <2>1. q = FromServiceNetwork(r, o, n)
    BY <1>1 DEF NetworkConfigurationsChanged
  <2>2. q.service
    BY <1>1, <2>1, FromService
  <2> HIDE DEF q
  <2>3. Follows(k, o, q)
    BY <2>2 DEF Follows, Single
  <2> QED
    BY <2>3 DEF q
<1>2. CASE ~r.service
  <2>1. q = FromActiveConfig(r, o)
    BY <1>2 DEF NetworkConfigurationsChanged
  <2>2. r.active \in Objects
    BY <1>2 DEF Owned, Single
  <2>3. /\ q.active = r.active /\ q.state = StateOf(o, r.active) /\ q.opened = r.opened
        /\ q.isOpen = (r.opened /\ o[r.active].valid /\ Has(o, r.active, Active))
    BY <2>1, <2>2, FromActive
  <2> HIDE DEF q
  <2>4. Follows(k, o, q)
    BY <1>2, <2>3 DEF Follows
  <2> QED
    BY <2>4 DEF q
<1> QED
  BY <1>1, <1>2 DEF Records

\* Looking at its configuration keeps a session well-formed.
LEMMA KinTypes ==
  ASSUME NEW r \in Records, Owned(r), NEW members, NEW q, Kin(r, q, members)
  PROVE  q \in Records /\ Owned(q)
BY DEF Kin, Owned, Single, Records

\* A session that is left alone,
LEMMA KinSelf ==
  ASSUME NEW r \in Records, NEW members
  PROVE  Kin(r, r, members)
BY DEF Kin

\* one that looks twice,
LEMMA KinTrans ==
  ASSUME NEW r \in Records, NEW members, NEW q, Kin(r, q, members),
         NEW u, Kin(q, u, members)
  PROVE  Kin(r, u, members)
BY DEF Kin, Single, Records

\* A session that is left alone follows its configuration still when that has
\* not come into the table and has not changed.
LEMMA KinFollows ==
  ASSUME NEW r, NEW k, NEW o, NEW k2, NEW o2, Follows(k, o, r),
         Single(r) /\ k2[r.active[1]] = r.active[2] =>
           k[r.active[1]] = r.active[2] /\ o2[r.active] = o[r.active]
  PROVE  Follows(k2, o2, r)
BY DEF Follows, StateOf, Has

\* How one world of an update differs from the state it began in: R are the
\* identifiers not yet reported.
Consistent(w) ==
  /\ ValidInTable(w.known, w.object) /\ Agrees(w.known, w.object, w.online, w.told)
  /\ \A t \in Sessions : Follows(w.known, w.object, w.session[t])
Along(w, R) ==
  /\ w \in Worlds /\ Consistent(w) /\ w.snap = snap
  /\ \A t \in Sessions : Kin(session[t], w.session[t], snap.members)
  /\ \A c \in R : w.known[c] = known[c]

\* There are finitely many active configurations, at most all of them.
LEMMA UpFinite ==
  ASSUME NEW k, NEW o
  PROVE  IsFiniteSet(Up(k, o)) /\ Cardinality(Up(k, o)) \in 0 .. Cardinality(Configs)
<1>1. IsFiniteSet(Configs) /\ Up(k, o) \in SUBSET Configs
  BY ConfigsAssumption DEF Up
<1>2. IsFiniteSet(Up(k, o)) /\ Cardinality(Up(k, o)) <= Cardinality(Configs)
  BY <1>1, FS_Subset
<1>3. Cardinality(Up(k, o)) \in Nat /\ Cardinality(Configs) \in Nat
  BY <1>1, <1>2, FS_CardinalityType
<1> QED
  BY <1>2, <1>3

\* What counting a configuration up or down changes.
LEMMA CountedFields ==
  ASSUME NEW w \in Worlds, NEW d \in {1, -1}
  PROVE  LET v == Counted(w, d)
         IN /\ v \in Worlds
            /\ v.known = w.known /\ v.object = w.object /\ v.snap = w.snap
            /\ v.session = w.session /\ v.online = w.online + d
            /\ d = 1 => v.told = IF v.online = 1 THEN TRUE ELSE w.told
            /\ d = -1 => v.told = IF v.online = 0 THEN FALSE ELSE w.told
<1> DEFINE n == w.online + d
           b == IF d = 1 /\ n = 1 THEN TRUE ELSE IF d = -1 /\ n = 0 THEN FALSE ELSE w.told
<1>1. n \in Int
  <2>1. w.online \in Int /\ d \in Int
    BY DEF Worlds
  <2> QED
    BY <2>1
<1>2. b \in BOOLEAN
  <2>1. w.told \in BOOLEAN
    BY DEF Worlds
  <2> QED
    BY <2>1
<1>3. Counted(w, d) = [w EXCEPT !.online = n, !.told = b]
  BY DEF Counted
<1>4. /\ d = 1 => b = IF n = 1 THEN TRUE ELSE w.told
      /\ d = -1 => b = IF n = 0 THEN FALSE ELSE w.told
  <2>1. CASE d = 1
    <3>1. d # -1
      BY <2>1
    <3> HIDE DEF n
    <3> QED
      BY <2>1, <3>1
  <2>2. CASE d = -1
    <3>1. d # 1
      BY <2>2
    <3> HIDE DEF n
    <3> QED
      BY <2>2, <3>1
  <2> QED
    BY <2>1, <2>2
<1> HIDE DEF n, b
<1>5. /\ Counted(w, d) \in Worlds
      /\ Counted(w, d).known = w.known /\ Counted(w, d).object = w.object
      /\ Counted(w, d).snap = w.snap /\ Counted(w, d).session = w.session
      /\ Counted(w, d).online = n /\ Counted(w, d).told = b
  BY <1>1, <1>2, <1>3 DEF Worlds
<1> QED
  BY <1>4, <1>5 DEF n

\* Counting up ...
LEMMA CountedUp ==
  ASSUME NEW w \in Worlds
  PROVE  /\ Counted(w, 1) \in Worlds
         /\ Counted(w, 1).known = w.known /\ Counted(w, 1).object = w.object
         /\ Counted(w, 1).snap = w.snap /\ Counted(w, 1).session = w.session
         /\ Counted(w, 1).online = w.online + 1
         /\ Counted(w, 1).told = IF Counted(w, 1).online = 1 THEN TRUE ELSE w.told
<1> DEFINE d == 1
<1>1. d \in {1, -1} /\ d = 1
  OBVIOUS
<1> HIDE DEF d
<1> QED
  BY <1>1, CountedFields

\* ... and down.
LEMMA CountedDown ==
  ASSUME NEW w \in Worlds
  PROVE  /\ Counted(w, -1) \in Worlds
         /\ Counted(w, -1).known = w.known /\ Counted(w, -1).object = w.object
         /\ Counted(w, -1).snap = w.snap /\ Counted(w, -1).session = w.session
         /\ Counted(w, -1).online = w.online - 1
         /\ Counted(w, -1).told = IF Counted(w, -1).online = 0 THEN FALSE ELSE w.told
<1> DEFINE d == -1
<1>1. d \in {1, -1} /\ d = -1
  OBVIOUS
<1>2. w.online + d = w.online - 1
  BY DEF Worlds
<1> HIDE DEF d
<1> QED
  BY <1>1, <1>2, CountedFields

\* One more active configuration, counted, leaves the count and the last
\* onlineStateChanged() right: the signal is due only for the first.
LEMMA CountMore ==
  ASSUME NEW w \in Worlds, NEW k, NEW o, Agrees(k, o, w.online, w.told),
         NEW c \in Configs, c \notin Up(k, o), Up(w.known, w.object) = Up(k, o) \cup {c}
  PROVE  Agrees(w.known, w.object, Counted(w, 1).online, Counted(w, 1).told)
<1> DEFINE A == Up(k, o)
           B == Up(w.known, w.object)
           v == Counted(w, 1)
<1>1. IsFiniteSet(A) /\ Cardinality(A) \in Nat
  BY UpFinite
<1>2. Cardinality(B) = Cardinality(A) + 1
  BY <1>1, FS_AddElement
<1>3. /\ v.online = w.online + 1
      /\ v.told = IF v.online = 1 THEN TRUE ELSE w.told
  BY CountedUp
<1>4. w.online = Cardinality(A) /\ w.told = (w.online > 0)
  BY DEF Agrees
<1> HIDE DEF A, B, v
<1>5. v.online = Cardinality(B)
  BY <1>2, <1>3, <1>4
<1>6. v.told = (v.online > 0)
  <2>1. v.online > 0
    BY <1>1, <1>3, <1>4
  <2>2. v.told = TRUE
    <3>1. CASE v.online = 1
      BY <1>3, <3>1
    <3>2. CASE v.online # 1
      <4>1. w.online > 0
        BY <1>1, <1>3, <1>4, <3>2
      <4> QED
        BY <1>3, <1>4, <3>2, <4>1
    <3> QED
      BY <3>1, <3>2
  <2> QED
    BY <2>1, <2>2
<1> QED
  BY <1>5, <1>6 DEF Agrees, B, v

\* One active configuration less, counted, leaves them right as well: the
\* signal is due only for the last.
LEMMA CountLess ==
  ASSUME NEW w \in Worlds, NEW k, NEW o, Agrees(k, o, w.online, w.told),
         NEW c \in Up(k, o), Up(w.known, w.object) = Up(k, o) \ {c}
  PROVE  Agrees(w.known, w.object, Counted(w, -1).online, Counted(w, -1).told)
<1> DEFINE A == Up(k, o)
           B == Up(w.known, w.object)
           v == Counted(w, -1)
<1>1. IsFiniteSet(A) /\ Cardinality(A) \in Nat
  BY UpFinite
<1>2. Cardinality(B) = Cardinality(A) - 1
  BY <1>1, FS_RemoveElement
<1>3. /\ v.online = w.online - 1
      /\ v.told = IF v.online = 0 THEN FALSE ELSE w.told
  BY CountedDown
<1>4. w.online = Cardinality(A) /\ w.told = (w.online > 0)
  BY DEF Agrees
<1>5. Cardinality(A) # 0
  BY <1>1, FS_EmptySet
<1> HIDE DEF A, B, v
<1>6. v.online = Cardinality(B) /\ v.online \in Nat
  BY <1>1, <1>2, <1>3, <1>4, <1>5
<1>7. v.told = (v.online > 0)
  <2>1. CASE v.online = 0
    <3>1. v.told = FALSE
      BY <1>3, <2>1
    <3>2. (v.online > 0) = FALSE
      BY <2>1
    <3> QED
      BY <3>1, <3>2
  <2>2. CASE v.online # 0
    <3>1. v.online > 0 /\ w.online > 0
      BY <1>1, <1>3, <1>4, <1>6, <2>2
    <3> QED
      BY <1>3, <1>4, <2>2, <3>1
  <2> QED
    BY <2>1, <2>2
<1> QED
  BY <1>6, <1>7 DEF Agrees, B, v

\* Within an update every session stays well-formed.
LEMMA OwnedAlong ==
  ASSUME \A t \in Sessions : session[t] \in Records /\ Owned(session[t]),
         NEW w, NEW R, Along(w, R), NEW t \in Sessions
  PROVE  w.session[t] \in Records /\ Owned(w.session[t])
BY KinTypes DEF Along

\* configurationAdded(): a new object with a number no session holds, so none
\* follows it yet.
LEMMA AddedStep ==
  ASSUME snap \in Networks, snap.members \subseteq Table(known), known \in Tables,
         \A t \in Sessions : session[t] \in Records /\ Owned(session[t]),
         NEW w, NEW R \in SUBSET Configs, Along(w, R), NEW c \in R, NEW f \in Shown,
         known[c] = 0, Unused(session, c) # {}
  PROVE  Along(Added(w, c, f), R \ {c})
<1> DEFINE g == CHOOSE i \in Unused(w.session, c) : TRUE
           x == <<c, g>>
           v == [w EXCEPT !.known[c] = g, !.object[x] = [valid |-> TRUE, flags |-> f]]
<1>1. w \in Worlds /\ Consistent(w) /\ w.snap = snap /\ w.known[c] = 0 /\ c \in Configs
  BY DEF Along
<1>2. Unused(session, c) \subseteq Unused(w.session, c)
  <2> SUFFICES ASSUME NEW i \in 1 .. MaxGen, NEW t \in Sessions,
                      session[t].active # <<c, i>>
               PROVE  w.session[t].active # <<c, i>>
    BY DEF Unused
  <2>1. w.session[t].active = session[t].active \/ w.session[t].active \in Table(known)
    BY DEF Along, Kin
  <2>2. <<c, i>> \notin Table(known)
    BY DEF Table
  <2> QED
    BY <2>1, <2>2
<1>3. g \in 1 .. MaxGen /\ \A t \in Sessions : w.session[t].active # x
  <2>1. g \in Unused(w.session, c)
    BY <1>2
  <2> HIDE DEF g
  <2> QED
    BY <2>1 DEF Unused
<1> HIDE DEF g
<1>4. x \in Objects /\ g \in 0 .. MaxGen /\ g # 0 /\ x[1] = c /\ x[2] = g
  BY <1>1, <1>3, BoundsAssumption DEF Objects
<1> HIDE DEF x
<1>5. /\ w.known \in Tables /\ w.object \in [Objects -> Contents]
      /\ w.session \in [Sessions -> Records]
  BY <1>1 DEF Worlds
<1> DEFINE k == [w.known EXCEPT ![c] = g]
           o == [w.object EXCEPT ![x] = [valid |-> TRUE, flags |-> f]]
<1>6. v = [w EXCEPT !.known = k, !.object = o]
  BY <1>1 DEF Worlds
<1>7. k \in Tables /\ o \in [Objects -> Contents]
  BY <1>1, <1>4, <1>5 DEF Tables, Contents
<1>8. k[c] = g /\ \A d \in Configs \ {c} : k[d] = w.known[d]
  BY <1>1, <1>5 DEF Tables
<1>9. /\ o[x].valid /\ o[x].flags = f
      /\ \A y \in Objects \ {x} : o[y] = w.object[y]
  BY <1>4, <1>5
<1> HIDE DEF k, o
<1>10. /\ v \in Worlds /\ v.known = k /\ v.object = o /\ v.snap = w.snap
       /\ v.online = w.online /\ v.told = w.told /\ v.session = w.session
  BY <1>1, <1>6, <1>7 DEF Worlds
<1> HIDE DEF v
<1>11. \A d \in Configs : w.known[d] # 0 =>
         <<d, w.known[d]>> \in Objects /\ <<d, w.known[d]>>[1] = d
  BY <1>5 DEF Tables, Objects
<1>12. \A d \in Configs \ {c} : k[d] # 0 => o[<<d, k[d]>>] = w.object[<<d, w.known[d]>>]
  BY <1>4, <1>8, <1>9, <1>11
<1>13. ValidInTable(k, o)
  <2>1. ValidInTable(w.known, w.object)
    BY <1>1 DEF Consistent
  <2>2. ASSUME NEW d \in Configs, k[d] # 0  PROVE o[<<d, k[d]>>].valid
    <3>1. CASE d = c
      BY <1>8, <1>9, <3>1 DEF x
    <3>2. CASE d # c
      BY <1>8, <1>12, <2>1, <2>2, <3>2 DEF ValidInTable
    <3> QED
      BY <3>1, <3>2
  <2>3. ASSUME NEW y \in Objects, o[y].valid  PROVE k[y[1]] = y[2]
    <3>1. CASE y = x
      BY <1>4, <1>8, <3>1
    <3>2. CASE y # x
      <4>1. w.known[y[1]] = y[2] /\ y[1] \in Configs /\ y[2] # 0
        BY <1>9, <2>1, <2>3, <3>2 DEF ValidInTable, Objects
      <4> QED
        BY <1>1, <1>8, <4>1
    <3> QED
      BY <3>1, <3>2
  <2> QED
    BY <2>2, <2>3 DEF ValidInTable
<1>14. Up(k, o) = IF f = Active THEN Up(w.known, w.object) \cup {c} ELSE Up(w.known, w.object)
  <2>1. c \in Up(k, o) <=> f = Active
    BY <1>1, <1>4, <1>8, <1>9 DEF Up, x
  <2>2. \A d \in Configs \ {c} : d \in Up(k, o) <=> d \in Up(w.known, w.object)
    BY <1>8, <1>12 DEF Up
  <2>3. c \notin Up(w.known, w.object)
    BY <1>1 DEF Up
  <2>4. Up(k, o) \subseteq Configs /\ Up(w.known, w.object) \subseteq Configs
    BY DEF Up
  <2> QED
    BY <1>1, <2>1, <2>2, <2>3, <2>4
<1>15. ASSUME NEW t \in Sessions  PROVE Follows(k, o, w.session[t])
  <2> DEFINE r == w.session[t]
  <2>1. Follows(w.known, w.object, r) /\ r \in Records /\ Owned(r) /\ r.active # x
    BY <1>1, <1>3, OwnedAlong DEF Consistent
  <2> HIDE DEF r
  <2>2. ASSUME Single(r), k[r.active[1]] = r.active[2]
        PROVE  w.known[r.active[1]] = r.active[2] /\ o[r.active] = w.object[r.active]
    <3>1. r.active \in Objects
      BY <2>1, <2>2 DEF Owned
    <3>2. r.active[1] # c
      BY <1>8, <2>1, <2>2, <3>1 DEF Objects, x
    <3>3. r.active[1] \in Configs
      BY <3>1 DEF Objects
    <3> QED
      BY <1>8, <1>9, <2>1, <2>2, <3>1, <3>2, <3>3
  <2>3. Follows(k, o, r)
    BY <2>1, <2>2, KinFollows
  <2> QED
    BY <2>3 DEF r
<1>16. Agrees(w.known, w.object, w.online, w.told) /\ c \notin Up(w.known, w.object)
  BY <1>1 DEF Consistent, Up
<1>17. \A d \in R \ {c} : k[d] = known[d]
  BY <1>8 DEF Along
<1>18. \A t \in Sessions : Kin(session[t], w.session[t], snap.members)
  BY DEF Along
<1>19. CASE f = Active
  <2>1. Added(w, c, f) = Counted(v, 1)
    BY <1>19 DEF Added, v, x, g
  <2>2. Agrees(v.known, v.object, Counted(v, 1).online, Counted(v, 1).told)
    BY <1>1, <1>10, <1>14, <1>16, <1>19, CountMore
  <2> DEFINE u == Counted(v, 1)
  <2>3. /\ u \in Worlds /\ u.known = k /\ u.object = o /\ u.snap = snap
        /\ u.session = w.session
    BY <1>1, <1>10, CountedUp
  <2>4. Agrees(k, o, u.online, u.told)
    BY <1>10, <2>2
  <2> HIDE DEF u
  <2>5. Along(u, R \ {c})
    BY <1>13, <1>15, <1>17, <1>18, <2>3, <2>4 DEF Along, Consistent
  <2> QED
    BY <2>1, <2>5 DEF u
<1>20. CASE f # Active
  <2>1. Added(w, c, f) = v
    BY <1>20 DEF Added, v, x, g
  <2>2. Agrees(k, o, w.online, w.told)
    BY <1>14, <1>16, <1>20 DEF Agrees
  <2>3. Along(v, R \ {c})
    BY <1>1, <1>10, <1>13, <1>15, <1>17, <1>18, <2>2 DEF Along, Consistent
  <2> QED
    BY <2>1, <2>3
<1> QED
  BY <1>19, <1>20

\* configurationChanged(): every session over the object looks at it again, and
\* the count follows a change between active and not active.
LEMMA ChangedStep ==
  ASSUME snap \in Networks, known \in Tables,
         \A t \in Sessions : session[t] \in Records /\ Owned(session[t]),
         NEW w, NEW R \in SUBSET Configs, Along(w, R), NEW c \in R, NEW f \in Shown,
         known[c] # 0
  PROVE  Along(Changed(w, c, f), R \ {c})
<1> DEFINE x == <<c, w.known[c]>>
           v == [w EXCEPT !.object[x].flags = f]
           S == [t \in Sessions |-> ConfigurationChanged(v.session[t], x, v.object, v.snap)]
           u == [v EXCEPT !.session = S]
<1>1. w \in Worlds /\ Consistent(w) /\ w.snap = snap /\ w.known[c] # 0 /\ c \in Configs
  BY DEF Along
<1>2. /\ w.known \in Tables /\ w.object \in [Objects -> Contents]
      /\ w.session \in [Sessions -> Records]
  BY <1>1 DEF Worlds
<1>3. x \in Objects /\ x[1] = c /\ x[2] = w.known[c]
  BY <1>1, <1>2, BoundsAssumption DEF Objects, Tables
<1>4. w.object[x].valid /\ w.object[x].flags \in Shown
  BY <1>1, <1>2, <1>3 DEF Consistent, ValidInTable, Contents
<1> DEFINE o == [w.object EXCEPT ![x].flags = f]
<1>5. v = [w EXCEPT !.object = o]
  BY <1>1 DEF Worlds
<1> HIDE DEF x
<1>6. o \in [Objects -> Contents]
  <2>1. w.object[x] \in Contents
    BY <1>2, <1>3
  <2>2. [w.object[x] EXCEPT !.flags = f] \in Contents
    BY <2>1 DEF Contents
  <2> QED
    BY <1>2, <1>3, <2>2
<1>7. /\ o[x].valid /\ o[x].flags = f
      /\ \A y \in Objects \ {x} : o[y] = w.object[y]
  <2>1. w.object[x] \in Contents
    BY <1>2, <1>3
  <2> QED
    BY <1>2, <1>3, <1>4, <2>1 DEF Contents
<1> HIDE DEF o
<1>8. /\ v \in Worlds /\ v.known = w.known /\ v.object = o /\ v.snap = snap
      /\ v.online = w.online /\ v.told = w.told /\ v.session = w.session
  BY <1>1, <1>5, <1>6 DEF Worlds
<1> HIDE DEF v
<1>9. \A y \in Objects : o[y].valid <=> w.object[y].valid
  BY <1>4, <1>7
<1>10. ValidInTable(w.known, o)
  <2>1. ValidInTable(w.known, w.object)
    BY <1>1 DEF Consistent
  <2>2. \A d \in Configs : w.known[d] # 0 => <<d, w.known[d]>> \in Objects
    BY <1>2, BoundsAssumption DEF Tables, Objects
  <2> QED
    BY <1>9, <2>1, <2>2 DEF ValidInTable
<1>11. ASSUME NEW t \in Sessions
       PROVE  /\ S[t] \in Records /\ Kin(session[t], S[t], snap.members)
              /\ Follows(w.known, o, S[t])
  <2> DEFINE r == w.session[t]
             q == S[t]
  <2>1. r \in Records /\ Owned(r) /\ Follows(w.known, w.object, r)
    BY <1>1, OwnedAlong DEF Consistent
  <2>2. Kin(session[t], r, snap.members) /\ session[t] \in Records /\ Owned(session[t])
    BY DEF Along
  <2>3. q = ConfigurationChanged(r, x, o, snap)
    BY <1>8
  <2>4. CASE r.exists /\ r.active = x
    <3>1. q = NetworkConfigurationsChanged(r, o, snap)
      BY <2>3, <2>4 DEF ConfigurationChanged
    <3> HIDE DEF q, r
    <3>2. Kin(r, q, snap.members)
      BY <1>6, <2>1, <2>4, <3>1, ChangedKin
    <3>3. Follows(w.known, o, q)
      BY <1>6, <1>7, <2>1, <2>4, <3>1, ChangedFollows
    <3>4. Kin(session[t], q, snap.members)
      BY <2>2, <3>2, KinTrans
    <3>5. q \in Records
      BY <3>4 DEF Kin
    <3>6. q \in Records /\ Kin(session[t], q, snap.members) /\ Follows(w.known, o, q)
      BY <3>3, <3>4, <3>5
    <3> QED
      BY <3>6 DEF q
  <2>5. CASE ~(r.exists /\ r.active = x)
    <3>1. q = r
      BY <2>3, <2>5 DEF ConfigurationChanged
    <3> HIDE DEF q, r
    <3>2. Single(r) => o[r.active] = w.object[r.active]
      BY <1>7, <2>1, <2>5 DEF Single, Owned
    <3>3. Follows(w.known, o, r)
      BY <2>1, <3>2, KinFollows
    <3>4. q \in Records /\ Kin(session[t], q, snap.members) /\ Follows(w.known, o, q)
      BY <2>1, <2>2, <3>1, <3>3
    <3> QED
      BY <3>4 DEF q
  <2> QED
    BY <2>4, <2>5
<1>12. S \in [Sessions -> Records]
  <2>1. \A t \in Sessions : S[t] \in Records
    BY <1>11
  <2>2. S = [t \in Sessions |-> S[t]]
    OBVIOUS
  <2> HIDE DEF S
  <2> QED
    BY <2>1, <2>2
<1> HIDE DEF S
<1>13. /\ u \in Worlds /\ u.known = w.known /\ u.object = o /\ u.snap = snap
       /\ u.online = w.online /\ u.told = w.told /\ u.session = S
  BY <1>8, <1>12 DEF Worlds
<1>14. Changed(w, c, f) = IF w.object[x].flags = f THEN w
                          ELSE IF f = Active THEN Counted(u, 1)
                          ELSE IF w.object[x].flags = Active THEN Counted(u, -1) ELSE u
  BY DEF Changed, u, S, v, x
<1> HIDE DEF u
<1>15. \A d \in Configs \ {c} : d \in Up(w.known, o) <=> d \in Up(w.known, w.object)
  <2> SUFFICES ASSUME NEW d \in Configs \ {c}, w.known[d] # 0
               PROVE  o[<<d, w.known[d]>>] = w.object[<<d, w.known[d]>>]
    BY DEF Up
  <2>1. <<d, w.known[d]>> \in Objects /\ <<d, w.known[d]>> # x
    BY <1>2, <1>3, BoundsAssumption DEF Tables, Objects
  <2> QED
    BY <1>7, <2>1
<1>16. (c \in Up(w.known, o) <=> f = Active)
       /\ (c \in Up(w.known, w.object) <=> w.object[x].flags = Active)
  BY <1>1, <1>3, <1>7 DEF Up, x
<1>17. Up(w.known, o) \subseteq Configs /\ Up(w.known, w.object) \subseteq Configs
  BY DEF Up
<1>18. Agrees(w.known, w.object, w.online, w.told)
  BY <1>1 DEF Consistent
<1>19. \A d \in R \ {c} : w.known[d] = known[d]
  BY DEF Along
<1>20. \A t \in Sessions : Kin(session[t], S[t], snap.members) /\ Follows(w.known, o, S[t])
  BY <1>11 DEF S
<1>21. CASE w.object[x].flags = f
  <2>1. Changed(w, c, f) = w
    BY <1>14, <1>21
  <2>2. Along(w, R \ {c})
    BY DEF Along
  <2> QED
    BY <2>1, <2>2
<1>22. CASE w.object[x].flags # f /\ f = Active
  <2> DEFINE z == Counted(u, 1)
  <2>1. Changed(w, c, f) = z
    BY <1>14, <1>22
  <2>2. c \notin Up(w.known, w.object) /\ Up(w.known, o) = Up(w.known, w.object) \cup {c}
    BY <1>1, <1>15, <1>16, <1>17, <1>22
  <2>3. Agrees(u.known, u.object, z.online, z.told)
    BY <1>1, <1>13, <1>18, <2>2, CountMore
  <2>4. z \in Worlds /\ z.known = w.known /\ z.object = o /\ z.snap = snap /\ z.session = S
    BY <1>13, CountedUp
  <2> HIDE DEF z
  <2>5. Along(z, R \ {c})
    BY <1>10, <1>13, <1>19, <1>20, <2>3, <2>4 DEF Along, Consistent
  <2> QED
    BY <2>1, <2>5
<1>23. CASE w.object[x].flags # f /\ f # Active /\ w.object[x].flags = Active
  <2> DEFINE z == Counted(u, -1)
  <2>1. Changed(w, c, f) = z
    BY <1>14, <1>23
  <2>2. c \in Up(w.known, w.object) /\ Up(w.known, o) = Up(w.known, w.object) \ {c}
    BY <1>1, <1>15, <1>16, <1>17, <1>23
  <2>3. Agrees(u.known, u.object, z.online, z.told)
    BY <1>1, <1>13, <1>18, <2>2, CountLess
  <2>4. z \in Worlds /\ z.known = w.known /\ z.object = o /\ z.snap = snap /\ z.session = S
    BY <1>13, CountedDown
  <2> HIDE DEF z
  <2>5. Along(z, R \ {c})
    BY <1>10, <1>13, <1>19, <1>20, <2>3, <2>4 DEF Along, Consistent
  <2> QED
    BY <2>1, <2>5
<1>24. CASE w.object[x].flags # f /\ f # Active /\ w.object[x].flags # Active
  <2>1. Changed(w, c, f) = u
    BY <1>14, <1>24
  <2>2. Up(w.known, o) = Up(w.known, w.object)
    BY <1>1, <1>15, <1>16, <1>17, <1>24
  <2>3. Agrees(w.known, o, w.online, w.told)
    BY <1>18, <2>2 DEF Agrees
  <2>4. Along(u, R \ {c})
    BY <1>10, <1>13, <1>19, <1>20, <2>3 DEF Along, Consistent
  <2> QED
    BY <2>1, <2>4
<1> QED
  BY <1>21, <1>22, <1>23, <1>24

\* configurationRemoved(): the object leaves the table and is no longer valid;
\* the sessions over it are told nothing, and need not be.
LEMMA RemovedStep ==
  ASSUME snap \in Networks, known \in Tables,
         \A t \in Sessions : session[t] \in Records /\ Owned(session[t]),
         NEW w, NEW R \in SUBSET Configs, Along(w, R), NEW c \in R,
         known[c] # 0
  PROVE  Along(Removed(w, c), R \ {c})
<1> DEFINE x == <<c, w.known[c]>>
           v == [w EXCEPT !.known[c] = 0, !.object[x].valid = FALSE]
<1>1. w \in Worlds /\ Consistent(w) /\ w.snap = snap /\ w.known[c] # 0 /\ c \in Configs
  BY DEF Along
<1>2. /\ w.known \in Tables /\ w.object \in [Objects -> Contents]
      /\ w.session \in [Sessions -> Records]
  BY <1>1 DEF Worlds
<1>3. x \in Objects /\ x[1] = c /\ x[2] = w.known[c]
  BY <1>1, <1>2, BoundsAssumption DEF Objects, Tables
<1>4. Removed(w, c) = IF w.object[x].flags = Active THEN Counted(v, -1) ELSE v
  BY DEF Removed
<1> HIDE DEF x
<1> DEFINE k == [w.known EXCEPT ![c] = 0]
           o == [w.object EXCEPT ![x].valid = FALSE]
<1>5. v = [w EXCEPT !.known = k, !.object = o]
  BY <1>1 DEF Worlds
<1>6. k \in Tables /\ o \in [Objects -> Contents]
  <2>1. w.object[x] \in Contents
    BY <1>2, <1>3
  <2>2. [w.object[x] EXCEPT !.valid = FALSE] \in Contents
    BY <2>1 DEF Contents
  <2>3. o \in [Objects -> Contents]
    BY <1>2, <1>3, <2>2
  <2>4. k \in Tables
    BY <1>1, <1>2, BoundsAssumption DEF Tables
  <2> QED
    BY <2>3, <2>4
<1>7. /\ ~o[x].valid
      /\ \A y \in Objects \ {x} : o[y] = w.object[y]
  <2>1. w.object[x] \in Contents
    BY <1>2, <1>3
  <2> QED
    BY <1>2, <1>3, <2>1 DEF Contents
<1>8. k[c] = 0 /\ \A d \in Configs \ {c} : k[d] = w.known[d]
  BY <1>1, <1>2 DEF Tables
<1> HIDE DEF k, o
<1>9. /\ v \in Worlds /\ v.known = k /\ v.object = o /\ v.snap = snap
      /\ v.online = w.online /\ v.told = w.told /\ v.session = w.session
  BY <1>1, <1>5, <1>6 DEF Worlds
<1> HIDE DEF v
<1>10. ValidInTable(w.known, w.object) /\ Agrees(w.known, w.object, w.online, w.told)
  BY <1>1 DEF Consistent
<1>11. ASSUME NEW d \in Configs \ {c}, w.known[d] # 0
       PROVE  o[<<d, k[d]>>] = w.object[<<d, w.known[d]>>]
  <2>1. <<d, w.known[d]>> \in Objects /\ <<d, w.known[d]>> # x
    BY <1>2, <1>3, <1>11, BoundsAssumption DEF Tables, Objects
  <2> QED
    BY <1>7, <1>8, <2>1
<1>12. ValidInTable(k, o)
  <2>1. ASSUME NEW d \in Configs, k[d] # 0  PROVE o[<<d, k[d]>>].valid
    <3>1. d # c /\ w.known[d] # 0
      BY <1>8, <2>1
    <3> QED
      BY <1>10, <1>11, <3>1 DEF ValidInTable
  <2>2. ASSUME NEW y \in Objects, o[y].valid  PROVE k[y[1]] = y[2]
    <3>1. y # x /\ w.known[y[1]] = y[2] /\ y[1] \in Configs
      BY <1>7, <1>10, <2>2 DEF ValidInTable, Objects
    <3>2. y[1] # c
      BY <1>3, <3>1 DEF Objects, x
    <3> QED
      BY <1>8, <3>1, <3>2
  <2> QED
    BY <2>1, <2>2 DEF ValidInTable
<1>13. c \notin Up(k, o) /\ (c \in Up(w.known, w.object) <=> w.object[x].flags = Active)
  BY <1>1, <1>8 DEF Up, x
<1>14. \A d \in Configs \ {c} : d \in Up(k, o) <=> d \in Up(w.known, w.object)
  BY <1>8, <1>11 DEF Up
<1>15. Up(k, o) \subseteq Configs /\ Up(w.known, w.object) \subseteq Configs
  BY DEF Up
<1>16. ASSUME NEW t \in Sessions  PROVE Follows(k, o, w.session[t])
  <2> DEFINE r == w.session[t]
  <2>1. Follows(w.known, w.object, r) /\ r \in Records /\ Owned(r)
    BY <1>1, OwnedAlong DEF Consistent
  <2> HIDE DEF r
  <2>2. ASSUME Single(r), k[r.active[1]] = r.active[2]
        PROVE  w.known[r.active[1]] = r.active[2] /\ o[r.active] = w.object[r.active]
    <3>1. r.active \in Objects /\ r.active[1] \in Configs /\ r.active[2] # 0
      BY <2>1, <2>2 DEF Owned, Objects
    <3>2. r.active[1] # c
      BY <1>8, <2>2, <3>1
    <3>3. r.active # x
      BY <1>3, <3>2
    <3> QED
      BY <1>7, <1>8, <2>2, <3>1, <3>2, <3>3
  <2>3. Follows(k, o, r)
    BY <2>1, <2>2, KinFollows
  <2> QED
    BY <2>3 DEF r
<1>17. \A d \in R \ {c} : k[d] = known[d]
  BY <1>8 DEF Along
<1>18. \A t \in Sessions : Kin(session[t], w.session[t], snap.members)
  BY DEF Along
<1>19. CASE w.object[x].flags = Active
  <2> DEFINE z == Counted(v, -1)
  <2>1. Removed(w, c) = z
    BY <1>4, <1>19
  <2>2. c \in Up(w.known, w.object) /\ Up(k, o) = Up(w.known, w.object) \ {c}
    BY <1>1, <1>13, <1>14, <1>15, <1>19
  <2>3. Agrees(v.known, v.object, z.online, z.told)
    BY <1>1, <1>9, <1>10, <2>2, CountLess
  <2>4. /\ z \in Worlds /\ z.known = k /\ z.object = o /\ z.snap = snap
        /\ z.session = w.session
    BY <1>9, CountedDown
  <2> HIDE DEF z
  <2>5. Along(z, R \ {c})
    BY <1>9, <1>12, <1>16, <1>17, <1>18, <2>3, <2>4 DEF Along, Consistent
  <2> QED
    BY <2>1, <2>5
<1>20. CASE w.object[x].flags # Active
  <2>1. Removed(w, c) = v
    BY <1>4, <1>20
  <2>2. Up(k, o) = Up(w.known, w.object)
    BY <1>1, <1>13, <1>14, <1>15, <1>20
  <2>3. Agrees(k, o, w.online, w.told)
    BY <1>10, <2>2 DEF Agrees
  <2>4. Along(v, R \ {c})
    BY <1>9, <1>12, <1>16, <1>17, <1>18, <2>3 DEF Along, Consistent
  <2> QED
    BY <2>1, <2>4
<1> QED
  BY <1>19, <1>20

\* One report of an update, whichever of the three it is.
LEMMA ToldStep ==
  ASSUME snap \in Networks, snap.members \subseteq Table(known), known \in Tables,
         \A t \in Sessions : session[t] \in Records /\ Owned(session[t]),
         NEW w, NEW R \in SUBSET Configs, Along(w, R), NEW c \in R,
         NEW f \in Shown \cup {Absent},
         f = Absent => known[c] # 0,
         f # Absent => known[c] # 0 \/ Unused(session, c) # {}
  PROVE  Along(Told(w, c, f), R \ {c})
<1>1. w.known[c] = known[c]
  BY DEF Along
<1>2. CASE f = Absent
  <2>1. Told(w, c, f) = Removed(w, c)
    BY <1>2 DEF Told
  <2>2. Along(Removed(w, c), R \ {c})
    BY <1>2, RemovedStep
  <2> QED
    BY <2>1, <2>2
<1>3. CASE f # Absent /\ known[c] = 0
  <2>1. Told(w, c, f) = Added(w, c, f)
    BY <1>1, <1>3 DEF Told, Seen
  <2>2. Along(Added(w, c, f), R \ {c})
    BY <1>3, AddedStep
  <2> QED
    BY <2>1, <2>2
<1>4. CASE f # Absent /\ known[c] # 0
  <2>1. Told(w, c, f) = Changed(w, c, f)
    BY <1>1, <1>4 DEF Told, Seen
  <2>2. Along(Changed(w, c, f), R \ {c})
    BY <1>4, ChangedStep
  <2> QED
    BY <2>1, <2>2
<1> QED
  BY <1>2, <1>3, <1>4

\* The fold of an update over its first m reports.
Fold(p, order, m, f) ==
  f = [i \in 0 .. m |-> IF i = 0 THEN World ELSE Told(f[i - 1], order[i], p[order[i]])]

\* The fold of an update exists: the least number of reports without one would
\* be one more than a number that has one.
LEMMA FoldExists ==
  ASSUME NEW p, NEW order, NEW n \in Nat
  PROVE  \E f : Fold(p, order, n, f)
<1> SUFFICES ASSUME ~ \E f : Fold(p, order, n, f)
             PROVE  FALSE
  OBVIOUS
<1> DEFINE S == {m \in Nat : ~ \E f : Fold(p, order, m, f)}
<1>1. PICK m \in S : \A j \in S : m <= j
  <2>1. S \in SUBSET Nat /\ n \in S
    OBVIOUS
  <2> HIDE DEF S
  <2> QED
    BY <2>1, LeastExists
<1>2. m # 0
  <2> DEFINE f == [i \in 0 .. 0 |-> World]
  <2>1. f = [i \in 0 .. 0 |-> IF i = 0 THEN World ELSE Told(f[i - 1], order[i], p[order[i]])]
    OBVIOUS
  <2> HIDE DEF f
  <2>2. Fold(p, order, 0, f)
    BY <2>1 DEF Fold
  <2> QED
    BY <1>1, <2>2
<1>3. m - 1 \in Nat /\ m - 1 \notin S
  BY <1>1, <1>2
<1>4. PICK g : Fold(p, order, m - 1, g)
  BY <1>3
<1> DEFINE f == [i \in 0 .. m |->
                   IF i = 0 THEN World ELSE Told(g[i - 1], order[i], p[order[i]])]
<1>5. \A i \in 0 .. m - 1 : f[i] = g[i]
  BY <1>3, <1>4 DEF Fold
<1>6. ASSUME NEW i \in 0 .. m, i # 0  PROVE f[i - 1] = g[i - 1]
  <2>1. i - 1 \in 0 .. m - 1
    BY <1>1, <1>3, <1>6
  <2> HIDE DEF f
  <2> QED
    BY <1>5, <2>1
<1>7. f = [i \in 0 .. m |-> IF i = 0 THEN World ELSE Told(f[i - 1], order[i], p[order[i]])]
  <2> DEFINE h(q, i) == IF i = 0 THEN World ELSE Told(q[i - 1], order[i], p[order[i]])
  <2>1. \A i \in 0 .. m : h(g, i) = h(f, i)
    BY <1>6
  <2>2. f = [i \in 0 .. m |-> h(g, i)]
    OBVIOUS
  <2>3. [i \in 0 .. m |-> h(g, i)] = [i \in 0 .. m |-> h(f, i)]
    BY <2>1
  <2> QED
    BY <2>2, <2>3
<1> HIDE DEF f
<1>8. Fold(p, order, m, f)
  BY <1>7 DEF Fold
<1> QED
  BY <1>1, <1>8

\* Every world of an update is consistent: the first number of reports after
\* which one were not would be one more than a number with a consistent one.
LEMMA FoldAlong ==
  ASSUME snap \in Networks, snap.members \subseteq Table(known), known \in Tables,
         \A t \in Sessions : session[t] \in Records /\ Owned(session[t]),
         NEW p \in [Configs -> Shown \cup {Absent}],
         NEW n \in Nat, NEW order \in [1 .. n -> Configs],
         \A i, j \in 1 .. n : order[i] = order[j] => i = j,
         \A i \in 1 .. n : p[order[i]] = Absent => known[order[i]] # 0,
         \A c \in Configs : p[c] # Absent => known[c] # 0 \/ Unused(session, c) # {},
         Along(World, Configs),
         NEW f, Fold(p, order, n, f)
  PROVE  Along(f[n], {})
<1> DEFINE R(i) == {order[j] : j \in i + 1 .. n}
           S == {i \in 0 .. n : ~ Along(f[i], R(i))}
<1>1. f[0] = World /\ \A i \in 1 .. n : f[i] = Told(f[i - 1], order[i], p[order[i]])
  BY DEF Fold
<1>2. \A i \in 0 .. n : R(i) \in SUBSET Configs
  OBVIOUS
<1>3. S = {}
  <2> SUFFICES ASSUME S # {}  PROVE FALSE
    OBVIOUS
  <2>1. PICK i \in S : \A j \in S : i <= j
    <3>1. S \in SUBSET Nat
      OBVIOUS
    <3> HIDE DEF S
    <3> QED
      BY <3>1, LeastExists
  <2>2. i # 0
    <3>1. Along(f[0], R(0))
      BY <1>1, <1>2 DEF Along
    <3> QED
      BY <2>1, <3>1
  <2>3. i \in 1 .. n /\ i - 1 \in 0 .. n /\ i - 1 \notin S
    <3>1. i \in 0 .. n
      OBVIOUS
    <3>2. i \in 1 .. n /\ i - 1 \in 0 .. n
      BY <2>2, <3>1
    <3> HIDE DEF S
    <3>3. ~(i <= i - 1)
      BY <3>1
    <3> QED
      BY <2>1, <3>2, <3>3
  <2> DEFINE w == f[i - 1]
             c == order[i]
  <2>4. Along(w, R(i - 1))
    BY <2>3
  <2>5. c \in R(i - 1) /\ R(i - 1) \ {c} = R(i)
    <3>1. i \in (i - 1) + 1 .. n
      BY <2>3
    <3>2. \A j : j \in (i - 1) + 1 .. n <=> j = i \/ j \in i + 1 .. n
      BY <2>3
    <3>3. \A j \in i + 1 .. n : order[j] # c
      BY <2>3
    <3> QED
      BY <3>1, <3>2, <3>3
  <2>6. R(i - 1) \in SUBSET Configs
    BY <1>2, <2>3
  <2>7. c \in Configs /\ p[c] \in Shown \cup {Absent}
    BY <2>3
  <2>8. (p[c] = Absent => known[c] # 0)
        /\ (p[c] # Absent => known[c] # 0 \/ Unused(session, c) # {})
    BY <2>3, <2>7
  <2>9. f[i] = Told(w, c, p[c])
    BY <1>1, <2>3
  <2> DEFINE Q == R(i - 1)
             l == p[c]
  <2> HIDE DEF w, c, R, Q, l
  <2>10. Along(Told(w, c, l), Q \ {c})
    BY <2>4, <2>5, <2>6, <2>7, <2>8, ToldStep DEF Q, l
  <2>11. Along(f[i], R(i))
    BY <2>5, <2>9, <2>10 DEF Q, l
  <2> QED
    BY <2>1, <2>11 DEF R
<1>4. R(n) = {}
  OBVIOUS
<1>5. Along(f[n], R(n))
  <2>1. \A i \in 0 .. n : Along(f[i], R(i))
    BY <1>3
  <2> HIDE DEF R
  <2> QED
    BY <2>1
<1> QED
  BY <1>4, <1>5

\* and one that may take its member from a larger set.
LEMMA KinMore ==
  ASSUME NEW r, NEW q, NEW A, NEW B, Kin(r, q, A), A \subseteq B
  PROVE  Kin(r, q, B)
BY DEF Kin

\* The objects in the table are objects.
LEMMA TableObjects ==
  ASSUME NEW k \in Tables
  PROVE  Table(k) \subseteq Objects
BY BoundsAssumption DEF Table, Tables, Objects

\* The service network's members are objects of the table, and its flags flags.
LEMMA SnapshotType ==
  ASSUME NEW k \in Tables, NEW o \in [Objects -> Contents]
  PROVE  Snapshot(k, o) \in Networks /\ Snapshot(k, o).members \subseteq Table(k)
<1> DEFINE members == {x \in Table(k) : Has(o, x, Defined)}
           flags == Defined \cup UNION {o[x].flags : x \in members}
<1>1. members \in SUBSET Objects /\ members \subseteq Table(k)
  BY TableObjects
<1>2. \A x \in members : o[x].flags \in SUBSET Flags
  BY <1>1, FlagFacts DEF Contents
<1>3. flags \in SUBSET Flags
  <2> HIDE DEF members
  <2> QED
    BY <1>2, FlagFacts
<1>4. Snapshot(k, o) = [flags |-> flags, members |-> members]
  BY DEF Snapshot
<1> HIDE DEF flags, members
<1> QED
  BY <1>1, <1>3, <1>4 DEF Networks

\* They depend on the objects in the table only.
LEMMA SnapshotSame ==
  ASSUME NEW k, NEW o, NEW u, \A x \in Table(k) : u[x] = o[x]
  PROVE  Snapshot(k, u) = Snapshot(k, o)
<1> DEFINE A == {x \in Table(k) : Has(u, x, Defined)}
           B == {x \in Table(k) : Has(o, x, Defined)}
<1>1. A = B
  BY DEF Has
<1>2. {u[x].flags : x \in A} = {o[x].flags : x \in B}
  BY <1>1
<1> QED
  BY <1>1, <1>2 DEF Snapshot

\* What an update leaves before the objects nobody holds are freed.
Outcome(w) ==
  /\ w \in Worlds /\ Consistent(w) /\ w.snap = Snapshot(w.known, w.object)
  /\ \A t \in Sessions : Kin(session[t], w.session[t], Objects) /\ Owned(w.session[t])

\* The service network has changed: what that makes of one session.
LEMMA ServiceKin ==
  ASSUME NEW r \in Records, Owned(r), NEW o \in [Objects -> Contents], NEW n \in Networks,
         NEW k, Follows(k, o, r)
  PROVE  Kin(r, ServiceChanged(r, o, n), Objects) /\ Follows(k, o, ServiceChanged(r, o, n))
<1> DEFINE q == ServiceChanged(r, o, n)
<1>1. CASE r.exists /\ r.service
  <2>1. q = FromServiceNetwork(r, o, n)
    BY <1>1 DEF ServiceChanged
  <2> HIDE DEF q
  <2>2. /\ q \in Records
        /\ q.exists = r.exists /\ q.service = r.service /\ q.opened = r.opened
        /\ q.queue = r.queue /\ q.isOpen = r.isOpen
        /\ q.active = r.active \/ q.active \in n.members
    BY <2>1, FromService
  <2>3. n.members \subseteq Objects
    BY DEF Networks
  <2>4. Kin(r, q, Objects)
    BY <1>1, <2>2, <2>3 DEF Kin
  <2>5. Follows(k, o, q)
    BY <1>1, <2>2 DEF Follows, Single
  <2> QED
    BY <2>4, <2>5 DEF q
<1>2. CASE ~(r.exists /\ r.service)
  <2>1. q = r
    BY <1>2 DEF ServiceChanged
  <2>2. Kin(r, r, Objects)
    BY KinSelf
  <2> QED
    BY <2>1, <2>2
<1> QED
  BY <1>1, <1>2

\* The last step of an update: the service network and its sessions.
LEMMA ServiceStep ==
  ASSUME Good, NEW w, Along(w, {})
  PROVE  Outcome(UpdateInternetService(w))
<1> DEFINE n == Snapshot(w.known, w.object)
           S == [t \in Sessions |-> ServiceChanged(w.session[t], w.object, n)]
           z == [w EXCEPT !.snap = n, !.session = S]
<1>1. /\ w \in Worlds /\ Consistent(w) /\ w.snap = snap /\ w.known \in Tables
      /\ w.object \in [Objects -> Contents]
  BY DEF Along, Worlds
<1>2. n \in Networks
  BY <1>1, SnapshotType
<1>3. UpdateInternetService(w) = IF n = w.snap THEN w ELSE z
  BY DEF UpdateInternetService
<1> HIDE DEF n
<1>4. \A t \in Sessions : /\ session[t] \in Records /\ Owned(session[t])
                          /\ w.session[t] \in Records /\ Owned(w.session[t])
  BY OwnedAlong DEF Good, Fits
<1>5. \A t \in Sessions : Kin(session[t], w.session[t], Objects)
  <2>1. snap.members \subseteq Objects
    BY DEF Good, Types, Networks
  <2> QED
    BY <2>1, KinMore DEF Along
<1>6. CASE n = w.snap
  <2>1. UpdateInternetService(w) = w
    BY <1>3, <1>6
  <2>2. Outcome(w)
    BY <1>1, <1>4, <1>5, <1>6 DEF Outcome, n
  <2> QED
    BY <2>1, <2>2
<1>7. CASE n # w.snap
  <2>1. UpdateInternetService(w) = z
    BY <1>3, <1>7
  <2>2. ASSUME NEW t \in Sessions
        PROVE  /\ S[t] \in Records /\ Owned(S[t]) /\ Kin(session[t], S[t], Objects)
               /\ Follows(w.known, w.object, S[t])
    <3> DEFINE r == w.session[t]
               q == ServiceChanged(r, w.object, n)
    <3>1. /\ r \in Records /\ Owned(r) /\ Follows(w.known, w.object, r)
          /\ Kin(session[t], r, Objects) /\ session[t] \in Records
      BY <1>1, <1>4, <1>5 DEF Consistent
    <3> HIDE DEF r
    <3>2. Kin(r, q, Objects) /\ Follows(w.known, w.object, q)
      BY <1>1, <1>2, <3>1, ServiceKin
    <3> HIDE DEF q
    <3>3. Kin(session[t], q, Objects)
      BY <3>1, <3>2, KinTrans
    <3>4. q \in Records /\ Owned(q)
      BY <3>1, <3>2, KinTypes
    <3>5. S[t] = q
      BY DEF q, r
    <3> QED
      BY <3>2, <3>3, <3>4, <3>5
  <2>3. S \in [Sessions -> Records]
    <3>1. \A t \in Sessions : S[t] \in Records
      BY <2>2
    <3>2. S = [t \in Sessions |-> S[t]]
      OBVIOUS
    <3> HIDE DEF S
    <3> QED
      BY <3>1, <3>2
  <2>4. \A t \in Sessions : /\ Owned(S[t]) /\ Kin(session[t], S[t], Objects)
                            /\ Follows(w.known, w.object, S[t])
    BY <2>2
  <2> HIDE DEF S
  <2>5. /\ z \in Worlds /\ z.known = w.known /\ z.object = w.object /\ z.snap = n
        /\ z.online = w.online /\ z.told = w.told /\ z.session = S
    BY <1>1, <1>2, <2>3 DEF Worlds
  <2> HIDE DEF z
  <2>6. Outcome(z)
    BY <1>1, <1>2, <2>4, <2>5 DEF Outcome, Consistent, n
  <2> QED
    BY <2>1, <2>6
<1> QED
  BY <1>6, <1>7

\* The world an update starts from is consistent when the state is.
LEMMA WorldStarts ==
  ASSUME Good
  PROVE  Along(World, Configs)
<1> DEFINE w == World
<1>1. /\ w.known = known /\ w.object = object /\ w.snap = snap /\ w.online = online
      /\ w.told = toldOnline /\ w.session = session
  BY DEF World
<1>2. w \in Worlds
  BY DEF Good, Types, World, Worlds
<1>3. \A t \in Sessions : Kin(session[t], session[t], snap.members)
  BY KinSelf DEF Good, Fits
<1> HIDE DEF w
<1>4. Along(w, Configs)
  BY <1>1, <1>2, <1>3 DEF Along, Consistent, Good, Fits
<1> QED
  BY <1>4 DEF w

\* An update, all its reports and the service network, in any order of reports.
LEMMA UpdatedStep ==
  ASSUME Good, NEW p \in Reports, NEW order \in Orders(p)
  PROVE  Outcome(Updated(p, order))
<1> DEFINE S == Found(p) \cup Lost(p)
           n == Cardinality(S)
           world[i \in 0 .. Len(order)] ==
             IF i = 0 THEN World ELSE Told(world[i - 1], order[i], p[order[i]])
<1>1. S \subseteq Configs /\ IsFiniteSet(S) /\ n \in Nat
  <2>1. S \subseteq Configs
    BY DEF Found, Lost
  <2> HIDE DEF S
  <2> QED
    BY <2>1, ConfigsAssumption, FS_Subset, FS_CardinalityType
<1>2. order \in [1 .. n -> S] /\ \A i, j \in 1 .. n : i # j => order[i] # order[j]
  BY DEF Orders, SetToSeqs
<1>3. order \in [1 .. n -> Configs] /\ \A i \in 1 .. n : order[i] \in S
  <2> HIDE DEF S, n
  <2> QED
    BY <1>1, <1>2
<1>4. \A i \in 1 .. n : p[order[i]] = Absent => known[order[i]] # 0
  BY <1>3 DEF Found, Lost
<1>5. Len(order) = n
  <2> HIDE DEF S, n
  <2> QED
    BY <1>1, <1>2
<1>6. /\ p \in [Configs -> Shown \cup {Absent}]
      /\ \A c \in Configs : p[c] # Absent => known[c] # 0 \/ Unused(session, c) # {}
  <2>1. p \in [Configs -> StateFlags \cup {Absent}] /\ \A c \in Configs : p[c] \in Reported[c]
    BY DEF Reports
  <2>2. \A c \in Configs : p[c] \in Shown \cup {Absent}
    BY <2>1 DEF Shown
  <2>3. \A c \in Configs : p[c] # Absent => known[c] # 0 \/ Unused(session, c) # {}
    BY DEF Reports
  <2> QED
    BY <2>1, <2>2, <2>3
<1> HIDE DEF S, n
<1>7. Fold(p, order, n, world)
  <2>1. \E f : Fold(p, order, n, f)
    BY <1>1, FoldExists
  <2>2. world = CHOOSE f : Fold(p, order, n, f)
    BY <1>5 DEF Fold
  <2> HIDE DEF world
  <2> QED
    BY <2>1, <2>2
<1>8. Updated(p, order) = UpdateInternetService(world[n])
  BY <1>5 DEF Updated
<1> HIDE DEF world
<1>9. Along(World, Configs)
  BY WorldStarts
<1>10. /\ snap \in Networks /\ snap.members \subseteq Table(known) /\ known \in Tables
       /\ \A t \in Sessions : session[t] \in Records /\ Owned(session[t])
  BY SnapshotType DEF Good, Types, Fits
<1>11. Along(world[n], {})
  BY <1>1, <1>2, <1>3, <1>4, <1>6, <1>7, <1>9, <1>10, FoldAlong
<1> QED
  BY <1>8, <1>11, ServiceStep

\* Freeing the objects that neither the table nor a session holds changes
\* nothing the table shows ...
LEMMA KeptFields ==
  ASSUME NEW o \in [Objects -> Contents], NEW k \in Tables, NEW s, ValidInTable(k, o),
         NEW n, NEW told, Agrees(k, o, n, told)
  PROVE  /\ Kept(o, k, s) \in [Objects -> Contents]
         /\ ValidInTable(k, Kept(o, k, s)) /\ Agrees(k, Kept(o, k, s), n, told)
         /\ Snapshot(k, Kept(o, k, s)) = Snapshot(k, o)
<1> DEFINE u == Kept(o, k, s)
<1>1. u \in [Objects -> Contents]
  BY FlagFacts DEF Kept, Contents, Blank
<1>2. \A x \in Objects : k[x[1]] = x[2] => u[x] = o[x]
  BY DEF Kept
<1>3. \A x \in Objects : u[x].valid => o[x].valid
  BY DEF Kept, Blank
<1> HIDE DEF u
<1>4. \A c \in Configs : k[c] # 0 => <<c, k[c]>> \in Objects /\ u[<<c, k[c]>>] = o[<<c, k[c]>>]
  BY <1>2, BoundsAssumption DEF Tables, Objects
<1>5. ValidInTable(k, u)
  BY <1>3, <1>4 DEF ValidInTable
<1>6. Up(k, u) = Up(k, o)
  BY <1>4 DEF Up
<1>7. Agrees(k, u, n, told)
  BY <1>6 DEF Agrees
<1>8. Snapshot(k, u) = Snapshot(k, o)
  BY <1>4, SnapshotSame DEF Table
<1> QED
  BY <1>1, <1>5, <1>7, <1>8 DEF u

\* ... and nothing a session follows.
LEMMA KeptFits ==
  ASSUME NEW o, NEW k, NEW s, NEW r, Fits(k, o, r)
  PROVE  Fits(k, Kept(o, k, s), r)
<1> DEFINE u == Kept(o, k, s)
<1>1. \A x \in Objects : k[x[1]] = x[2] => u[x] = o[x]
  BY DEF Kept
<1> HIDE DEF u
<1>2. Single(r) => r.active \in Objects
  BY DEF Fits, Owned
<1>3. Follows(k, u, r)
  BY <1>1, <1>2, KinFollows DEF Fits
<1>4. Fits(k, u, r)
  BY <1>3 DEF Fits
<1> QED
  BY <1>4 DEF u

\* The invariant of the next state, part by part.
LEMMA GoodPrime ==
  ASSUME known' \in Tables, object' \in [Objects -> Contents], snap' \in Networks,
         online' \in Int, toldOnline' \in BOOLEAN, session' \in [Sessions -> Records],
         activating' \in Configs \cup {None}, wanted' \in [Sessions -> BOOLEAN],
         snap' = Snapshot(known', object'), ValidInTable(known', object'),
         Agrees(known', object', online', toldOnline'),
         \A s \in Sessions : Fits(known', object', session'[s])
  PROVE  Good'
BY DEF Good, Types

\* A step that changes sessions only, but may free objects nobody holds.
LEMMA SessionsStep ==
  ASSUME Good, session' \in [Sessions -> Records],
         \A t \in Sessions : Fits(known, object, session'[t]),
         UNCHANGED <<known, snap, online, toldOnline>>,
         object' = object \/ object' = Kept(object, known, session'),
         activating' \in Configs \cup {None}, wanted' \in [Sessions -> BOOLEAN]
  PROVE  Good'
<1>1. /\ known' \in Tables /\ snap' \in Networks /\ online' \in Int /\ toldOnline' \in BOOLEAN
  BY DEF Good, Types
<1>2. /\ object' \in [Objects -> Contents] /\ ValidInTable(known', object')
      /\ Agrees(known', object', online', toldOnline')
      /\ snap' = Snapshot(known', object')
      /\ \A s \in Sessions : Fits(known', object', session'[s])
  <2>1. CASE object' = object
    BY <2>1 DEF Good, Types
  <2>2. CASE object' = Kept(object, known, session')
    <3>1. /\ object \in [Objects -> Contents] /\ known \in Tables
          /\ ValidInTable(known, object) /\ Agrees(known, object, online, toldOnline)
          /\ snap = Snapshot(known, object)
      BY DEF Good, Types
    <3> DEFINE u == Kept(object, known, session')
    <3>2. /\ u \in [Objects -> Contents] /\ ValidInTable(known, u)
          /\ Agrees(known, u, online, toldOnline) /\ Snapshot(known, u) = snap
      BY <3>1, KeptFields
    <3>3. \A s \in Sessions : Fits(known, u, session'[s])
      BY KeptFits
    <3> HIDE DEF u
    <3> QED
      BY <2>2, <3>1, <3>2, <3>3 DEF u
  <2> QED
    BY <2>1, <2>2
<1> QED
  BY <1>1, <1>2, GoodPrime

\* The engine reports: the whole of updateConfigurations().
LEMMA UpdateStep ==
  ASSUME Good, UpdateConfigurations
  PROVE  Good' /\ (Asked => Asked' /\ Opens)
<1>1. PICK p \in Reports : \E w \in {Updated(p, order) : order \in Orders(p)} :
        /\ known' = w.known /\ object' = Kept(w.object, w.known, w.session) /\ snap' = w.snap
        /\ online' = w.online /\ toldOnline' = w.told /\ session' = w.session
        /\ UNCHANGED <<activating, wanted>>
  BY DEF UpdateConfigurations
<1>2. PICK order \in Orders(p) : \E w \in {Updated(p, order)} :
        /\ known' = w.known /\ object' = Kept(w.object, w.known, w.session) /\ snap' = w.snap
        /\ online' = w.online /\ toldOnline' = w.told /\ session' = w.session
        /\ UNCHANGED <<activating, wanted>>
  BY <1>1
<1> DEFINE w == Updated(p, order)
<1>3. Outcome(w)
  BY UpdatedStep
<1>4. /\ known' = w.known /\ object' = Kept(w.object, w.known, w.session) /\ snap' = w.snap
      /\ online' = w.online /\ toldOnline' = w.told /\ session' = w.session
      /\ UNCHANGED <<activating, wanted>>
  BY <1>2
<1> HIDE DEF w
<1> DEFINE u == Kept(w.object, w.known, w.session)
<1>5. /\ w.known \in Tables /\ w.object \in [Objects -> Contents] /\ w.snap \in Networks
      /\ w.online \in Int /\ w.told \in BOOLEAN /\ w.session \in [Sessions -> Records]
  BY <1>3 DEF Outcome, Worlds
<1>6. ValidInTable(w.known, w.object) /\ Agrees(w.known, w.object, w.online, w.told)
  BY <1>3 DEF Outcome, Consistent
<1>7. /\ u \in [Objects -> Contents] /\ ValidInTable(w.known, u)
      /\ Agrees(w.known, u, w.online, w.told) /\ Snapshot(w.known, u) = Snapshot(w.known, w.object)
  BY <1>5, <1>6, KeptFields
<1>8. \A t \in Sessions : Fits(w.known, w.object, w.session[t])
  BY <1>3, <1>5 DEF Outcome, Consistent, Fits
<1>9. \A t \in Sessions : Fits(w.known, u, w.session[t])
  BY <1>8, KeptFits
<1> HIDE DEF u
<1>10. Good'
  <2>1. activating' \in Configs \cup {None} /\ wanted' \in [Sessions -> BOOLEAN]
    BY <1>4 DEF Good, Types
  <2>2. w.snap = Snapshot(w.known, u)
    BY <1>3, <1>7 DEF Outcome
  <2>3. object' = u
    BY <1>4 DEF u
  <2> QED
    BY <1>4, <1>5, <1>7, <1>9, <2>1, <2>2, <2>3, GoodPrime
<1>11. \A t \in Sessions : /\ w.session[t].opened = session[t].opened
                           /\ w.session[t].isOpen => session[t].isOpen \/ w.session[t].opened
  BY <1>3 DEF Outcome, Kin
<1>12. ASSUME Asked  PROVE Asked' /\ Opens
  BY <1>4, <1>11, <1>12 DEF Asked, Opens
<1> QED
  BY <1>10, <1>12

\* A session that looks at its configuration between two updates.
LEMMA Looked ==
  ASSUME Good, NEW r \in Records, Owned(r), r.exists
  PROVE  LET q == NetworkConfigurationsChanged(r, object, snap)
         IN Kin(r, q, snap.members) /\ Fits(known, object, q)
<1> DEFINE q == NetworkConfigurationsChanged(r, object, snap)
<1>1. object \in [Objects -> Contents] /\ snap \in Networks /\ ValidInTable(known, object)
  BY DEF Good, Types
<1>2. Kin(r, q, snap.members)
  BY <1>1, ChangedKin
<1>3. ~r.service => object[r.active].valid \/ known[r.active[1]] # r.active[2]
  <2> SUFFICES ASSUME ~r.service, known[r.active[1]] = r.active[2]
               PROVE  object[r.active].valid
    OBVIOUS
  <2>1. /\ r.active[1] \in Configs /\ r.active[2] # 0
        /\ r.active = <<r.active[1], r.active[2]>>
    BY DEF Owned, Single, Objects
  <2> QED
    BY <1>1, <2>1 DEF ValidInTable
<1>4. Follows(known, object, q)
  BY <1>1, <1>3, ChangedFollows
<1> HIDE DEF q
<1>5. q \in Records /\ Owned(q)
  BY <1>2, KinTypes
<1> QED
  BY <1>2, <1>4, <1>5 DEF Fits, q

\* An asynchronous update ends.
LEMMA AsyncStep ==
  ASSUME Good, PerformAsyncUpdate
  PROVE  Good' /\ (Asked => Asked' /\ Opens)
<1> DEFINE S(t) == IF session[t].exists
                   THEN NetworkConfigurationsChanged(session[t], object, snap) ELSE session[t]
<1>1. /\ session' = [t \in Sessions |-> S(t)] /\ object' = Kept(object, known, session')
      /\ UNCHANGED <<known, snap, online, toldOnline, activating, wanted>>
  BY DEF PerformAsyncUpdate
<1>2. ASSUME NEW t \in Sessions
      PROVE  Kin(session[t], S(t), snap.members) /\ Fits(known, object, S(t))
  <2> DEFINE r == session[t]
  <2>1. r \in Records /\ Owned(r) /\ Fits(known, object, r)
    BY DEF Good, Fits
  <2>2. CASE ~r.exists
    <3>1. Kin(r, r, snap.members)
      BY <2>1, KinSelf
    <3> QED
      BY <2>1, <2>2, <3>1
  <2>3. CASE r.exists
    <3> DEFINE q == NetworkConfigurationsChanged(r, object, snap)
    <3>1. S(t) = q
      BY <2>3
    <3> HIDE DEF r
    <3>2. Kin(r, q, snap.members) /\ Fits(known, object, q)
      BY <2>1, <2>3, Looked
    <3> QED
      BY <3>1, <3>2 DEF r
  <2> QED
    BY <2>2, <2>3
<1>4. \A t \in Sessions : Fits(known, object, S(t))
  <2> HIDE DEF S
  <2> QED
    BY <1>2
<1>5. session' \in [Sessions -> Records] /\ \A t \in Sessions : session'[t] = S(t)
  <2> HIDE DEF S
  <2> QED
    BY <1>1, <1>4 DEF Fits
<1>6. \A t \in Sessions : /\ S(t).opened = session[t].opened
                          /\ S(t).isOpen => session[t].isOpen \/ S(t).opened
  <2> HIDE DEF S
  <2> QED
    BY <1>2 DEF Kin
<1> HIDE DEF S
<1>7. Good'
  <2>1. activating' \in Configs \cup {None} /\ wanted' \in [Sessions -> BOOLEAN]
    BY <1>1 DEF Good, Types
  <2> QED
    BY <1>1, <1>4, <1>5, <2>1, SessionsStep
<1>8. ASSUME Asked  PROVE Asked' /\ Opens
  BY <1>1, <1>5, <1>6, <1>8 DEF Asked, Opens
<1> QED
  BY <1>7, <1>8

\* q is r but for its queue and its waiting.
Requeued(r, q) ==
  /\ q \in Records
  /\ q.exists = r.exists /\ q.service = r.service /\ q.active = r.active
  /\ q.state = r.state /\ q.opened = r.opened /\ q.isOpen = r.isOpen

\* What only the queue and the waiting of a session differ in.
LEMMA RequeuedFits ==
  ASSUME NEW k, NEW o, NEW r, Fits(k, o, r), NEW q, Requeued(r, q)
  PROVE  Fits(k, o, q)
BY DEF Fits, Requeued, Owned, Single, Follows

\* An error of the engine is queued and changes nothing else.
LEMMA QueuedStep ==
  ASSUME NEW s \in [Sessions -> Records], NEW c \in Configs,
         NEW e \in {"NotSupported", "ConnectError"}
  PROVE  /\ Queued(s, c, e) \in [Sessions -> Records]
         /\ \A t \in Sessions : Requeued(s[t], Queued(s, c, e)[t])
<1> DEFINE S == Queued(s, c, e)
<1>1. ASSUME NEW t \in Sessions  PROVE Requeued(s[t], S[t])
  <2> DEFINE r == s[t]
             qu == Append(r.queue, <<c, e>>)
             q == [r EXCEPT !.queue = qu]
  <2>1. r \in Records
    OBVIOUS
  <2>2. qu \in Seq(Errors)
    <3>1. r.queue \in Seq(Errors) /\ <<c, e>> \in Errors
      BY <2>1 DEF Records, Errors
    <3> HIDE DEF r
    <3> QED
      BY <3>1, AppendProperties
  <2>3. S[t] = IF r.exists /\ r.active # None THEN q ELSE r
    BY DEF Queued
  <2> HIDE DEF S, r, qu
  <2>4. Requeued(r, q) /\ Requeued(r, r)
    BY <2>1, <2>2 DEF Requeued, Records
  <2> QED
    BY <2>3, <2>4 DEF r
<1>2. S \in [Sessions -> Records]
  <2>1. \A t \in Sessions : S[t] \in Records
    BY <1>1 DEF Requeued
  <2>2. S = [t \in Sessions |-> S[t]]
    BY DEF Queued
  <2> HIDE DEF S
  <2> QED
    BY <2>1, <2>2
<1> QED
  BY <1>1, <1>2

\* The platform could not start a configuration.
LEMMA FailsStep ==
  ASSUME Good, ActivationFails
  PROVE  Good' /\ (Asked => Asked' /\ Opens)
<1> DEFINE S == Queued(session, activating, "ConnectError")
<1>1. /\ activating # None /\ session' = S
      /\ UNCHANGED <<known, object, snap, online, toldOnline, activating, wanted>>
  BY DEF ActivationFails, manager
<1>2. session \in [Sessions -> Records] /\ activating \in Configs
  BY <1>1 DEF Good, Types
<1>3. S \in [Sessions -> Records] /\ \A t \in Sessions : Requeued(session[t], S[t])
  BY <1>2, QueuedStep
<1> HIDE DEF S
<1>4. \A t \in Sessions : Fits(known, object, S[t])
  BY <1>3, RequeuedFits DEF Good
<1>5. Good'
  <2>1. activating' \in Configs \cup {None} /\ wanted' \in [Sessions -> BOOLEAN]
    BY <1>1 DEF Good, Types
  <2> QED
    BY <1>1, <1>3, <1>4, <2>1, SessionsStep
<1>6. ASSUME Asked  PROVE Asked' /\ Opens
  BY <1>1, <1>3, <1>6 DEF Asked, Opens, Requeued
<1> QED
  BY <1>5, <1>6

\* A free place for a session.
LEMMA FreeFits ==
  ASSUME NEW k, NEW o
  PROVE  Fits(k, o, Free)
<1>1. <<>> \in Seq(Errors)
  OBVIOUS
<1>2. Free \in Records
  BY <1>1 DEF Free, Records, SessionStates
<1>3. Owned(Free) /\ Follows(k, o, Free)
  BY DEF Free, Owned, Follows, Single
<1> QED
  BY <1>2, <1>3 DEF Fits

\* A session is made, and looks at its configuration.
LEMMA CreateStep ==
  ASSUME Good, NEW s \in Sessions, Create(s)
  PROVE  Good' /\ (Asked => Asked' /\ Opens)
<1>1. PICK x \in Table(known) \cup {None} :
        session' = [session EXCEPT ![s] = NetworkConfigurationsChanged(
                      [Free EXCEPT !.exists = TRUE, !.service = (x = None), !.active = x],
                      object, snap)]
  BY DEF Create
<1> DEFINE r == [Free EXCEPT !.exists = TRUE, !.service = (x = None), !.active = x]
           q == NetworkConfigurationsChanged(r, object, snap)
<1>2. session \in [Sessions -> Records] /\ known \in Tables
  BY DEF Good, Types
<1>3. x \in Objects \/ x = None
  BY <1>2, TableObjects
<1>4. r \in Records /\ r.exists /\ (r.service <=> x = None) /\ r.active = x
      /\ ~r.isOpen /\ ~r.opened
  <2> DEFINE b == (x = None)
             e == Free
  <2>1. e \in Records /\ ~e.isOpen /\ ~e.opened
    BY FreeFits DEF Fits, Free
  <2>2. b \in BOOLEAN
    OBVIOUS
  <2>3. r = [e EXCEPT !.exists = TRUE, !.service = b, !.active = x]
    OBVIOUS
  <2> HIDE DEF r, b, e
  <2>4. r \in Records /\ r.exists /\ r.service = b /\ r.active = x /\ ~r.isOpen /\ ~r.opened
    BY <1>3, <2>1, <2>2, <2>3 DEF Records
  <2> QED
    BY <2>4 DEF b
<1> HIDE DEF r
<1>5. Owned(r)
  BY <1>3, <1>4 DEF Owned, Single
<1>6. Kin(r, q, snap.members) /\ Fits(known, object, q)
  BY <1>4, <1>5, Looked
<1>7. session' = [session EXCEPT ![s] = q]
  BY <1>1 DEF r
<1> HIDE DEF q
<1>8. /\ session' \in [Sessions -> Records] /\ session'[s] = q
      /\ \A t \in Sessions \ {s} : session'[t] = session[t]
  BY <1>2, <1>6, <1>7 DEF Fits
<1>9. /\ UNCHANGED <<known, object, snap, online, toldOnline, activating, wanted>>
  BY DEF Create, manager
<1>10. Good'
  <2>1. activating' \in Configs \cup {None} /\ wanted' \in [Sessions -> BOOLEAN]
    BY <1>9 DEF Good, Types
  <2>2. \A t \in Sessions : Fits(known, object, session'[t])
    BY <1>6, <1>8 DEF Good
  <2> QED
    BY <1>8, <1>9, <2>1, <2>2, SessionsStep
<1>11. ~q.isOpen /\ ~q.opened
  BY <1>4, <1>6 DEF Kin, Records
<1>12. ASSUME Asked  PROVE Asked' /\ Opens
  <2>1. \A t \in Sessions : /\ session'[t].opened => wanted'[t]
                            /\ ~session[t].isOpen /\ session'[t].isOpen => wanted'[t]
    BY <1>8, <1>9, <1>11, <1>12 DEF Asked
  <2> QED
    BY <2>1 DEF Asked, Opens
<1> QED
  BY <1>10, <1>12

\* A session is destroyed; an object it alone held is freed.
LEMMA DestroyStep ==
  ASSUME Good, NEW s \in Sessions, Destroy(s)
  PROVE  Good' /\ (Asked => Asked' /\ Opens)
<1> DEFINE q == Free
<1>1. /\ session' = [session EXCEPT ![s] = q] /\ object' = Kept(object, known, session')
      /\ wanted' = [wanted EXCEPT ![s] = FALSE]
      /\ UNCHANGED <<known, snap, online, toldOnline, activating>>
  BY DEF Destroy
<1>2. Fits(known, object, q) /\ ~q.isOpen /\ ~q.opened
  BY FreeFits DEF Free
<1> HIDE DEF q
<1>3. /\ session \in [Sessions -> Records] /\ wanted \in [Sessions -> BOOLEAN]
      /\ activating' \in Configs \cup {None}
  BY <1>1 DEF Good, Types
<1>4. /\ session' \in [Sessions -> Records] /\ session'[s] = q
      /\ \A t \in Sessions \ {s} : session'[t] = session[t]
  BY <1>1, <1>2, <1>3 DEF Fits
<1>5. /\ wanted' \in [Sessions -> BOOLEAN]
      /\ \A t \in Sessions \ {s} : wanted'[t] = wanted[t]
  BY <1>1, <1>3
<1>6. \A t \in Sessions : Fits(known, object, session'[t])
  BY <1>2, <1>4 DEF Good
<1>7. Good'
  BY <1>1, <1>3, <1>4, <1>5, <1>6, SessionsStep
<1>8. ASSUME Asked  PROVE Asked' /\ Opens
  <2>1. \A t \in Sessions : /\ session'[t].opened => wanted'[t]
                            /\ ~session[t].isOpen /\ session'[t].isOpen => wanted'[t]
    BY <1>2, <1>4, <1>5, <1>8 DEF Asked
  <2> QED
    BY <2>1 DEF Asked, Opens
<1> QED
  BY <1>7, <1>8

\* A step that changes one session, and whether it is wanted.
LEMMA OneStep ==
  ASSUME Good, NEW s \in Sessions, NEW q, Fits(known, object, q),
         session' = [session EXCEPT ![s] = q], UNCHANGED manager,
         activating' \in Configs \cup {None},
         NEW b \in BOOLEAN, wanted' = [wanted EXCEPT ![s] = b],
         q.isOpen => session[s].isOpen \/ b
  PROVE  Good' /\ (Asked /\ (q.opened => b) => Asked' /\ Opens)
<1>1. session \in [Sessions -> Records] /\ wanted \in [Sessions -> BOOLEAN]
  BY DEF Good, Types
<1>2. /\ session' \in [Sessions -> Records] /\ session'[s] = q
      /\ \A t \in Sessions \ {s} : session'[t] = session[t]
  BY <1>1 DEF Fits
<1>3. /\ wanted' \in [Sessions -> BOOLEAN] /\ wanted'[s] = b
      /\ \A t \in Sessions \ {s} : wanted'[t] = wanted[t]
  BY <1>1
<1>4. \A t \in Sessions : Fits(known, object, session'[t])
  BY <1>2 DEF Good
<1>5. Good'
  BY <1>2, <1>3, <1>4, SessionsStep DEF manager
<1>6. ASSUME Asked, q.opened => b  PROVE Asked' /\ Opens
  <2>1. \A t \in Sessions : /\ session'[t].opened => wanted'[t]
                            /\ ~session[t].isOpen /\ session'[t].isOpen => wanted'[t]
    BY <1>2, <1>3, <1>6 DEF Asked
  <2> QED
    BY <2>1 DEF Asked, Opens
<1> QED
  BY <1>5, <1>6

\* open() where there is nothing to open.
LEMMA UndiscoveredStep ==
  ASSUME Good, NEW s \in Sessions, OpenUndiscovered(s)
  PROVE  Good' /\ (Asked => Asked' /\ Opens)
<1> DEFINE r == session[s]
           q == [r EXCEPT !.waiting = FALSE]
           b == wanted[s]
<1>1. session' = [session EXCEPT ![s] = q] /\ UNCHANGED <<manager, activating, wanted>>
  BY DEF OpenUndiscovered
<1>2. /\ Fits(known, object, r) /\ activating' \in Configs \cup {None} /\ b \in BOOLEAN
      /\ wanted' = [wanted EXCEPT ![s] = b]
  BY <1>1 DEF Good, Types
<1>3. Asked => (r.opened => b)
  BY DEF Asked
<1> HIDE DEF r, b
<1>4. Requeued(r, q) /\ q.opened = r.opened /\ q.isOpen = r.isOpen
  BY <1>2 DEF Requeued, Fits, Records
<1>5. Fits(known, object, q)
  BY <1>2, <1>4, RequeuedFits
<1> HIDE DEF q
<1> QED
  BY <1>1, <1>2, <1>3, <1>4, <1>5, OneStep DEF r

\* waitForOpened() begins to wait.
LEMMA WaitStep ==
  ASSUME Good, NEW s \in Sessions, WaitForOpened(s)
  PROVE  Good' /\ (Asked => Asked' /\ Opens)
<1> DEFINE r == session[s]
           q == [r EXCEPT !.waiting = TRUE]
           b == wanted[s]
<1>1. session' = [session EXCEPT ![s] = q] /\ UNCHANGED <<manager, activating, wanted>>
  BY DEF WaitForOpened
<1>2. /\ Fits(known, object, r) /\ activating' \in Configs \cup {None} /\ b \in BOOLEAN
      /\ wanted' = [wanted EXCEPT ![s] = b]
  BY <1>1 DEF Good, Types
<1>3. Asked => (r.opened => b)
  BY DEF Asked
<1> HIDE DEF r, b
<1>4. Requeued(r, q) /\ q.opened = r.opened /\ q.isOpen = r.isOpen
  BY <1>2 DEF Requeued, Fits, Records
<1>5. Fits(known, object, q)
  BY <1>2, <1>4, RequeuedFits
<1> HIDE DEF q
<1> QED
  BY <1>1, <1>2, <1>3, <1>4, <1>5, OneStep DEF r

\* open() over an active interface: the session is open at once.
LEMMA ActiveStep ==
  ASSUME Good, NEW s \in Sessions, OpenActive(s)
  PROVE  Good' /\ (Asked => Asked' /\ Opens)
<1> DEFINE r == session[s]
           q == [r EXCEPT !.opened = TRUE, !.isOpen = TRUE, !.waiting = FALSE]
           b == TRUE
<1>1. /\ session \in [Sessions -> Records] /\ Fits(known, object, r)
      /\ activating \in Configs \cup {None}
  BY DEF Good, Types
<1>2. [session EXCEPT ![s].opened = TRUE, ![s].isOpen = TRUE, ![s].waiting = FALSE]
        = [session EXCEPT ![s] = q]
  BY <1>1
<1>3. /\ Single(r) /\ Has(object, r.active, Active)
      /\ session' = [session EXCEPT ![s] = q] /\ wanted' = [wanted EXCEPT ![s] = b]
      /\ UNCHANGED <<manager, activating>>
  BY <1>2 DEF OpenActive, Plain, Flagged, Single
<1>4. b \in BOOLEAN /\ b
  OBVIOUS
<1> HIDE DEF r, b
<1>5. /\ q \in Records /\ q.exists = r.exists /\ q.service = r.service /\ q.active = r.active
      /\ q.state = r.state /\ q.opened /\ q.isOpen
  BY <1>1 DEF Fits, Records
<1> HIDE DEF q
<1>6. Fits(known, object, q)
  BY <1>1, <1>3, <1>5 DEF Fits, Owned, Single, Follows
<1> QED
  BY <1>1, <1>3, <1>4, <1>5, <1>6, OneStep

\* close(): where the user does not call it before the session is open, nothing
\* stays to be opened.
LEMMA CloseStep ==
  ASSUME Good, NEW s \in Sessions, Close(s)
  PROVE  Good' /\ (Hasty = {} /\ Asked => Asked' /\ Opens)
<1> DEFINE r == session[s]
           q == IF r.isOpen THEN [r EXCEPT !.opened = FALSE, !.isOpen = FALSE] ELSE r
           b == FALSE
<1>1. /\ session \in [Sessions -> Records] /\ Fits(known, object, r)
      /\ activating \in Configs \cup {None}
  BY DEF Good, Types
<1>2. [session EXCEPT ![s].opened = FALSE, ![s].isOpen = FALSE]
        = [session EXCEPT ![s] = [r EXCEPT !.opened = FALSE, !.isOpen = FALSE]]
  BY <1>1
<1>3. session = [session EXCEPT ![s] = r]
  BY <1>1
<1>4. /\ session' = [session EXCEPT ![s] = q] /\ wanted' = [wanted EXCEPT ![s] = b]
      /\ UNCHANGED <<manager, activating>> /\ (Hasty = {} => r.isOpen)
  BY <1>2, <1>3 DEF Close
<1>5. b \in BOOLEAN /\ ~b
  OBVIOUS
<1> HIDE DEF r, b
<1>6. /\ q \in Records /\ q.exists = r.exists /\ q.service = r.service /\ q.active = r.active
      /\ q.state = r.state /\ ~q.isOpen /\ (q.opened => r.opened) /\ (r.isOpen => ~q.opened)
  BY <1>1 DEF Fits, Records
<1>7. q = r \/ ~q.opened
  BY <1>6
<1> HIDE DEF q
<1>8. Fits(known, object, q)
  BY <1>1, <1>6, <1>7 DEF Fits, Owned, Single, Follows
<1> QED
  BY <1>1, <1>4, <1>5, <1>6, <1>8, OneStep

\* stop() over an interface that is not active.
LEMMA InactiveStep ==
  ASSUME Good, NEW s \in Sessions, StopInactive(s)
  PROVE  Good' /\ (Asked => Asked' /\ Opens)
<1> DEFINE r == session[s]
           q == [r EXCEPT !.opened = FALSE, !.isOpen = FALSE]
           b == FALSE
<1>1. /\ session \in [Sessions -> Records] /\ Fits(known, object, r)
      /\ activating \in Configs \cup {None}
  BY DEF Good, Types
<1>2. [session EXCEPT ![s].opened = FALSE, ![s].isOpen = FALSE] = [session EXCEPT ![s] = q]
  BY <1>1
<1>3. /\ session' = [session EXCEPT ![s] = q] /\ wanted' = [wanted EXCEPT ![s] = b]
      /\ UNCHANGED <<manager, activating>>
  BY <1>2 DEF StopInactive
<1>4. b \in BOOLEAN
  OBVIOUS
<1> HIDE DEF r, b
<1>5. /\ q \in Records /\ q.exists = r.exists /\ q.service = r.service /\ q.active = r.active
      /\ q.state = r.state /\ ~q.isOpen /\ ~q.opened
  BY <1>1 DEF Fits, Records
<1> HIDE DEF q
<1>6. Fits(known, object, q)
  BY <1>1, <1>5 DEF Fits, Owned, Single, Follows
<1> QED
  BY <1>1, <1>3, <1>4, <1>5, <1>6, OneStep

\* An engine that can do what it is asked for queues nothing.
LEMMA MaybeQueued ==
  ASSUME NEW s \in [Sessions -> Records], NEW c \in Configs, NEW b \in BOOLEAN
  PROVE  LET S == IF b THEN s ELSE Queued(s, c, "NotSupported")
         IN S \in [Sessions -> Records] /\ \A t \in Sessions : Requeued(s[t], S[t])
<1> DEFINE S == IF b THEN s ELSE Queued(s, c, "NotSupported")
<1>1. CASE b
  BY <1>1 DEF Requeued
<1>2. CASE ~b
  <2> DEFINE Q == Queued(s, c, "NotSupported")
  <2>1. Q \in [Sessions -> Records] /\ \A t \in Sessions : Requeued(s[t], Q[t])
    BY QueuedStep
  <2>2. S = Q
    BY <1>2
  <2> QED
    BY <2>1, <2>2
<1> QED
  BY <1>1, <1>2

\* open() over an interface that has to be started.
LEMMA InactiveOpened ==
  ASSUME Good, NEW s \in Sessions, OpenInactive(s)
  PROVE  Good' /\ (Asked => Asked' /\ Opens)
<1> DEFINE r == session[s]
           q == [r EXCEPT !.opened = TRUE, !.state = "Connecting"]
           own == [session EXCEPT ![s] = q]
           c == Id(s)
           f == c \in Startable
           S == IF f THEN own ELSE Queued(own, c, "NotSupported")
<1>1. /\ session \in [Sessions -> Records] /\ Fits(known, object, r)
      /\ wanted \in [Sessions -> BOOLEAN]
  BY DEF Good, Types
<1>2. [session EXCEPT ![s].opened = TRUE, ![s].state = "Connecting"] = own
  BY <1>1
<1>3. /\ Single(r) /\ Has(object, r.active, Discovered) /\ ~Has(object, r.active, Active) /\ ~r.isOpen
      /\ session' = S /\ activating' = c
      /\ wanted' = [wanted EXCEPT ![s] = TRUE] /\ UNCHANGED manager
  BY <1>2 DEF OpenInactive, Plain, Flagged, Single
<1>4. c \in Configs
  <2>1. r.active \in Objects /\ c = r.active[1]
    BY <1>1, <1>3 DEF Fits, Owned, Id
  <2> QED
    BY <2>1 DEF Objects
<1> HIDE DEF r, c
<1>5. /\ q \in Records /\ q.exists = r.exists /\ q.service = r.service /\ q.active = r.active
      /\ q.state = "Connecting" /\ q.isOpen = r.isOpen
  BY <1>1 DEF Fits, Records, SessionStates
<1> HIDE DEF q
<1>6. Fits(known, object, q)
  BY <1>1, <1>3, <1>5 DEF Fits, Owned, Single, Follows
<1>7. /\ own \in [Sessions -> Records] /\ own[s] = q
      /\ \A t \in Sessions \ {s} : own[t] = session[t]
  BY <1>1, <1>5
<1> HIDE DEF own
<1>8. S \in [Sessions -> Records] /\ \A t \in Sessions : Requeued(own[t], S[t])
  <2>1. f \in BOOLEAN
    OBVIOUS
  <2> HIDE DEF f
  <2> QED
    BY <1>4, <1>7, <2>1, MaybeQueued
<1> HIDE DEF S
<1>9. \A t \in Sessions : Fits(known, object, own[t])
  BY <1>6, <1>7 DEF Good
<1>10. \A t \in Sessions : Fits(known, object, S[t])
  BY <1>8, <1>9, RequeuedFits
<1>11. /\ wanted' \in [Sessions -> BOOLEAN] /\ wanted'[s]
       /\ \A t \in Sessions \ {s} : wanted'[t] = wanted[t]
  BY <1>1, <1>3
<1>12. Good'
  BY <1>3, <1>4, <1>8, <1>10, <1>11, SessionsStep DEF manager
<1>13. ASSUME Asked  PROVE Asked' /\ Opens
  <2>1. \A t \in Sessions \ {s} :
          session'[t].opened = session[t].opened /\ session'[t].isOpen = session[t].isOpen
    BY <1>3, <1>7, <1>8 DEF Requeued
  <2>2. \A t \in Sessions : /\ session'[t].opened => wanted'[t]
                            /\ ~session[t].isOpen /\ session'[t].isOpen => wanted'[t]
    BY <1>11, <1>13, <2>1 DEF Asked
  <2> QED
    BY <2>2 DEF Asked, Opens
<1> QED
  BY <1>12, <1>13

\* stop() over an active interface: every session over the object is closed.
LEMMA StopStep ==
  ASSUME Good, NEW s \in Sessions, StopActive(s)
  PROVE  Good' /\ (Asked => Asked' /\ Opens)
<1> DEFINE r == session[s]
           q == [r EXCEPT !.state = "Closing"]
           own == [session EXCEPT ![s] = q]
           c == Id(s)
           x == r.active
           f == c \in Stoppable
           S == IF f THEN own ELSE Queued(own, c, "NotSupported")
<1>1. /\ session \in [Sessions -> Records] /\ Fits(known, object, r)
      /\ wanted \in [Sessions -> BOOLEAN] /\ activating \in Configs \cup {None}
  BY DEF Good, Types
<1>2. [session EXCEPT ![s].state = "Closing"] = own
  BY <1>1
<1>3. /\ Single(r) /\ Has(object, x, Active)
      /\ session' = [t \in Sessions |-> ForcedSessionClose(S[t], x)]
      /\ activating' = IF f THEN None ELSE activating
      /\ wanted' = [t \in Sessions |->
                      wanted[t] /\ ~(session[t].exists /\ session[t].active = x)]
      /\ UNCHANGED manager
  BY <1>2 DEF StopActive, Plain, Flagged, Single
<1>4. c \in Configs
  <2>1. r.active \in Objects /\ c = r.active[1]
    BY <1>1, <1>3 DEF Fits, Owned, Id
  <2> QED
    BY <2>1 DEF Objects
<1>5. activating' \in Configs \cup {None}
  BY <1>1, <1>3
<1> HIDE DEF r, c
<1>6. /\ q \in Records /\ q.exists = r.exists /\ q.service = r.service /\ q.active = r.active
      /\ q.state = "Closing" /\ q.isOpen = r.isOpen /\ q.opened = r.opened
  BY <1>1 DEF Fits, Records, SessionStates
<1> HIDE DEF q
<1>7. Fits(known, object, q)
  BY <1>1, <1>3, <1>6 DEF Fits, Owned, Single, Follows
<1>8. /\ own \in [Sessions -> Records] /\ own[s] = q
      /\ \A t \in Sessions \ {s} : own[t] = session[t]
  BY <1>1, <1>6
<1> HIDE DEF own
<1>9. S \in [Sessions -> Records] /\ \A t \in Sessions : Requeued(own[t], S[t])
  <2>1. f \in BOOLEAN
    OBVIOUS
  <2> HIDE DEF f
  <2> QED
    BY <1>4, <1>8, <2>1, MaybeQueued
<1> HIDE DEF S, x
<1>10. \A t \in Sessions : Fits(known, object, own[t])
  BY <1>7, <1>8 DEF Good
<1>11. \A t \in Sessions : Fits(known, object, S[t])
  BY <1>9, <1>10, RequeuedFits
<1>12. \A t \in Sessions : /\ S[t].exists = session[t].exists /\ S[t].active = session[t].active
                           /\ S[t].opened = session[t].opened /\ S[t].isOpen = session[t].isOpen
  BY <1>6, <1>8, <1>9 DEF Requeued, r
<1>13. ASSUME NEW t \in Sessions
       PROVE  LET u == ForcedSessionClose(S[t], x)
              IN /\ Fits(known, object, u)
                 /\ u.opened => S[t].opened /\ ~(S[t].exists /\ S[t].active = x)
                 /\ u.isOpen => S[t].isOpen
  <2> DEFINE v == S[t]
             u == ForcedSessionClose(v, x)
  <2>1. v \in Records /\ Fits(known, object, v)
    BY <1>11 DEF Fits
  <2>2. CASE v.exists /\ v.active = x
    <3>1. u = [v EXCEPT !.opened = FALSE, !.isOpen = FALSE, !.waiting = FALSE]
      BY <2>2 DEF ForcedSessionClose
    <3> HIDE DEF u, v
    <3>2. /\ u \in Records /\ u.exists = v.exists /\ u.service = v.service
          /\ u.active = v.active /\ u.state = v.state /\ ~u.isOpen /\ ~u.opened
      BY <2>1, <3>1 DEF Records
    <3>3. Fits(known, object, u)
      BY <2>1, <3>2 DEF Fits, Owned, Single, Follows
    <3> QED
      BY <3>2, <3>3 DEF u, v
  <2>3. CASE ~(v.exists /\ v.active = x)
    <3>1. u = v
      BY <2>3 DEF ForcedSessionClose
    <3> QED
      BY <2>1, <2>3, <3>1
  <2> QED
    BY <2>2, <2>3
<1>14. /\ session' \in [Sessions -> Records]
       /\ \A t \in Sessions :
            /\ Fits(known, object, session'[t])
            /\ session'[t].opened =>
                 session[t].opened /\ ~(session[t].exists /\ session[t].active = x)
            /\ session'[t].isOpen => session[t].isOpen
  BY <1>3, <1>12, <1>13 DEF Fits
<1>15. /\ wanted' \in [Sessions -> BOOLEAN]
       /\ \A t \in Sessions :
            wanted'[t] <=> wanted[t] /\ ~(session[t].exists /\ session[t].active = x)
  BY <1>1, <1>3
<1>16. Good'
  BY <1>3, <1>5, <1>14, <1>15, SessionsStep DEF manager
<1>17. ASSUME Asked  PROVE Asked' /\ Opens
  <2>1. \A t \in Sessions : /\ session'[t].opened => wanted'[t]
                            /\ ~session[t].isOpen /\ session'[t].isOpen => wanted'[t]
    BY <1>14, <1>15, <1>17 DEF Asked
  <2> QED
    BY <2>1 DEF Asked, Opens
<1> QED
  BY <1>16, <1>17

\* An error is delivered. No session opens here: one that was to be opened over
\* an active interface is open already.
LEMMA DeliverStep ==
  ASSUME Good, NEW s \in Sessions, Deliver(s)
  PROVE  Good' /\ (Asked => Asked' /\ Opens)
<1> DEFINE p == session[s]
           e == Head(p.queue)
           tl == Tail(p.queue)
           r == [p EXCEPT !.queue = tl]
           mine == r.active # None /\ r.active[1] = e[1]
           z == ConnectionError(r, e[2])
           q == IF mine THEN z ELSE r
           b == wanted[s] /\ ~(mine /\ e[2] = "NotSupported")
<1>1. /\ p.queue # <<>> /\ session' = [session EXCEPT ![s] = q]
      /\ wanted' = [wanted EXCEPT ![s] = b] /\ UNCHANGED <<manager, activating>>
  BY DEF Deliver
<1>2. /\ Fits(known, object, p) /\ p \in Records
      /\ activating \in Configs \cup {None} /\ wanted[s] \in BOOLEAN
  BY DEF Good, Types
<1>3. tl \in Seq(Errors)
  <2>1. p.queue \in Seq(Errors)
    BY <1>2 DEF Records
  <2> HIDE DEF p
  <2> QED
    BY <1>1, <2>1, HeadTailProperties
<1>4. b \in BOOLEAN /\ (b <=> wanted[s] /\ ~(mine /\ e[2] = "NotSupported"))
  <2>1. mine \in BOOLEAN
    OBVIOUS
  <2> HIDE DEF mine
  <2> QED
    BY <1>2, <2>1
<1>5. Asked => (p.opened => wanted[s])
  BY DEF Asked
<1> HIDE DEF p, tl, e
<1>6. Requeued(p, r) /\ r.opened = p.opened /\ r.isOpen = p.isOpen
  BY <1>2, <1>3 DEF Requeued, Records
<1>7. Fits(known, object, r) /\ r \in Records
  BY <1>2, <1>6, RequeuedFits DEF Requeued
<1> HIDE DEF r
<1>8. q = IF mine THEN z ELSE r
  OBVIOUS
<1>9. mine => r.exists
  BY <1>7 DEF Fits, Owned
<1> DEFINE w == NetworkConfigurationsChanged(r, object, snap)
           op == w.opened /\ e[2] # "NotSupported"
<1>10. z = [w EXCEPT !.opened = op, !.waiting = FALSE]
  BY DEF ConnectionError
<1> HIDE DEF mine, z, q, b, w
<1>11. ASSUME mine
       PROVE  /\ Fits(known, object, z)
              /\ z.opened => r.opened /\ e[2] # "NotSupported"
              /\ z.isOpen => r.isOpen
  <2>1. Kin(r, w, snap.members) /\ Fits(known, object, w)
    BY <1>7, <1>9, <1>11, Looked DEF Fits, w
  <2>2. op \in BOOLEAN /\ w \in Records
    BY <2>1 DEF Fits
  <2>3. op => w.opened /\ e[2] # "NotSupported"
    OBVIOUS
  <2> HIDE DEF op
  <2>4. /\ z \in Records /\ z.exists = w.exists /\ z.service = w.service
        /\ z.active = w.active /\ z.state = w.state /\ z.isOpen = w.isOpen /\ z.opened = op
    BY <1>10, <2>2 DEF Records
  <2>5. Fits(known, object, z)
    BY <2>1, <2>3, <2>4 DEF Fits, Owned, Single, Follows
  <2>6. w.opened = r.opened
    BY <2>1 DEF Kin
  <2>7. ASSUME w.isOpen, ~r.isOpen  PROVE FALSE
    <3>1. Single(r) /\ r.active \in Objects
      BY <1>7, <2>1, <2>7 DEF Kin, Fits, Owned
    <3>2. w = FromActiveConfig(r, object)
      BY <3>1 DEF w, NetworkConfigurationsChanged, Single
    <3>3. object \in [Objects -> Contents] /\ ValidInTable(known, object)
      BY DEF Good, Types
    <3>4. r.opened /\ object[r.active].valid /\ Has(object, r.active, Active)
      BY <1>7, <2>7, <3>1, <3>2, <3>3, FromActive
    <3>5. known[r.active[1]] = r.active[2]
      BY <3>1, <3>3, <3>4 DEF ValidInTable
    <3> QED
      BY <1>7, <2>7, <3>1, <3>4, <3>5 DEF Fits, Follows
  <2> QED
    BY <2>3, <2>4, <2>5, <2>6, <2>7
<1>12. /\ Fits(known, object, q) /\ (q.isOpen => p.isOpen)
       /\ q.opened => p.opened /\ ~(mine /\ e[2] = "NotSupported")
  <2>1. CASE mine
    BY <1>6, <1>8, <1>11, <2>1
  <2>2. CASE ~mine
    BY <1>6, <1>7, <1>8, <2>2
  <2> QED
    BY <2>1, <2>2
<1>13. Asked => (q.opened => b)
  BY <1>4, <1>5, <1>12
<1> QED
  BY <1>1, <1>2, <1>4, <1>12, <1>13, OneStep DEF p

\* The manager after its first update, before there is a session.
LEMMA InitGood == Init => Good /\ Asked
<1> SUFFICES ASSUME Init  PROVE Good /\ Asked
  OBVIOUS
<1>1. PICK pp \in [Configs -> Shown \cup {Absent}] :
        /\ known = [c \in Configs |-> IF pp[c] = Absent THEN 0 ELSE 1]
        /\ object = [x \in Objects |->
             IF x[2] = 1 /\ pp[x[1]] # Absent THEN [valid |-> TRUE, flags |-> pp[x[1]]]
             ELSE Blank]
        /\ snap = Snapshot(known, object)
        /\ online = Cardinality({c \in Configs : pp[c] = Active})
        /\ toldOnline = (online > 0)
        /\ session = [s \in Sessions |-> Free]
        /\ activating = None
        /\ wanted = [s \in Sessions |-> FALSE]
  <2>1. \A p \in [Configs -> StateFlags \cup {Absent}] :
          (\A c \in Configs : p[c] \in Reported[c]) => p \in [Configs -> Shown \cup {Absent}]
    BY DEF Shown
  <2> QED
    BY <2>1 DEF Init
<1> DEFINE k == [c \in Configs |-> IF pp[c] = Absent THEN 0 ELSE 1]
           o == [x \in Objects |->
                   IF x[2] = 1 /\ pp[x[1]] # Absent THEN [valid |-> TRUE, flags |-> pp[x[1]]]
                   ELSE Blank]
<1>2. 1 \in 1 .. MaxGen /\ 1 \in 0 .. MaxGen /\ 0 \in 0 .. MaxGen
  BY BoundsAssumption
<1>3. k \in Tables
  BY <1>2 DEF Tables
<1>4. o \in [Objects -> Contents]
  <2> SUFFICES ASSUME NEW x \in Objects
               PROVE  (IF x[2] = 1 /\ pp[x[1]] # Absent
                       THEN [valid |-> TRUE, flags |-> pp[x[1]]] ELSE Blank) \in Contents
    OBVIOUS
  <2>1. x[1] \in Configs
    BY DEF Objects
  <2>2. Blank \in Contents
    BY FlagFacts DEF Blank, Contents
  <2>3. pp[x[1]] # Absent => pp[x[1]] \in Shown
    BY <2>1
  <2> QED
    BY <2>2, <2>3 DEF Contents
<1>5. \A c \in Configs : /\ <<c, 1>> \in Objects
                         /\ pp[c] = Absent => k[c] = 0
                         /\ pp[c] # Absent => k[c] = 1 /\ o[<<c, 1>>].valid
                                                /\ o[<<c, 1>>].flags = pp[c]
  BY <1>2 DEF Objects
<1>6. ValidInTable(k, o)
  <2>1. \A x \in Objects : o[x].valid => k[x[1]] = x[2]
    <3> SUFFICES ASSUME NEW x \in Objects, o[x].valid  PROVE k[x[1]] = x[2]
      OBVIOUS
    <3>1. x[1] \in Configs
      BY DEF Objects
    <3>2. x[2] = 1 /\ pp[x[1]] # Absent
      BY DEF Blank
    <3> QED
      BY <1>5, <3>1, <3>2
  <2> HIDE DEF k, o
  <2> QED
    BY <1>5, <2>1 DEF ValidInTable
<1> HIDE DEF k, o
<1>7. Up(k, o) = {c \in Configs : pp[c] = Active}
  <2>1. ASSUME NEW c \in Configs
        PROVE  (k[c] # 0 /\ o[<<c, k[c]>>].flags = Active) <=> pp[c] = Active
    <3>1. CASE pp[c] = Absent
      BY <1>5, <3>1, FlagFacts
    <3>2. CASE pp[c] # Absent
      <4>1. k[c] = 1 /\ o[<<c, 1>>].flags = pp[c]
        BY <1>5, <3>2
      <4> QED
        BY <4>1
    <3> QED
      BY <3>1, <3>2
  <2> QED
    BY <2>1 DEF Up
<1>8. Agrees(k, o, online, toldOnline)
  BY <1>1, <1>7 DEF Agrees
<1>9. snap = Snapshot(k, o) /\ snap \in Networks
  <2>1. snap = Snapshot(k, o)
    BY <1>1 DEF k, o
  <2> QED
    BY <1>3, <1>4, <2>1, SnapshotType
<1>10. online \in Int /\ toldOnline \in BOOLEAN
  <2>1. Cardinality(Up(k, o)) \in Nat
    BY UpFinite
  <2> QED
    BY <1>8, <2>1 DEF Agrees
<1>11. known = k /\ object = o
  BY <1>1 DEF k, o
<1> DEFINE q == Free
<1>12. Fits(k, o, q) /\ ~q.opened
  BY FreeFits DEF Free
<1> HIDE DEF q
<1>13. /\ session \in [Sessions -> Records] /\ \A s \in Sessions : session[s] = q
       /\ activating \in Configs \cup {None} /\ wanted \in [Sessions -> BOOLEAN]
  <2>1. session = [s \in Sessions |-> q]
    BY <1>1 DEF q
  <2>2. q \in Records
    BY <1>12 DEF Fits
  <2> QED
    BY <1>1, <2>1, <2>2
<1>14. Good
  BY <1>3, <1>4, <1>6, <1>8, <1>9, <1>10, <1>11, <1>12, <1>13 DEF Good, Types
<1>15. Asked
  BY <1>12, <1>13 DEF Asked
<1> QED
  BY <1>14, <1>15

\* Every step of the specification keeps the invariant.
LEMMA Step ==
  ASSUME Good, [Next]_vars
  PROVE  Good' /\ (Hasty = {} /\ Asked => Asked' /\ (Opens \/ UNCHANGED vars))
<1>1. CASE UpdateConfigurations
  BY <1>1, UpdateStep
<1>2. CASE PerformAsyncUpdate
  BY <1>2, AsyncStep
<1>3. CASE ActivationFails
  BY <1>3, FailsStep
<1>4. ASSUME NEW s \in Sessions, User(s)
      PROVE  Good' /\ (Hasty = {} /\ Asked => Asked' /\ Opens)
  <2>1. CASE Create(s)
    BY <2>1, CreateStep
  <2>2. CASE Destroy(s)
    BY <2>2, DestroyStep
  <2>3. CASE OpenUndiscovered(s)
    BY <2>3, UndiscoveredStep
  <2>4. CASE OpenActive(s)
    BY <2>4, ActiveStep
  <2>5. CASE OpenInactive(s)
    BY <2>5, InactiveOpened
  <2>6. CASE WaitForOpened(s)
    BY <2>6, WaitStep
  <2>7. CASE Close(s)
    BY <2>7, CloseStep
  <2>8. CASE StopActive(s)
    BY <2>8, StopStep
  <2>9. CASE StopInactive(s)
    BY <2>9, InactiveStep
  <2> QED
    BY <1>4, <2>1, <2>2, <2>3, <2>4, <2>5, <2>6, <2>7, <2>8, <2>9 DEF User
<1>5. ASSUME NEW s \in Sessions, Deliver(s)
      PROVE  Good' /\ (Asked => Asked' /\ Opens)
  BY <1>5, DeliverStep
<1>6. CASE UNCHANGED vars
  BY <1>6 DEF vars, manager, Good, Types, Asked
<1> QED
  BY <1>1, <1>2, <1>3, <1>4, <1>5, <1>6 DEF Next

\* The invariant holds in every state.
THEOREM Inductive == Spec => []Good
<1>1. Init => Good
  BY InitGood
<1>2. Good /\ [Next]_vars => Good'
  BY Step
<1> QED
  BY <1>1, <1>2, PTL DEF Spec

\* Types; the count of onlineConfigurations never exceeds the configurations
\* there are, through any sequence of updates.
THEOREM TypeCorrect == Spec => []TypeOK
<1>1. Good => TypeOK
  <2> SUFFICES ASSUME Good  PROVE TypeOK
    OBVIOUS
  <2>1. Types
    BY DEF Good
  <2>2. online \in 0 .. Cardinality(Configs)
    <3>1. online = Cardinality(Up(known, object))
      BY DEF Good, Agrees
    <3> QED
      BY <3>1, UpFinite
  <2>3. \A s \in Sessions :
          /\ session[s] \in Records
          /\ session[s].opened \/ session[s].isOpen => Plain(s)
    BY DEF Good, Fits, Owned, Single, Plain
  <2> QED
    BY <2>1, <2>2, <2>3, FlagFacts DEF Types, TypeOK, Records, Contents, Networks, Tables
<1>2. Spec => []Good
  BY Inductive
<1> QED
  BY <1>1, <1>2, PTL

\* Whatever the platform reports and in whatever order, a session is in the
\* state of its configuration and is open only while that is active, and as soon
\* as it is, when open() was called (qnetworksession_p.cpp:409-457).
THEOREM StateFollows == Spec => []StateFollowsConfiguration
<1>1. Good => StateFollowsConfiguration
  BY DEF Good, Fits, Follows, StateFollowsConfiguration, Plain, Single, InTable, Flagged
<1>2. Spec => []Good
  BY Inductive
<1> QED
  BY <1>1, <1>2, PTL

\* The service network is active only over a member that is.
LEMMA ServiceActive ==
  ASSUME NEW k, NEW o, \A x \in Table(k) : o[x].flags \in StateFlags,
         Active \subseteq Snapshot(k, o).flags
  PROVE  {x \in Table(k) : Has(o, x, Active)} # {}
<1> DEFINE members == {x \in Table(k) : Has(o, x, Defined)}
<1>1. "active" \in Defined \cup UNION {o[x].flags : x \in members}
  BY FlagFacts DEF Snapshot
<1>2. PICK x \in members : "active" \in o[x].flags
  BY <1>1, FlagFacts
<1> QED
  BY <1>2, FlagFacts DEF Has

\* The application was last told by onlineStateChanged() what isOnline() says,
\* except where every active configuration has the flag Undefined as well; then
\* isOnline() is true and nobody is told
\* (qnetworkconfigmanager_p.cpp:84-181 against qnetworkconfigmanager.cpp:302-308).
THEOREM OnlineRight == Spec => []OnlineAgrees
<1>1. Good => OnlineAgrees
  <2> SUFFICES ASSUME Good  PROVE OnlineAgrees
    OBVIOUS
  <2> DEFINE U == Up(known, object)
  <2>1. toldOnline = (Cardinality(U) > 0)
    BY DEF Good, Agrees
  <2>2. IsFiniteSet(U) /\ Cardinality(U) \in Nat
    BY UpFinite
  <2>3. (Cardinality(U) > 0) = (U # {})
    <3> HIDE DEF U
    <3>1. Cardinality(U) = 0 <=> U = {}
      BY <2>2, FS_EmptySet
    <3> QED
      BY <2>2, <3>1
  <2>4. toldOnline = (U # {})
    BY <2>1, <2>3
  <2>5. AllConfigurations(Active) \subseteq Table(known)
    BY DEF AllConfigurations
  <2>6. \A x \in Table(known) : object[x].flags \in StateFlags
    <3>1. object \in [Objects -> Contents] /\ Table(known) \subseteq Objects
      BY TableObjects DEF Good, Types
    <3> QED
      BY <3>1, FlagFacts DEF Contents
  <2>7. U # {} => AllConfigurations(Active) # {}
    <3> SUFFICES ASSUME NEW c \in U  PROVE AllConfigurations(Active) # {}
      OBVIOUS
    <3>1. <<c, known[c]>> \in Table(known) /\ object[<<c, known[c]>>].flags = Active
      BY DEF Up, Table
    <3>2. <<c, known[c]>> \in AllConfigurations(Active)
      BY <3>1 DEF AllConfigurations, Has
    <3> QED
      BY <3>2
  <2>8. Active \subseteq snap.flags => AllConfigurations(Active) # {}
    BY <2>6, ServiceActive DEF Good, AllConfigurations
  <2>9. ASSUME U = {}, NEW x \in AllConfigurations(Active)
        PROVE  Has(object, x, Undefined)
    <3>1. PICK c \in Configs : known[c] # 0 /\ x = <<c, known[c]>>
      BY DEF AllConfigurations, Table
    <3>2. object[x].flags # Active
      BY <2>9, <3>1 DEF Up
    <3>3. object[x].flags \in StateFlags /\ Active \subseteq object[x].flags
      BY <2>5, <2>6 DEF AllConfigurations, Has
    <3> QED
      BY <3>2, <3>3, FlagFacts DEF Has
  <2> HIDE DEF U
  <2> QED
    BY <2>4, <2>7, <2>8, <2>9 DEF OnlineAgrees, IsOnline
<1>2. Spec => []Good
  BY Inductive
<1> QED
  BY <1>1, <1>2, PTL

\* Where no access point can be active that nobody has used before, the
\* application is always told what isOnline() says, as the documentation of
\* onlineStateChanged() has it (qnetworkconfigmanager.cpp:119-132).
THEOREM OnlineTold ==
  ASSUME \A c \in Configs : Undefined \cup Active \notin Reported[c]
  PROVE  Spec => []OnlineIsTold
<1>1. Good /\ OnlineAgrees /\ IsOnline => toldOnline
  <2> SUFFICES ASSUME Good, OnlineAgrees, IsOnline, ~toldOnline  PROVE FALSE
    OBVIOUS
  <2>1. PICK x \in AllConfigurations(Active) : Has(object, x, Undefined)
    BY DEF OnlineAgrees
  <2>2. x \in Objects /\ Active \subseteq object[x].flags
    BY <2>1, TableObjects DEF AllConfigurations, Good, Types, Has
  <2>3. object[x].flags \in Shown
    BY <2>2 DEF Good, Types, Contents
  <2>4. object[x].flags = Undefined \cup Active
    BY <2>1, <2>2, <2>3, FlagFacts, UndefinedApart DEF Has
  <2>5. Undefined # Undefined \cup Active
    BY FlagFacts
  <2>6. Undefined \cup Active \notin {f \in StateFlags : \E c \in Configs : f \in Reported[c]}
    OBVIOUS
  <2> QED
    BY <2>3, <2>4, <2>5, <2>6 DEF Shown
<1>2. Good /\ OnlineAgrees => OnlineIsTold
  <2> SUFFICES ASSUME Good, OnlineAgrees  PROVE OnlineIsTold
    OBVIOUS
  <2>1. toldOnline = TRUE \/ toldOnline = FALSE
    BY DEF Good, Types
  <2>2. IsOnline = TRUE \/ IsOnline = FALSE
    BY Zenon DEF IsOnline
  <2>3. (toldOnline => IsOnline) /\ (IsOnline => toldOnline)
    BY <1>1, Zenon DEF OnlineAgrees
  <2>4. CASE IsOnline
    <3>1. IsOnline = TRUE /\ toldOnline = TRUE
      BY <2>1, <2>2, <2>3, <2>4
    <3> QED
      BY <3>1 DEF OnlineIsTold
  <2>5. CASE ~IsOnline
    <3>1. IsOnline = FALSE /\ toldOnline = FALSE
      BY <2>1, <2>2, <2>3, <2>5
    <3> QED
      BY <3>1 DEF OnlineIsTold
  <2> QED
    BY <2>4, <2>5
<1>3. Spec => []Good
  BY Inductive
<1>4. Spec => []OnlineAgrees
  BY OnlineRight
<1> QED
  BY <1>3, <1>4, <1>2, PTL

\* Where no user calls close() before a session is open, a session opens only for
\* an open() that nothing has ended since.
THEOREM OpensIfWanted ==
  ASSUME Hasty = {}
  PROVE  Spec => OpensOnlyIfWanted
<1>1. Init => Good /\ Asked
  BY InitGood
<1>2. Good /\ Asked /\ [Next]_vars => (Good /\ Asked)'
  BY Step
<1>3. Good /\ Asked /\ [Next]_vars =>
        [\A s \in Sessions : ~session[s].isOpen /\ session'[s].isOpen => wanted'[s]]_vars
  BY Step DEF Opens
<1> QED
  BY <1>1, <1>2, <1>3, PTL DEF Spec, OpensOnlyIfWanted
================================================================================
