----------------------- MODULE NmeaPositionSourceProofs -----------------------
(***************************************************************************)
(* Safety of the NMEA source for any device, any sentences and any         *)
(* intervals: the type invariant, the rules of the periodic updates and of *)
(* their time-out, the freshness of what a live source emits and the order *)
(* of a replay.                                                            *)
(*                                                                         *)
(* The inductive invariant has four parts.  Types; Flags, which says what  *)
(* each combination of timer and flags remembers of the intervals before;  *)
(* Fresh, which places the next sentence read behind the start; and        *)
(* Replay, which says that the sentence a replay has reached is a link of  *)
(* the chain it owes and that it has passed over no other.                 *)
(***************************************************************************)
EXTENDS NmeaPositionSource, SequenceTheorems, WellFoundedInduction, TLAPS

\* A set of naturals has a least element.
LEMMA LeastExists ==
  ASSUME NEW S \in SUBSET Nat, S # {}
  PROVE  \E k \in S : \A j \in S : k <= j
<1> DEFINE R == {x \in Nat \X Nat : x[1] < x[2]}
<1>1. OpToRel(<, Nat) = R
  BY Zenon DEF OpToRel
<1>2. IsWellFoundedOn(R, Nat)
  BY <1>1, NatLessThanWellFounded, Zenon
<1>3. PICK k \in S : \A j \in S : <<j, k>> \notin R
  <2> HIDE DEF R
  <2> QED
    BY <1>2, WFMin
<1>4. \A j \in S : j \in Nat /\ k \in Nat /\ ~(j < k)
  BY <1>3
<1> QED
  BY <1>4

\* What a device may deliver, in any mode.
Sentence == [date : BOOLEAN, time : Nat, coord : BOOLEAN, fix : BOOLEAN]

\* The type of every variable.
Booleans ==
  /\ ready \in BOOLEAN /\ deviceSet \in BOOLEAN /\ closed \in BOOLEAN
  /\ reader \in BOOLEAN /\ connected \in BOOLEAN /\ reading \in BOOLEAN
  /\ invokedStart \in BOOLEAN /\ updateTimer \in BOOLEAN /\ requestTimer \in BOOLEAN
  /\ noUpdateLastInterval \in BOOLEAN /\ updateTimeoutSent \in BOOLEAN
  /\ currentDate \in BOOLEAN /\ simTimer \in BOOLEAN /\ quiet \in BOOLEAN
Places ==
  /\ mode \in Modes
  /\ tape \in Seq(Sentence)
  /\ pos \in 0 .. Len(tape) /\ head \in 0 .. Len(tape)
  /\ pendingUpdate \in 0 .. Len(tape) /\ lastUpdate \in 0 .. Len(tape)
  /\ shown \in 0 .. Len(tape) /\ skippedTo \in 0 .. Len(tape)
  /\ updateInterval \in Nat /\ regular \in Nat /\ idleTicks \in 0 .. 2
  /\ replayed \in Seq(Nat)
Types == Booleans /\ Places

\* What ties the timers and the flags of the periodic updates.
Flags ==
  /\ updateTimer => invokedStart /\ reader /\ updateInterval > 0
  /\ pendingUpdate # None => updateTimer /\ ~noUpdateLastInterval
  /\ noUpdateLastInterval => updateTimer /\ regular = 0 /\ idleTicks > 0
  /\ updateTimer /\ ~noUpdateLastInterval => idleTicks = 0
  /\ updateTimer => regular <= 1
  /\ updateTimer /\ idleTicks = 2 => quiet
  /\ updateTimeoutSent = quiet

\* What is read after a start came after it.
Fresh ==
  /\ closed => ~ready
  /\ mode = "RealTime" =>
       /\ ~simTimer
       /\ updateTimer => pos >= skippedTo \/ (closed /\ ~reading)
       /\ pendingUpdate # None => pendingUpdate > skippedTo

\* A sentence that a replay may begin with.
Dated(k) == tape[k].date /\ tape[k].time # 0
\* Where a replay stands: at a link, with everything before it passed on and
\* nothing between it and the place of reading in time.
Replay ==
  mode = "Simulation" =>
  /\ simTimer => pos = head /\ head # None
  /\ head <= pos
  /\ head = None => /\ replayed = <<>>
                    /\ \A k \in 1 .. pos : ~Dated(k)
  /\ head # None => /\ head \in Chain
                    /\ \A k \in head + 1 .. pos : ~InTime(k, head)
  /\ ReplayInOrder

-----------------------------------------------------------------------------

\* What the configuration lets a device deliver is a sentence.
LEMMA SentenceType ==
  ASSUME mode \in Modes, NEW s \in Sentences[mode]
  PROVE  s \in Sentence
BY SentencesAssumption DEF Sentence

\* The initial state is well typed.
LEMMA InitTypes == Init => Types
<1> SUFFICES ASSUME Init PROVE Types
  OBVIOUS
<1>1. <<>> \in Seq(Sentence) /\ <<>> \in Seq(Nat) /\ Len(<<>>) = 0
  BY EmptySeq
<1>2. Booleans
  BY DEF Init, Booleans
<1>3. Places
  BY <1>1 DEF Init, Places, None
<1> QED
  BY <1>2, <1>3 DEF Types

\* The sentence that is due next lies behind the one before it.
LEMMA NextSentence ==
  ASSUME NEW prev, NEW from \in 0 .. Len(tape), tape \in Seq(Sentence),
         pos \in 0 .. Len(tape),
         closed \in BOOLEAN, reading \in BOOLEAN, ProcessNextSentence(prev, from)
  PROVE  \/ /\ \A k \in from + 1 .. End : ~InTime(k, prev)
            /\ pos' = End /\ head' = prev /\ simTimer' = FALSE
         \/ /\ pos' \in from + 1 .. End /\ InTime(pos', prev)
            /\ \A k \in from + 1 .. pos' - 1 : ~InTime(k, prev)
            /\ head' = pos' /\ simTimer' = TRUE
<1> DEFINE next == {k \in from + 1 .. End : InTime(k, prev)}
<1> DEFINE k0 == CHOOSE k \in next : \A j \in next : k <= j
<1>0. End \in 0 .. Len(tape) /\ Len(tape) \in Nat
  BY LenProperties DEF End
<1>1. CASE next = {}
  BY <1>1 DEF ProcessNextSentence
<1>2. CASE next # {}
  <2>1. next \in SUBSET Nat
    BY <1>0
  <2>2. k0 \in next /\ \A j \in next : k0 <= j
    <3> HIDE DEF next
    <3> QED
      BY <2>1, <1>2, LeastExists
  <2>3. pos' = k0 /\ head' = k0 /\ simTimer' = TRUE
    BY <1>2 DEF ProcessNextSentence
  <2> HIDE DEF k0
  <2> QED
    BY <2>2, <2>3, <1>0
<1> QED
  BY <1>1, <1>2

\* The groups of variables, taken apart.
LEMMA Unchanged ==
  /\ UNCHANGED device => /\ tape' = tape /\ pos' = pos /\ ready' = ready
                         /\ deviceSet' = deviceSet /\ closed' = closed
  /\ UNCHANGED setup => reader' = reader /\ connected' = connected
  /\ UNCHANGED user => invokedStart' = invokedStart /\ updateInterval' = updateInterval
  /\ UNCHANGED flags => /\ pendingUpdate' = pendingUpdate
                        /\ noUpdateLastInterval' = noUpdateLastInterval
                        /\ updateTimeoutSent' = updateTimeoutSent
  /\ UNCHANGED known => currentDate' = currentDate /\ lastUpdate' = lastUpdate
  /\ UNCHANGED sim => head' = head /\ simTimer' = simTimer /\ replayed' = replayed
  /\ UNCHANGED history => /\ shown' = shown /\ regular' = regular
                          /\ idleTicks' = idleTicks /\ quiet' = quiet
                          /\ skippedTo' = skippedTo
BY DEF device, setup, user, flags, known, sim, history

\* The update and its flags, whatever a sentence of the tape makes of them.
LEMMA NotifyTypes ==
  ASSUME Types, NEW i \in 0 .. Len(tape), Notify(i)
  PROVE  /\ requestTimer' \in BOOLEAN /\ noUpdateLastInterval' \in BOOLEAN
         /\ updateTimeoutSent' \in BOOLEAN /\ currentDate' \in BOOLEAN
         /\ quiet' \in BOOLEAN
         /\ pendingUpdate' \in 0 .. Len(tape) /\ lastUpdate' \in 0 .. Len(tape)
         /\ shown' \in 0 .. Len(tape)
         /\ regular' \in Nat /\ idleTicks' \in 0 .. 2
         /\ UNCHANGED <<mode, tape, ready, deviceSet, closed, reader, connected,
                        invokedStart, updateInterval, updateTimer, skippedTo>>
<1>0. Len(tape) \in Nat
  BY LenProperties DEF Types, Places
<1>1. UNCHANGED <<mode, tape, ready, deviceSet, closed, reader, connected,
                  invokedStart, updateInterval, updateTimer, skippedTo>>
  BY Unchanged DEF Notify
<1>2. currentDate' \in BOOLEAN
  BY DEF Notify
<1>3. /\ requestTimer' \in BOOLEAN /\ noUpdateLastInterval' \in BOOLEAN
      /\ updateTimeoutSent' \in BOOLEAN /\ quiet' \in BOOLEAN
  BY Unchanged DEF Notify, NotifyFix, EmitPeriodic, SilenceEnds, Types, Booleans
<1>4. /\ pendingUpdate' \in 0 .. Len(tape) /\ lastUpdate' \in 0 .. Len(tape)
      /\ shown' \in 0 .. Len(tape)
      /\ regular' \in Nat /\ idleTicks' \in 0 .. 2
  <2> USE DEF Types, Places
  <2>1. CASE ~ValidFix(i)
    BY <1>0, <2>1, Unchanged DEF Notify
  <2>2. CASE NotifyFix(i)
    <3>1. CASE requestTimer
      BY <1>0, <2>2, <3>1, Unchanged DEF NotifyFix
    <3>2. CASE ~requestTimer /\ Periodic /\ noUpdateLastInterval
      BY <1>0, <2>2, <3>2 DEF NotifyFix, EmitPeriodic, None
    <3>3. CASE ~requestTimer /\ Periodic /\ ~noUpdateLastInterval
      BY <1>0, <2>2, <3>3 DEF NotifyFix
    <3>4. CASE ~requestTimer /\ ~Periodic
      BY <1>0, <2>2, <3>4, Unchanged DEF NotifyFix
    <3> QED
      BY <3>1, <3>2, <3>3, <3>4
  <2> QED
    BY <2>1, <2>2 DEF Notify
<1> QED
  BY <1>1, <1>2, <1>3, <1>4

\* Passing on a sentence and reading on from it keeps the types.
LEMMA SimulateTypes ==
  ASSUME Types, NEW i \in 0 .. Len(tape), NEW from \in 0 .. Len(tape),
         SimulatePendingUpdate(i, from), reading' \in BOOLEAN
  PROVE  Types'
<1>0. Len(tape) \in Nat /\ End \in 0 .. Len(tape)
  BY LenProperties DEF Types, Places, End
<1>1. pos' \in 0 .. Len(tape) /\ head' \in 0 .. Len(tape) /\ simTimer' \in BOOLEAN
  <2>1. ProcessNextSentence(i, from)
    BY DEF SimulatePendingUpdate
  <2>2. CASE pos' = End /\ head' = i /\ simTimer' = FALSE
    BY <1>0, <2>2
  <2>3. CASE pos' \in from + 1 .. End /\ head' = pos' /\ simTimer' = TRUE
    BY <1>0, <2>3
  <2> QED
    BY <2>1, <2>2, <2>3, NextSentence DEF Types, Booleans, Places
<1>2. replayed' \in Seq(Nat)
  BY <1>0, AppendProperties DEF SimulatePendingUpdate, Types, Places
<1>3. CASE NoUpdate
  <2>1. Booleans'
    BY <1>1, <1>3, Unchanged DEF NoUpdate, Types, Booleans
  <2>2. Places'
    BY <1>1, <1>2, <1>3, Unchanged DEF NoUpdate, Types, Places
  <2> QED
    BY <2>1, <2>2 DEF Types
<1>4. CASE Notify(i)
  <2>1. Booleans'
    BY <1>1, <1>4, NotifyTypes DEF Types, Booleans
  <2>2. Places'
    BY <1>1, <1>2, <1>4, NotifyTypes DEF Types, Places
  <2> QED
    BY <2>1, <2>2 DEF Types
<1> QED
  BY <1>3, <1>4 DEF SimulatePendingUpdate

\* The first dated sentence among those not read.
LEMMA FirstDated ==
  ASSUME pos \in 0 .. Len(tape), Len(tape) \in Nat,
         {k \in pos + 1 .. Len(tape) : tape[k].date /\ tape[k].time # 0} # {}
  PROVE  LET dated == {k \in pos + 1 .. Len(tape) : tape[k].date /\ tape[k].time # 0}
             first == CHOOSE k \in dated : \A j \in dated : k <= j
         IN  /\ first \in dated /\ first \in 0 .. Len(tape)
             /\ \A j \in dated : first <= j
<1> DEFINE dated == {k \in pos + 1 .. Len(tape) : tape[k].date /\ tape[k].time # 0}
           first == CHOOSE k \in dated : \A j \in dated : k <= j
<1>1. dated \in SUBSET Nat /\ dated # {}
  OBVIOUS
<1>2. first \in dated /\ \A j \in dated : first <= j
  <2> HIDE DEF dated
  <2> QED
    BY <1>1, LeastExists
<1>3. first \in 0 .. Len(tape)
  BY <1>2
<1> QED
  BY <1>2, <1>3

\* ... and so does what the simulating reader does when there is data.
LEMMA ReadSimulatedTypes ==
  ASSUME Types, ReadSimulated
  PROVE  Types'
<1>0. Len(tape) \in Nat /\ End \in 0 .. Len(tape)
  BY LenProperties DEF Types, Places, End
<1> DEFINE dated == {k \in pos + 1 .. Len(tape) : tape[k].date /\ tape[k].time # 0}
           first == CHOOSE k \in dated : \A j \in dated : k <= j
<1>1. reading' \in BOOLEAN
  BY DEF ReadSimulated
<1>2. ASSUME NoUpdate, pos' \in 0 .. Len(tape), head' \in 0 .. Len(tape),
             simTimer' \in BOOLEAN, replayed' = replayed
      PROVE  Types'
  <2>1. Booleans'
    BY <1>1, <1>2, Unchanged DEF NoUpdate, Types, Booleans
  <2>2. Places'
    BY <1>2, Unchanged DEF NoUpdate, Types, Places
  <2> QED
    BY <2>1, <2>2 DEF Types
<1>3. CASE UNCHANGED <<pos, sim>> /\ NoUpdate
  BY <1>2, <1>3, Unchanged DEF Types, Places, Booleans
<1>4. CASE pos' = Len(tape) /\ UNCHANGED sim /\ NoUpdate
  <2>1. pos' \in 0 .. Len(tape)
    BY <1>0, <1>4
  <2> QED
    BY <1>2, <1>4, <2>1, Unchanged DEF Types, Places, Booleans
<1>5. CASE dated # {} /\ SimulatePendingUpdate(first, first)
  <2>1. first \in 0 .. Len(tape)
    BY <1>0, <1>5, FirstDated DEF Types, Places
  <2> HIDE DEF first
  <2> QED
    BY <1>1, <1>5, <2>1, SimulateTypes
<1>6. CASE ProcessNextSentence(head, pos) /\ UNCHANGED replayed /\ NoUpdate
  <2>1. CASE pos' = End /\ head' = head /\ simTimer' = FALSE
    BY <1>0, <1>2, <1>6, <2>1 DEF Types, Places
  <2>2. CASE pos' \in pos + 1 .. End /\ head' = pos' /\ simTimer' = TRUE
    <3>1. pos' \in 0 .. Len(tape) /\ head' \in 0 .. Len(tape)
      BY <1>0, <2>2 DEF Types, Places
    <3> QED
      BY <1>2, <1>6, <2>2, <3>1
  <2> QED
    BY <1>6, <2>1, <2>2, NextSentence DEF Types, Booleans, Places
<1> QED
  BY <1>3, <1>4, <1>5, <1>6 DEF ReadSimulated

\* startUpdates() keeps the types; Skip stays on the tape.
LEMMA StartedTypes ==
  ASSUME Types, NEW n \in Nat, Started(n)
  PROVE  Types'
<1>0. Len(tape) \in Nat /\ pos \in Nat /\ End \in pos .. Len(tape)
  BY LenProperties DEF Types, Places, End
<1>1. reader' \in BOOLEAN /\ connected' \in BOOLEAN /\ reading' \in BOOLEAN
  BY Unchanged DEF Started, Prepare, Types, Booleans
<1>2. pos' \in 0 .. Len(tape)
  BY <1>0, Unchanged DEF Started, Skip, Types, Places
<1>3. Booleans'
  BY <1>1, Unchanged DEF Started, Clear, Types, Booleans
<1>4. Places'
  BY <1>0, <1>2, Unchanged DEF Started, Clear, Types, Places, None
<1> QED
  BY <1>3, <1>4 DEF Types

\* The type invariant is inductive.
LEMMA TypesStep == Types /\ [Next]_vars => Types'
<1> SUFFICES ASSUME Types, [Next]_vars PROVE Types'
  OBVIOUS
<1> USE DEF Types
<1>0. Len(tape) \in Nat
  BY LenProperties DEF Places
<1>1. CASE ReadLine
  <2>1. pos + 1 \in 0 .. Len(tape) /\ Notify(pos + 1)
    BY <1>0, <1>1 DEF ReadLine, Places
  <2>2. Booleans'
    BY <1>1, <2>1, NotifyTypes, Unchanged DEF ReadLine, Booleans
  <2>3. Places'
    BY <1>1, <2>1, NotifyTypes, Unchanged DEF ReadLine, Places
  <2> QED
    BY <2>2, <2>3
<1>2. CASE ReadDone
  <2> reading' \in BOOLEAN
    BY <1>2 DEF ReadDone
  <2>1. Booleans'
    BY <1>2, Unchanged DEF ReadDone, NoUpdate, Booleans
  <2>2. Places'
    BY <1>2, Unchanged DEF ReadDone, NoUpdate, Places
  <2> QED
    BY <2>1, <2>2
<1>3. CASE ReadSimulated
  BY <1>3, ReadSimulatedTypes
<1>4. CASE SimulatedTime
  <2>1. reading' \in BOOLEAN
    BY <1>4 DEF SimulatedTime, Booleans
  <2> QED
    BY <1>4, <2>1, SimulateTypes DEF SimulatedTime, Places
<1>5. ASSUME NEW s \in Sentences[mode], Deliver(s) PROVE Types'
  <2>1. tape' \in Seq(Sentence) /\ Len(tape') = Len(tape) + 1
    BY <1>5, SentenceType, AppendProperties DEF Deliver, Places
  <2>2. Booleans'
    BY <1>5, Unchanged DEF Deliver, Booleans
  <2>3. Places'
    BY <1>0, <1>5, <2>1, Unchanged DEF Deliver, Places
  <2> QED
    BY <2>2, <2>3
<1>6. CASE ReadyRead
  <2>1. Booleans'
    BY <1>6, Unchanged DEF ReadyRead, Booleans
  <2>2. Places'
    BY <1>0, <1>6, Unchanged DEF ReadyRead, Places
  <2> QED
    BY <2>1, <2>2
<1>7. CASE Close
  <2> reading' \in BOOLEAN
    BY <1>7 DEF Close
  <2>1. Booleans'
    BY <1>7, Unchanged DEF Close, Booleans
  <2>2. Places'
    BY <1>0, <1>7, Unchanged DEF Close, Places
  <2> QED
    BY <2>1, <2>2
<1>8. CASE Tick
  <2>1. Booleans'
    BY <1>8, Unchanged DEF Tick, EmitPeriodic, SilenceEnds, Booleans
  <2>2. Places'
    BY <1>0, <1>8, Unchanged DEF Tick, EmitPeriodic, SilenceEnds, None, Places
  <2> QED
    BY <2>1, <2>2
<1>9. CASE RequestTimeout
  <2>1. Booleans'
    BY <1>9, Unchanged DEF RequestTimeout, Booleans
  <2>2. Places'
    BY <1>0, <1>9, Unchanged DEF RequestTimeout, Places
  <2> QED
    BY <2>1, <2>2
<1>10. CASE SetDevice
  <2>1. Booleans'
    BY <1>10, Unchanged DEF SetDevice, Booleans
  <2>2. Places'
    BY <1>0, <1>10, Unchanged DEF SetDevice, Places
  <2> QED
    BY <2>1, <2>2
<1>11. CASE StartUpdates
  BY <1>11, StartedTypes DEF StartUpdates, Places
<1>12. CASE StopUpdates
  <2>1. Booleans'
    BY <1>12, Unchanged DEF StopUpdates, Clear, Booleans
  <2>2. Places'
    BY <1>0, <1>12, Unchanged DEF StopUpdates, Clear, None, Places
  <2> QED
    BY <2>1, <2>2
<1>13. CASE RequestUpdate
  <2>1. Booleans'
    BY <1>13, Unchanged DEF RequestUpdate, Prepare, Booleans
  <2>2. Places'
    BY <1>0, <1>13, Unchanged DEF RequestUpdate, Prepare, Places
  <2> QED
    BY <2>1, <2>2
<1>14. ASSUME NEW n \in Intervals, SetUpdateInterval(n) PROVE Types'
  <2>1. n \in Nat
    BY IntervalsAssumption
  <2>2. CASE Started(n)
    BY <2>1, <2>2, StartedTypes
  <2>3. CASE ~invokedStart
    <3>1. Booleans'
      BY <1>14, <2>3, Unchanged DEF SetUpdateInterval, Booleans
    <3>2. Places'
      BY <1>14, <2>1, <2>3, Unchanged DEF SetUpdateInterval, Places
    <3> QED
      BY <3>1, <3>2
  <2> QED
    BY <1>14, <2>2, <2>3 DEF SetUpdateInterval
<1>15. CASE UNCHANGED vars
  <2>1. Booleans'
    BY <1>15, Unchanged DEF vars, Booleans
  <2>2. Places'
    BY <1>0, <1>15, Unchanged DEF vars, Places
  <2> QED
    BY <2>1, <2>2
<1> QED
  BY <1>1, <1>2, <1>3, <1>4, <1>5, <1>6, <1>7, <1>8, <1>9, <1>10, <1>11, <1>12,
     <1>13, <1>14, <1>15 DEF Next
-----------------------------------------------------------------------------
\* A step that leaves the periodic updates alone, and the reader if there is one.
Idle ==
  /\ UNCHANGED <<invokedStart, updateInterval, updateTimer, pendingUpdate,
                 noUpdateLastInterval, updateTimeoutSent, regular, idleTicks, quiet>>
  /\ reader => reader'

\* Such a step keeps the flags tied.
LEMMA IdleFlags == Flags /\ Idle => Flags'
BY DEF Flags, Idle

\* emitPendingUpdate() begins to count anew.
LEMMA EmitFlags ==
  ASSUME Flags, NEW i, NEW since, since = 0, EmitPeriodic(i, since), updateTimer,
         UNCHANGED <<invokedStart, updateInterval, updateTimer, reader>>
  PROVE  Flags' /\ regular' = 1
<1>1. updateTimeoutSent' = FALSE /\ quiet' = FALSE
  BY DEF EmitPeriodic, SilenceEnds
<1>2. updateTimeoutSent' = quiet'
  BY <1>1
<1>3. /\ ~noUpdateLastInterval'
      /\ pendingUpdate' = None /\ regular' = 1 /\ idleTicks' = 0
  BY DEF EmitPeriodic, SilenceEnds
<1> QED
  BY <1>2, <1>3 DEF Flags

\* notifyNewUpdate() keeps the flags tied, whichever branch it takes.
LEMMA NotifyFlags ==
  ASSUME Types, Flags, NEW i \in 0 .. Len(tape), Notify(i)
  PROVE  Flags'
<1>1. UNCHANGED <<invokedStart, updateInterval, updateTimer, reader>>
  BY Unchanged DEF Notify
<1>2. CASE Idle
  BY <1>2, IdleFlags
<1>3. CASE ~requestTimer /\ Periodic /\ ~noUpdateLastInterval /\ NotifyFix(i)
  <2>1. /\ noUpdateLastInterval' = noUpdateLastInterval
        /\ updateTimeoutSent' = updateTimeoutSent
        /\ regular' = regular /\ idleTicks' = idleTicks /\ quiet' = quiet
    BY <1>3 DEF NotifyFix, Periodic
  <2>2. /\ invokedStart' = invokedStart /\ updateInterval' = updateInterval
        /\ updateTimer' = updateTimer /\ reader' = reader /\ updateTimer
    BY <1>1, <1>3 DEF Periodic
  <2> QED
    BY <1>3, <2>1, <2>2 DEF Flags
<1>4. CASE noUpdateLastInterval /\ EmitPeriodic(i, regular)
  BY <1>1, <1>4, EmitFlags DEF Flags
<1>5. Idle \/ NotifyFix(i)
  BY <1>1, Unchanged DEF Notify, Idle
<1> QED
  BY <1>1, <1>2, <1>3, <1>4, <1>5, Unchanged DEF NotifyFix, Idle

\* ... also when the simulating reader calls it.
LEMMA SimulateFlags ==
  ASSUME Types, Flags, NEW i \in 0 .. Len(tape), NEW from, SimulatePendingUpdate(i, from)
  PROVE  Flags'
<1>1. NoUpdate => Idle
  BY Unchanged DEF NoUpdate, Idle
<1> QED
  BY <1>1, IdleFlags, NotifyFlags DEF SimulatePendingUpdate

\* startUpdates() clears what the flags remember.
LEMMA StartedFlags ==
  ASSUME Types, Flags, NEW n \in Nat, Started(n)
  PROVE  Flags'
<1>1. /\ ~noUpdateLastInterval' /\ pendingUpdate' = None /\ regular' = 0
      /\ idleTicks' = 0 /\ updateInterval' = n /\ invokedStart'
      /\ UNCHANGED <<quiet, updateTimeoutSent>>
      /\ updateTimer' => deviceSet /\ n > 0
      /\ deviceSet => reader'
  BY Unchanged DEF Started, Clear, Prepare
<1> QED
  BY <1>1 DEF Flags

\* The end of an interval: the second silent one is reported, the first is not,
\* and an update ends the silence.
LEMMA TickFlags ==
  ASSUME Types, Flags, Tick
  PROVE  /\ Flags'
         /\ (updateTimeoutSent' # updateTimeoutSent) \/ (quiet' # quiet) =>
              /\ quiet' => idleTicks' = 2
              /\ ~quiet' => regular' = 1
<1> UNCHANGED <<invokedStart, updateInterval, updateTimer, reader>> /\ updateTimer
  BY Unchanged DEF Tick
<1>1. CASE pendingUpdate # None /\ EmitPeriodic(pendingUpdate, 0)
  <2>1. Flags' /\ regular' = 1
    BY <1>1, EmitFlags
  <2>2. ~quiet'
    BY <1>1 DEF EmitPeriodic
  <2> QED
    BY <2>1, <2>2
<1>2. CASE pendingUpdate = None
  <2>1. /\ noUpdateLastInterval' /\ regular' = 0 /\ pendingUpdate' = None
        /\ idleTicks' = IF idleTicks = 2 THEN 2 ELSE idleTicks + 1
        /\ updateTimeoutSent' <=> updateTimeoutSent \/ noUpdateLastInterval
        /\ quiet' <=> quiet \/ (noUpdateLastInterval /\ ~updateTimeoutSent)
    BY <1>2 DEF Tick
  <2>2. updateTimeoutSent' = quiet'
    <3>1. updateTimeoutSent' \in BOOLEAN /\ quiet' \in BOOLEAN
      BY <1>2 DEF Tick
    <3> QED
      BY <2>1, <3>1 DEF Flags
  <2>3. noUpdateLastInterval => idleTicks' = 2 /\ quiet'
    BY <2>1 DEF Flags, Types, Places
  <2>4. ~noUpdateLastInterval => /\ idleTicks' = 1
                                 /\ quiet' = quiet
                                 /\ updateTimeoutSent' = updateTimeoutSent
    BY <2>1, TypesStep DEF Flags, Types, Places, Booleans, Next
  <2> QED
    BY <2>1, <2>2, <2>3, <2>4 DEF Flags
<1> QED
  BY <1>1, <1>2 DEF Tick

\* The ties of the flags are inductive.
LEMMA FlagsStep == Types /\ Flags /\ [Next]_vars => Flags'
<1> SUFFICES ASSUME Types, Flags, [Next]_vars PROVE Flags'
  OBVIOUS
<1>0. Len(tape) \in Nat /\ pos \in 0 .. Len(tape) /\ head \in 0 .. Len(tape)
  BY LenProperties DEF Types, Places
<1>1. CASE ReadLine
  BY <1>0, <1>1, NotifyFlags DEF ReadLine
<1>2. CASE ReadSimulated
  <2> DEFINE dated == {k \in pos + 1 .. Len(tape) : tape[k].date /\ tape[k].time # 0}
             first == CHOOSE k \in dated : \A j \in dated : k <= j
  <2>1. NoUpdate => Idle
    BY Unchanged DEF NoUpdate, Idle
  <2>2. CASE dated # {} /\ SimulatePendingUpdate(first, first)
    <3>1. first \in 0 .. Len(tape)
      BY <1>0, <2>2, FirstDated
    <3> HIDE DEF first
    <3> QED
      BY <2>2, <3>1, SimulateFlags
  <2> QED
    BY <1>2, <2>1, <2>2, IdleFlags DEF ReadSimulated
<1>3. CASE SimulatedTime
  BY <1>0, <1>3, SimulateFlags DEF SimulatedTime
<1>4. CASE Tick
  BY <1>4, TickFlags
<1>5. CASE StartUpdates
  BY <1>5, StartedFlags DEF StartUpdates, Types, Places
<1>6. CASE StopUpdates
  BY <1>6, Unchanged DEF StopUpdates, Clear, Flags, None
<1>7. ASSUME NEW n \in Intervals, SetUpdateInterval(n) PROVE Flags'
  <2>1. n \in Nat
    BY IntervalsAssumption
  <2>2. CASE ~invokedStart
    BY <1>7, <2>1, <2>2, Unchanged DEF SetUpdateInterval, Flags
  <2> QED
    BY <1>7, <2>1, <2>2, StartedFlags DEF SetUpdateInterval
<1>8. CASE ReadDone
  BY <1>8, IdleFlags, Unchanged DEF ReadDone, NoUpdate, Idle
<1>9. ASSUME NEW s, Deliver(s) PROVE Flags'
  BY <1>9, IdleFlags, Unchanged DEF Deliver, Idle
<1>10. CASE ReadyRead \/ Close \/ SetDevice
  BY <1>10, IdleFlags, Unchanged DEF ReadyRead, Close, SetDevice, Idle
<1>11. CASE RequestTimeout
  BY <1>11, IdleFlags, Unchanged DEF RequestTimeout, Idle
<1>12. CASE RequestUpdate
  BY <1>12, IdleFlags, Unchanged DEF RequestUpdate, Prepare, Idle
<1>13. CASE UNCHANGED vars
  BY <1>13, IdleFlags, Unchanged DEF vars, Idle
<1> QED
  BY <1>1, <1>2, <1>3, <1>4, <1>5, <1>6, <1>7, <1>8, <1>9, <1>10, <1>11, <1>12,
     <1>13 DEF Next
-----------------------------------------------------------------------------
\* A live source reads behind its start: a sequential device is skipped to its
\* end, and a closed one gives nothing more.
LEMMA FreshStep == Types /\ Flags /\ Fresh /\ Sequential /\ [Next]_vars => Fresh'
<1> SUFFICES ASSUME Types, Flags, Fresh, Sequential, [Next]_vars PROVE Fresh'
  OBVIOUS
<1>0. Len(tape) \in Nat /\ pos \in 0 .. Len(tape) /\ skippedTo \in 0 .. Len(tape)
  BY LenProperties DEF Types, Places
<1>1. CASE ReadLine
  BY <1>0, <1>1, Unchanged DEF ReadLine, Notify, NotifyFix, EmitPeriodic, Fresh,
     Periodic, None
<1>2. CASE ReadDone
  BY <1>0, <1>2, Unchanged DEF ReadDone, NoUpdate, Fresh
<1>3. CASE mode = "Simulation" /\ (ReadSimulated \/ SimulatedTime)
  BY <1>3, Unchanged DEF ReadSimulated, SimulatedTime, SimulatePendingUpdate, Notify,
     NoUpdate, Fresh
<1>4. CASE mode = "RealTime" /\ (ReadSimulated \/ SimulatedTime)
  BY <1>4 DEF ReadSimulated, SimulatedTime, Fresh
<1>5. ASSUME NEW s, Deliver(s) PROVE Fresh'
  BY <1>5, Unchanged DEF Deliver, Fresh
<1>6. CASE ReadyRead
  BY <1>6, Unchanged DEF ReadyRead, Fresh
<1>7. CASE Close
  BY <1>0, <1>7, Unchanged DEF Close, Fresh
<1>8. CASE Tick
  <2>1. /\ UNCHANGED <<mode, pos, ready, closed, reading, simTimer, updateTimer,
                       skippedTo>>
        /\ (pendingUpdate' = pendingUpdate) \/ (pendingUpdate' = None)
    BY <1>8, Unchanged DEF Tick, EmitPeriodic
  <2>2. CASE pendingUpdate' = pendingUpdate
    BY <2>1, <2>2 DEF Fresh
  <2>3. CASE pendingUpdate' = None
    BY <2>1, <2>3 DEF Fresh
  <2> QED
    BY <2>1, <2>2, <2>3
<1>9. CASE RequestTimeout
  BY <1>9, Unchanged DEF RequestTimeout, Fresh
<1>10. CASE SetDevice
  BY <1>10, Unchanged DEF SetDevice, Fresh
<1>11. ASSUME NEW n, Started(n), ~reading PROVE Fresh'
  <2>1. /\ closed' = closed /\ ready' = ready /\ mode' = mode /\ simTimer' = simTimer
        /\ pendingUpdate' = None /\ skippedTo' = Len(tape)
    BY <1>11, Unchanged DEF Started, Clear
  <2>2. ASSUME mode = "RealTime", updateTimer'
        PROVE  (pos' >= skippedTo') \/ (closed' /\ ~reading')
    <3>1. Skip /\ ~reading'
      BY <1>11, <2>2 DEF Started, Prepare
    <3>2. CASE closed
      BY <2>1, <3>1, <3>2
    <3>3. CASE ~closed
      BY <1>0, <2>1, <2>2, <3>1, <3>3 DEF Skip, End
    <3> QED
      BY <3>2, <3>3
  <2> QED
    BY <2>1, <2>2 DEF Fresh
<1>12. CASE StartUpdates
  BY <1>11, <1>12 DEF StartUpdates
<1>13. CASE StopUpdates
  BY <1>13, Unchanged DEF StopUpdates, Clear, Fresh
<1>14. ASSUME NEW n \in Intervals, SetUpdateInterval(n) PROVE Fresh'
  <2>1. CASE ~invokedStart
    BY <1>14, <2>1, Unchanged DEF SetUpdateInterval, Fresh
  <2> QED
    BY <1>11, <1>14, <2>1 DEF SetUpdateInterval
<1>15. CASE RequestUpdate
  <2>1. UNCHANGED <<mode, pos, ready, closed, simTimer, updateTimer, pendingUpdate,
                    skippedTo>>
    BY <1>15, Unchanged DEF RequestUpdate
  <2>2. mode = "RealTime" => ~reading'
    BY <1>15 DEF RequestUpdate, Prepare
  <2> QED
    BY <2>1, <2>2 DEF Fresh
<1>16. CASE UNCHANGED vars
  BY <1>16, Unchanged DEF vars, Fresh
<1>17. mode \in {"RealTime", "Simulation"}
  BY ModesAssumption DEF Types, Places
<1> QED
  BY <1>1, <1>2, <1>3, <1>4, <1>5, <1>6, <1>7, <1>8, <1>9, <1>10, <1>12, <1>13,
     <1>14, <1>15, <1>16, <1>17 DEF Next
-----------------------------------------------------------------------------
\* The sentences have a time of day, which may be 0.
LEMMA Times ==
  ASSUME Types
  PROVE  Len(tape) \in Nat /\ \A k \in 1 .. Len(tape) : tape[k].time \in Nat
<1>1. tape \in Seq(Sentence) /\ Len(tape) \in Nat
  BY LenProperties DEF Types, Places
<1>2. ASSUME NEW k \in 1 .. Len(tape) PROVE tape[k].time \in Nat
  <2>1. tape[k] \in Sentence
    BY <1>1, ElementOfSeq
  <2> QED
    BY <2>1 DEF Sentence
<1> QED
  BY <1>1, <1>2

\* A later link of the chain is in time for an earlier one.
LEMMA ChainInTime ==
  ASSUME Types, NEW h \in Chain, NEW k \in Chain, h < k
  PROVE  InTime(k, h)
<1>1. h \in 1 .. Len(tape) /\ k \in 1 .. Len(tape) /\ tape[k].time # 0
  BY DEF Chain
<1>2. \E j \in 1 .. h : tape[j].date /\ tape[j].time # 0
  BY DEF Chain
<1>3. tape[h].time <= tape[k].time
  BY <1>1, <1>2 DEF Chain
<1> QED
  BY <1>1, <1>3, Times DEF InTime

\* The sentence after a link that is the first in time for it is the next link.
LEMMA NextLink ==
  ASSUME Types, NEW h \in Chain, NEW k \in h + 1 .. Len(tape), InTime(k, h),
         \A j \in h + 1 .. k - 1 : ~InTime(j, h)
  PROVE  k \in Chain
<1>0. h \in 1 .. Len(tape) /\ k \in 1 .. Len(tape) /\ Len(tape) \in Nat
  BY Times DEF Chain
<1>1. tape[k].time # 0 /\ tape[k].time >= tape[h].time
  BY DEF InTime
<1>2. \E j \in 1 .. k : tape[j].date /\ tape[j].time # 0
  BY <1>0 DEF Chain
<1>3. ASSUME NEW j \in 1 .. k
      PROVE  \/ tape[j].time <= tape[k].time
             \/ \A i \in 1 .. j : ~(tape[i].date /\ tape[i].time # 0)
  <2>0. tape[j].time \in Nat /\ tape[h].time \in Nat /\ tape[k].time \in Nat
    BY <1>0, Times
  <2>1. CASE j <= h
    <3>1. \/ tape[j].time <= tape[h].time
          \/ \A i \in 1 .. j : ~(tape[i].date /\ tape[i].time # 0)
      BY <1>0, <2>1 DEF Chain
    <3>2. CASE tape[j].time <= tape[h].time
      BY <1>1, <2>0, <3>2
    <3>3. CASE \A i \in 1 .. j : ~(tape[i].date /\ tape[i].time # 0)
      BY <3>3
    <3> QED
      BY <3>1, <3>2, <3>3
  <2>2. CASE h < j /\ j < k
    <3>1. ~InTime(j, h)
      BY <1>0, <2>2
    <3> QED
      BY <1>1, <2>0, <3>1 DEF InTime
  <2>3. CASE j = k
    BY <2>0, <2>3
  <2> QED
    BY <1>0, <2>1, <2>2, <2>3
<1> QED
  BY <1>0, <1>1, <1>2, <1>3 DEF Chain

\* The first dated sentence begins the chain.
LEMMA FirstLink ==
  ASSUME Types, NEW f \in 1 .. Len(tape), Dated(f),
         \A j \in 1 .. f - 1 : ~Dated(j)
  PROVE  f \in Chain /\ \A k \in Chain : f <= k
<1>0. Len(tape) \in Nat /\ \A k \in 1 .. Len(tape) : tape[k].time \in Nat
  BY Times
<1>1. ASSUME NEW j \in 1 .. f
      PROVE  \/ tape[j].time <= tape[f].time
             \/ \A i \in 1 .. j : ~(tape[i].date /\ tape[i].time # 0)
  <2>1. CASE j = f
    BY <1>0, <2>1
  <2>2. CASE j < f
    BY <2>2 DEF Dated
  <2> QED
    BY <2>1, <2>2
<1>2. f \in Chain
  BY <1>1 DEF Chain, Dated
<1>3. ASSUME NEW k \in Chain, k < f PROVE FALSE
  BY <1>3 DEF Chain, Dated
<1> QED
  BY <1>2, <1>3 DEF Chain

\* Between a link and the first sentence in time for it there is no other link.
LEMMA LinksBetween ==
  ASSUME Types, NEW h \in Chain, NEW p \in h + 1 .. Len(tape), InTime(p, h),
         \A j \in h + 1 .. p - 1 : ~InTime(j, h)
  PROVE  p \in Chain /\ {k \in Chain : k < p} = {k \in Chain : k <= h}
<1>0. Len(tape) \in Nat /\ \A k \in Chain : k \in 1 .. Len(tape)
  BY Times DEF Chain
<1>1. p \in Chain
  BY NextLink
<1>2. ASSUME NEW k \in Chain, k < p, ~(k <= h) PROVE FALSE
  <2>1. k \in h + 1 .. p - 1
    BY <1>0, <1>2
  <2>2. InTime(k, h)
    BY <1>0, <1>2, ChainInTime
  <2> QED
    BY <2>1, <2>2
<1>3. \A k \in Chain : k <= h => k < p
  BY <1>0
<1> QED
  BY <1>1, <1>2, <1>3

\* Reading on from a link, everything up to which has been passed on.
LEMMA ReadOn ==
  ASSUME Types, mode = "Simulation", NEW h \in Chain, NEW from \in h .. Len(tape),
         End >= from, \A k \in h + 1 .. from : ~InTime(k, h),
         ProcessNextSentence(h, from), UNCHANGED <<mode, tape>>,
         \A i \in 1 .. Len(replayed') - 1 : replayed'[i] < replayed'[i + 1],
         {replayed'[i] : i \in 1 .. Len(replayed')} = {k \in Chain : k <= h}
  PROVE  Replay'
<1>0. /\ Len(tape) \in Nat /\ h \in 1 .. Len(tape) /\ from \in 0 .. Len(tape)
      /\ End \in from .. Len(tape) /\ \A k \in Chain : k \in 1 .. Len(tape)
  BY Times DEF Chain, End, Types, Places
<1>1. Chain' = Chain /\ mode' = "Simulation"
  BY DEF Chain
<1>2. \A k, i : InTime(k, i)' <=> InTime(k, i)
  BY DEF InTime
<1>4. CASE /\ \A k \in from + 1 .. End : ~InTime(k, h)
           /\ pos' = End /\ head' = h /\ simTimer' = FALSE
  <2>1. \A k \in h + 1 .. pos' : ~InTime(k, h)
    BY <1>0, <1>4
  <2>2. head' <= pos' /\ head' # None
    BY <1>0, <1>4 DEF None
  <2>3. {k \in Chain' : k <= head' /\ ~(k = head' /\ simTimer')} = {k \in Chain : k <= h}
    BY <1>1, <1>4
  <2>4. ReplayInOrder'
    BY <2>3 DEF ReplayInOrder
  <2> QED
    BY <1>1, <1>2, <1>4, <2>1, <2>2, <2>4 DEF Replay
<1>5. CASE /\ pos' \in from + 1 .. End /\ InTime(pos', h)
           /\ \A k \in from + 1 .. pos' - 1 : ~InTime(k, h)
           /\ head' = pos' /\ simTimer' = TRUE
  <2>1. PICK p : p = pos'
    OBVIOUS
  <2>2. /\ p \in from + 1 .. End /\ InTime(p, h)
        /\ \A k \in from + 1 .. p - 1 : ~InTime(k, h)
    BY <1>5, <2>1
  <2>3. p \in h + 1 .. Len(tape)
    BY <1>0, <2>2
  <2>4. ASSUME NEW k \in h + 1 .. p - 1 PROVE ~InTime(k, h)
    <3>1. (k \in h + 1 .. from) \/ (k \in from + 1 .. p - 1)
      BY <1>0, <2>3
    <3> QED
      BY <2>2, <3>1
  <2>5. p \in Chain /\ {k \in Chain : k < p} = {k \in Chain : k <= h}
    BY <2>2, <2>3, <2>4, LinksBetween
  <2>6. {k \in Chain : k <= p /\ k # p} = {k \in Chain : k < p}
    <3>1. ASSUME NEW k \in Chain PROVE k <= p /\ k # p <=> k < p
      BY <1>0, <2>3
    <3> QED
      BY <3>1
  <2>7. {k \in Chain' : k <= head' /\ ~(k = head' /\ simTimer')} = {k \in Chain : k <= h}
    BY <1>1, <1>5, <2>1, <2>5, <2>6
  <2>8. ReplayInOrder'
    BY <2>7 DEF ReplayInOrder
  <2>9. p # None /\ p <= p /\ \A k \in p + 1 .. p : FALSE
    BY <1>0, <2>3 DEF None
  <2> QED
    BY <1>1, <1>5, <2>1, <2>5, <2>8, <2>9 DEF Replay
<1> QED
  BY <1>0, <1>4, <1>5, NextSentence DEF Types, Booleans, Places

\* Passing on the link that is due.
LEMMA PassOn ==
  ASSUME Types, mode = "Simulation", NEW i \in Chain, End >= i,
         SimulatePendingUpdate(i, i),
         \A j \in 1 .. Len(replayed) - 1 : replayed[j] < replayed[j + 1],
         {replayed[j] : j \in 1 .. Len(replayed)} = {k \in Chain : k < i}
  PROVE  Replay'
<1>0. /\ Len(tape) \in Nat /\ i \in 1 .. Len(tape) /\ i \in Nat
      /\ replayed \in Seq(Nat) /\ Len(replayed) \in Nat
      /\ \A j \in 1 .. Len(replayed) : replayed[j] \in Nat
  <2>1. replayed \in Seq(Nat) /\ Len(tape) \in Nat
    BY Times DEF Types, Places
  <2>2. i \in 1 .. Len(tape)
    BY DEF Chain
  <2>3. Len(replayed) \in Nat /\ \A j \in 1 .. Len(replayed) : replayed[j] \in Nat
    BY <2>1, LenProperties, ElementOfSeq
  <2> QED
    BY <2>1, <2>2, <2>3
<1>1. UNCHANGED <<mode, tape>>
  BY DEF SimulatePendingUpdate, Notify, NoUpdate
<1>2. /\ Len(replayed') = Len(replayed) + 1
      /\ \A j \in 1 .. Len(replayed) : replayed'[j] = replayed[j]
      /\ replayed'[Len(replayed) + 1] = i
  BY <1>0, AppendProperties DEF SimulatePendingUpdate
<1>3. ASSUME NEW j \in 1 .. Len(replayed)
      PROVE  replayed'[j] < replayed'[j + 1]
  <2>1. CASE j = Len(replayed)
    <3>1. replayed[j] \in {k \in Chain : k < i}
      BY <1>0, <1>2, <2>1
    <3> QED
      BY <1>0, <1>2, <2>1, <3>1
  <2>2. CASE j # Len(replayed)
    <3>1. j \in 1 .. Len(replayed) - 1 /\ j + 1 \in 1 .. Len(replayed)
      BY <1>0, <2>2
    <3> QED
      BY <1>2, <3>1
  <2> QED
    BY <2>1, <2>2
<1>4. {replayed'[j] : j \in 1 .. Len(replayed')} = {k \in Chain : k <= i}
  <2>1. {replayed'[j] : j \in 1 .. Len(replayed')}
          = {replayed[j] : j \in 1 .. Len(replayed)} \cup {i}
    <3>1. ASSUME NEW j \in 1 .. Len(replayed')
          PROVE  replayed'[j] \in {replayed[m] : m \in 1 .. Len(replayed)} \cup {i}
      BY <1>0, <1>2
    <3>2. ASSUME NEW j \in 1 .. Len(replayed)
          PROVE  replayed[j] \in {replayed'[m] : m \in 1 .. Len(replayed')}
      BY <1>0, <1>2
    <3>3. i \in {replayed'[m] : m \in 1 .. Len(replayed')}
      <4>1. Len(replayed) + 1 \in 1 .. Len(replayed')
        BY <1>0, <1>2
      <4> QED
        BY <1>2, <4>1
    <3> QED
      BY <3>1, <3>2, <3>3
  <2>2. \A k \in Chain : k \in Nat
    BY <1>0 DEF Chain
  <2>3. \A k \in Chain : k <= i <=> (k < i) \/ (k = i)
    BY <1>0, <2>2
  <2> QED
    BY <2>1, <2>3
<1> QED
  <2>1. i \in i .. Len(tape) /\ \A k \in i + 1 .. i : FALSE
    BY <1>0
  <2>2. \A j \in 1 .. Len(replayed') - 1 : replayed'[j] < replayed'[j + 1]
    BY <1>0, <1>2, <1>3
  <2>3. ProcessNextSentence(i, i)
    BY DEF SimulatePendingUpdate
  <2> QED
    BY <1>1, <1>4, <2>1, <2>2, <2>3, ReadOn

\* What is delivered behind the chain changes none of its links.
LEMMA ChainDelivered ==
  ASSUME Types, NEW s \in Sentences[mode], Deliver(s), NEW k \in 1 .. Len(tape)
  PROVE  (k \in Chain') <=> k \in Chain
<1>1. /\ Len(tape) \in Nat /\ Len(tape') = Len(tape) + 1
      /\ \A j \in 1 .. Len(tape) : tape'[j] = tape[j]
  BY SentenceType, AppendProperties, LenProperties DEF Deliver, Types, Places
<1>2. k \in 1 .. Len(tape') /\ \A j \in 1 .. k : j \in 1 .. Len(tape)
  BY <1>1
<1>3. \A j \in 1 .. k : tape'[j] = tape[j]
  BY <1>1, <1>2
<1>4. \A j \in 1 .. k : \A i \in 1 .. j : i \in 1 .. k
  BY <1>1
<1>5. (\E j \in 1 .. k : tape'[j].date /\ tape'[j].time # 0)
        <=> (\E j \in 1 .. k : tape[j].date /\ tape[j].time # 0)
  BY <1>3
<1>6. ASSUME NEW j \in 1 .. k
      PROVE  (\A i \in 1 .. j : ~(tape'[i].date /\ tape'[i].time # 0))
               <=> (\A i \in 1 .. j : ~(tape[i].date /\ tape[i].time # 0))
  BY <1>3, <1>4
<1>7. k \in 1 .. k
  BY <1>1
<1> QED
  BY <1>2, <1>3, <1>5, <1>6, <1>7 DEF Chain

\* The place of a replay is inductive.
LEMMA ReplayStep == Types /\ Replay /\ [Next]_vars => Replay'
<1> SUFFICES ASSUME Types, Replay, [Next]_vars, mode = "Simulation" PROVE Replay'
  BY Unchanged DEF Replay, Next, vars, ReadLine, Notify, ReadDone, NoUpdate,
     ReadSimulated, SimulatedTime, SimulatePendingUpdate, Deliver, ReadyRead, Close,
     Tick, RequestTimeout, SetDevice, StartUpdates, Started, StopUpdates,
     RequestUpdate, SetUpdateInterval
<1>0. /\ Len(tape) \in Nat /\ pos \in 0 .. Len(tape) /\ head \in 0 .. Len(tape)
      /\ \A k \in Chain : k \in 1 .. Len(tape)
  BY Times DEF Types, Places, Chain
<1>1. ASSUME UNCHANGED <<mode, tape, pos, head, simTimer, replayed>>
      PROVE  Replay'
  <2>1. Chain' = Chain
    BY <1>1 DEF Chain
  <2>2. \A k, h : (InTime(k, h)' <=> InTime(k, h)) /\ (Dated(k)' <=> Dated(k))
    BY <1>1 DEF InTime, Dated
  <2>3. ReplayInOrder'
    BY <1>1, <2>1 DEF Replay, ReplayInOrder
  <2> QED
    BY <1>1, <2>1, <2>2, <2>3 DEF Replay
<1>2. CASE ReadLine \/ ReadDone
  BY <1>2 DEF ReadLine, ReadDone
<1>3. CASE ReadSimulated
  <2> DEFINE dated == {k \in pos + 1 .. Len(tape) : tape[k].date /\ tape[k].time # 0}
             first == CHOOSE k \in dated : \A j \in dated : k <= j
  <2>0. End = Len(tape)
    BY <1>3 DEF ReadSimulated, End
  <2>1. CASE UNCHANGED <<pos, sim>> /\ NoUpdate
    BY <1>1, <2>1, Unchanged DEF NoUpdate
  <2>2. CASE head = None /\ dated = {} /\ pos' = Len(tape) /\ UNCHANGED sim /\ NoUpdate
    BY <1>0, <2>2, Unchanged DEF NoUpdate, Replay, ReplayInOrder, Dated, Chain, None
  <2>3. CASE /\ ~simTimer /\ head = None /\ dated # {}
             /\ SimulatePendingUpdate(first, first)
    <3>1. PICK f : f = first
      OBVIOUS
    <3>2. f \in dated /\ \A j \in dated : f <= j
      BY <1>0, <2>3, <3>1, FirstDated
    <3>3. f \in 1 .. Len(tape) /\ Dated(f)
      BY <1>0, <3>2 DEF Dated
    <3>4. ASSUME NEW j \in 1 .. f - 1 PROVE ~Dated(j)
      <4>1. CASE j <= pos
        BY <1>0, <2>3, <3>3, <4>1 DEF Replay
      <4>2. CASE j > pos
        BY <1>0, <3>2, <3>3, <4>2 DEF Dated
      <4> QED
        BY <1>0, <3>3, <4>1, <4>2
    <3>5. f \in Chain /\ \A k \in Chain : f <= k
      BY <3>3, <3>4, FirstLink
    <3>6. replayed = <<>> /\ {k \in Chain : k < f} = {}
      <4>1. ASSUME NEW k \in Chain, k < f PROVE FALSE
        <5>1. k \in Int /\ f \in Int /\ f <= k
          BY <1>0, <3>3, <3>5
        <5> QED
          BY <4>1, <5>1
      <4>2. replayed = <<>>
        BY <2>3 DEF Replay
      <4> QED
        BY <4>1, <4>2
    <3>7. End >= f /\ SimulatePendingUpdate(f, f)
      BY <1>0, <2>0, <2>3, <3>1, <3>3
    <3>8. /\ \A j \in 1 .. Len(replayed) - 1 : replayed[j] < replayed[j + 1]
          /\ {replayed[j] : j \in 1 .. Len(replayed)} = {}
      BY <3>6, EmptySeq
    <3> HIDE DEF first, dated
    <3> QED
      BY <3>5, <3>6, <3>7, <3>8, PassOn
  <2>4. CASE /\ ~simTimer /\ head # None
             /\ ProcessNextSentence(head, pos) /\ UNCHANGED replayed /\ NoUpdate
    <3>1. /\ head \in Chain /\ pos \in head .. Len(tape) /\ End >= pos
          /\ \A k \in head + 1 .. pos : ~InTime(k, head)
          /\ UNCHANGED <<mode, tape>>
      BY <1>0, <2>0, <2>4 DEF Replay, NoUpdate
    <3>2. /\ \A i \in 1 .. Len(replayed) - 1 : replayed[i] < replayed[i + 1]
          /\ {replayed[i] : i \in 1 .. Len(replayed)} = {k \in Chain : k <= head}
      BY <2>4 DEF Replay, ReplayInOrder
    <3> QED
      BY <2>4, <3>1, <3>2, ReadOn
  <2> QED
    BY <1>3, <2>1, <2>2, <2>3, <2>4 DEF ReadSimulated
<1>4. CASE SimulatedTime
  <2>1. head \in Chain /\ pos = head /\ End >= head
    BY <1>0, <1>4 DEF SimulatedTime, Replay, End
  <2>2. /\ \A i \in 1 .. Len(replayed) - 1 : replayed[i] < replayed[i + 1]
        /\ {replayed[i] : i \in 1 .. Len(replayed)}
             = {k \in Chain : k <= head /\ k # head}
    BY <1>4 DEF SimulatedTime, Replay, ReplayInOrder
  <2>3. {k \in Chain : k <= head /\ k # head} = {k \in Chain : k < head}
    <3>1. ASSUME NEW k \in Chain PROVE k <= head /\ k # head <=> k < head
      BY <1>0
    <3> QED
      BY <3>1
  <2> QED
    BY <1>4, <2>1, <2>2, <2>3, PassOn DEF SimulatedTime
<1>5. ASSUME NEW s \in Sentences[mode], Deliver(s) PROVE Replay'
  <2>1. /\ Len(tape') = Len(tape) + 1
        /\ \A k \in 1 .. Len(tape) : tape'[k] = tape[k]
        /\ UNCHANGED <<mode, pos, head, simTimer, replayed>>
    BY <1>5, SentenceType, AppendProperties, Unchanged DEF Deliver, Types, Places
  <2>2. \A k \in 1 .. pos : Dated(k)' <=> Dated(k)
    BY <1>0, <2>1 DEF Dated
  <2>3. head # None => \A k \in head + 1 .. pos : InTime(k, head)' <=> InTime(k, head)
    BY <1>0, <2>1 DEF InTime, None
  <2>4. head # None => ((head \in Chain') <=> head \in Chain)
    BY <1>0, <1>5, ChainDelivered DEF None
  <2>5. {k \in Chain' : k <= head /\ ~(k = head /\ simTimer)}
          = {k \in Chain : k <= head /\ ~(k = head /\ simTimer)}
    <3>1. ASSUME NEW k \in Chain', k <= head PROVE k \in 1 .. Len(tape)
      BY <1>0, <2>1, <3>1 DEF Chain
    <3> QED
      BY <1>0, <1>5, <3>1, ChainDelivered
  <2>6. ReplayInOrder'
    BY <2>1, <2>5 DEF Replay, ReplayInOrder
  <2> QED
    BY <2>1, <2>2, <2>3, <2>4, <2>6 DEF Replay
<1>6. CASE ReadyRead \/ Close \/ Tick \/ RequestTimeout \/ SetDevice
  BY <1>1, <1>6, Unchanged DEF ReadyRead, Close, Tick, RequestTimeout, SetDevice
<1>7. CASE StopUpdates \/ RequestUpdate
  BY <1>1, <1>7, Unchanged DEF StopUpdates, RequestUpdate
<1>8. ASSUME NEW n, Started(n) PROVE Replay'
  BY <1>1, <1>8, Unchanged DEF Started, Skip
<1>9. CASE StartUpdates
  BY <1>8, <1>9 DEF StartUpdates
<1>10. ASSUME NEW n \in Intervals, SetUpdateInterval(n) PROVE Replay'
  BY <1>1, <1>8, <1>10, Unchanged DEF SetUpdateInterval
<1>11. CASE UNCHANGED vars
  BY <1>1, <1>11, Unchanged DEF vars
<1> QED
  BY <1>2, <1>3, <1>4, <1>5, <1>6, <1>7, <1>9, <1>10, <1>11 DEF Next
-----------------------------------------------------------------------------
\* The initial state satisfies the rest of the invariant.
LEMMA InitInv == Init => Flags /\ Fresh /\ Replay
<1> SUFFICES ASSUME Init PROVE Flags /\ Fresh /\ Replay
  OBVIOUS
<1>1. Len(<<>>) = 0 /\ \A k \in 1 .. 0 : FALSE
  BY EmptySeq
<1>2. Flags
  <2>1. updateTimeoutSent = quiet
    BY DEF Init
  <2> QED
    BY <2>1 DEF Init, Flags, None
<1>3. Fresh
  BY DEF Init, Fresh, None
<1>4. ReplayInOrder
  <2>1. Chain = {}
    BY <1>1 DEF Init, Chain
  <2>2. replayed = <<>>
    BY DEF Init
  <2> QED
    BY <1>1, <2>1, <2>2 DEF ReplayInOrder
<1>5. Replay
  BY <1>1, <1>4 DEF Init, Replay, None
<1> QED
  BY <1>2, <1>3, <1>5

\* The types and the flags need nothing of the device.
LEMMA Inductive == Spec => [](Types /\ Flags)
<1>1. Init => Types /\ Flags
  BY InitTypes, InitInv
<1>2. Types /\ Flags /\ [Next]_vars => (Types /\ Flags)'
  BY TypesStep, FlagsStep
<1> QED
  BY <1>1, <1>2, PTL DEF Spec

\* Every place lies on the tape, a running timer belongs to a started source with
\* a reader, and an update waits only for a running timer after an interval that
\* was not silent, for any device.
THEOREM TypeCorrect == Spec => []TypeOK
<1>1. Types /\ Flags => TypeOK
  BY DEF Types, Places, Flags, TypeOK
<1> QED
  BY <1>1, Inductive, PTL

\* At most one periodic update is emitted in an interval, also when a silence ends
\* in it (notifyNewUpdate(), timerEvent()).
THEOREM OneUpdatePerInterval == Spec => []OnePerInterval
<1>1. Types /\ Flags => OnePerInterval
  BY DEF Flags, OnePerInterval
<1> QED
  BY <1>1, Inductive, PTL

\* After two silent intervals updateTimeout() has been emitted (timerEvent()).
THEOREM SilenceReported == Spec => []SilenceIsReported
<1>1. Types /\ Flags => SilenceIsReported
  BY DEF Flags, SilenceIsReported
<1> QED
  BY <1>1, Inductive, PTL

\* What a sentence does to the report of a silence: it can only end it.
LEMMA NotifyEndsSilence ==
  ASSUME Types, Flags, NEW i, Notify(i)
  PROVE  \/ UNCHANGED <<updateTimeoutSent, quiet>>
         \/ ~quiet' /\ regular' = 1
<1>1. CASE Periodic /\ noUpdateLastInterval /\ EmitPeriodic(i, regular)
  BY <1>1 DEF EmitPeriodic, Flags
<1> QED
  BY <1>1, Unchanged DEF Notify, NotifyFix

\* Only the end of an interval or an update changes whether a silence is reported.
LEMMA SilenceStep ==
  ASSUME Types, Flags, [Next]_vars
  PROVE  \/ UNCHANGED <<updateTimeoutSent, quiet>>
         \/ (quiet' => idleTicks' = 2) /\ (~quiet' => regular' = 1)
<1>1. CASE ReadLine
  BY <1>1, NotifyEndsSilence DEF ReadLine
<1>2. CASE ReadDone
  BY <1>2, Unchanged DEF ReadDone, NoUpdate
<1>3. CASE ReadSimulated \/ SimulatedTime
  <2>1. NoUpdate => UNCHANGED <<updateTimeoutSent, quiet>>
    BY Unchanged DEF NoUpdate
  <2>2. ASSUME NEW i, NEW from, SimulatePendingUpdate(i, from)
        PROVE  \/ UNCHANGED <<updateTimeoutSent, quiet>>
               \/ ~quiet' /\ regular' = 1
    BY <2>1, <2>2, NotifyEndsSilence DEF SimulatePendingUpdate
  <2>3. UNCHANGED <<updateTimeoutSent, quiet>> \/ (~quiet' /\ regular' = 1)
    BY <1>3, <2>1, <2>2 DEF ReadSimulated, SimulatedTime
  <2> QED
    BY <2>3
<1>4. CASE Tick
  BY <1>4, TickFlags
<1>5. CASE StartUpdates
  BY <1>5 DEF StartUpdates, Started
<1>6. CASE StopUpdates \/ RequestUpdate \/ RequestTimeout
  BY <1>6, Unchanged DEF StopUpdates, Clear, RequestUpdate, RequestTimeout
<1>7. ASSUME NEW n, SetUpdateInterval(n)
      PROVE  UNCHANGED <<updateTimeoutSent, quiet>>
  BY <1>7, Unchanged DEF SetUpdateInterval, Started
<1>8. ASSUME NEW s, Deliver(s)
      PROVE  UNCHANGED <<updateTimeoutSent, quiet>>
  BY <1>8, Unchanged DEF Deliver
<1>9. CASE ReadyRead \/ Close \/ SetDevice
  BY <1>9, Unchanged DEF ReadyRead, Close, SetDevice
<1>10. CASE UNCHANGED vars
  BY <1>10, Unchanged DEF vars
<1> QED
  BY <1>1, <1>2, <1>3, <1>4, <1>5, <1>6, <1>7, <1>8, <1>9, <1>10 DEF Next

\* updateTimeout() comes with the second silent interval and not again before the
\* updates resume (timerEvent(), emitPendingUpdate()).
THEOREM TimeoutsWhenDue == Spec => TimeoutWhenDue
<1>1. Types /\ Flags /\ [Next]_vars =>
        [(updateTimeoutSent' # updateTimeoutSent) \/ (quiet' # quiet) =>
           /\ updateTimeoutSent' = quiet'
           /\ quiet' => idleTicks' = 2
           /\ ~quiet' => regular' = 1]_vars
  <2> SUFFICES ASSUME Types, Flags, [Next]_vars,
                      (updateTimeoutSent' # updateTimeoutSent) \/ (quiet' # quiet)
               PROVE  /\ updateTimeoutSent' = quiet'
                      /\ quiet' => idleTicks' = 2
                      /\ ~quiet' => regular' = 1
    OBVIOUS
  <2>1. Flags'
    BY FlagsStep
  <2>2. updateTimeoutSent' = quiet'
    BY <2>1 DEF Flags
  <2> QED
    BY <2>2, SilenceStep
<1> QED
  BY <1>1, Inductive, PTL DEF Spec, TimeoutWhenDue

\* No periodic update of a live source was buffered before it was started, if the
\* device is sequential (startUpdates()).
THEOREM NothingBufferedPassed == Sequential => (Spec => []NothingBuffered)
<1> SUFFICES ASSUME Sequential PROVE Spec => []NothingBuffered
  OBVIOUS
<1>1. Init => Fresh
  BY InitInv
<1>2. (Types /\ Flags) /\ Fresh /\ [Next]_vars => Fresh'
  BY FreshStep
<1>3. Fresh => NothingBuffered
  BY DEF Fresh, NothingBuffered
<1> QED
  BY <1>1, <1>2, <1>3, Inductive, PTL DEF Spec

\* A replay passes on the sentences it owes, each once and in order, for any tape
\* (processNextSentence()).
THEOREM ReplayedInOrder == Spec => []ReplayInOrder
<1>1. Init => Replay
  BY InitInv
<1>2. (Types /\ Flags) /\ Replay /\ [Next]_vars => Replay'
  BY ReplayStep
<1>3. Replay => ReplayInOrder
  BY DEF Replay, ReplayInOrder
<1> QED
  BY <1>1, <1>2, <1>3, Inductive, PTL DEF Spec
===============================================================================
