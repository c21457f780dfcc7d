-------------------------- MODULE NmeaPositionSource --------------------------
(***************************************************************************)
(* A position source fed with NMEA sentences (classes                      *)
(* QNmeaPositionInfoSourcePrivate, QNmeaRealTimeReader and                 *)
(* QNmeaSimulatedReader, qnmeapositioninfosource.cpp).                     *)
(*                                                                         *)
(* A sentence is named by its place on the tape, the device's content.  It *)
(* has a date or not, a time of day or 0, a coordinate or not, a fix or    *)
(* not.  The lines of one readAvailableData() are read in steps between    *)
(* which nothing else runs (reading).  A timer that is active may fire at  *)
(* any moment.  Not modelled: what a sentence says, a request shorter than *)
(* minimumUpdateInterval() or without a device (it is answered with        *)
(* updateTimeout() at once), and applications that call the source from    *)
(* its own signals.                                                        *)
(*                                                                         *)
(* A definition that no other one uses is a slip: the definition after it  *)
(* as a wrong edit of the code would have it.  None is part of Next.       *)
(***************************************************************************)
EXTENDS Integers, Sequences, FiniteSets, SequencesExt

CONSTANTS
  Modes,       \* the update modes: "RealTime", "Simulation"
  Sequential,  \* QIODevice::isSequential()
  Intervals,   \* arguments of setUpdateInterval(); 0 is "as often as possible"
  Sentences,   \* per mode, the sentences a device may deliver
  MaxTape      \* bound: sentences the device delivers

None == 0
ASSUME ModesAssumption == Modes \subseteq {"RealTime", "Simulation"}
ASSUME IntervalsAssumption == Intervals \subseteq Nat
ASSUME SentencesAssumption ==
  \A m \in Modes : Sentences[m] \subseteq
    [date : BOOLEAN, time : Nat, coord : BOOLEAN, fix : BOOLEAN]

VARIABLES
  mode,      \* m_updateMode
  tape, pos, \* device: the sentences delivered, and how many have been read
  ready,     \* device: readyRead() is about to be emitted
  deviceSet, closed,
  reader,    \* m_nmeaReader exists
  connected, \* m_connectedReadyRead
  reading,   \* readAvailableData() is running
  invokedStart, updateInterval, updateTimer, requestTimer,
  pendingUpdate, noUpdateLastInterval, updateTimeoutSent,
  currentDate, \* m_currentDate is valid
  lastUpdate,
  head,      \* simulation: m_pendingUpdates, which holds one sentence at most
  simTimer,  \* simulation: m_currTimerId is a running timer
  shown,     \* history: the update last emitted
  regular,   \* history: periodic updates emitted in the present interval
  idleTicks, \* history: intervals in a row without one
  quiet,     \* history: updateTimeout() was emitted since the last one
  skippedTo, \* history: what was on the tape at the last startUpdates()
  replayed   \* history: simulation, the sentences passed on

device == <<tape, pos, ready, deviceSet, closed>>
setup == <<reader, connected>>
user == <<invokedStart, updateInterval>>
flags == <<pendingUpdate, noUpdateLastInterval, updateTimeoutSent>>
known == <<currentDate, lastUpdate>>
sim == <<head, simTimer, replayed>>
history == <<shown, regular, idleTicks, quiet, skippedTo>>
vars == <<mode, device, setup, reading, user, updateTimer, requestTimer, flags,
          known, sim, history>>

\* Where reading comes to an end; a closed device gives nothing.
End == IF closed /\ ~reading THEN pos ELSE Len(tape)
Periodic == invokedStart /\ updateTimer
-----------------------------------------------------------------------------
(* What becomes of an update.                                              *)

\* A fix that can be emitted: the date may come from an earlier sentence.
ValidFix(i) == LET s == tape[i]
               IN s.fix /\ s.coord /\ s.time # 0 /\ (s.date \/ currentDate)

\* A periodic update ends a silence.
SilenceGoesOn == UNCHANGED noUpdateLastInterval /\ updateTimeoutSent' = FALSE
TimeoutKept == noUpdateLastInterval' = FALSE /\ UNCHANGED updateTimeoutSent
SilenceEnds == noUpdateLastInterval' = FALSE /\ updateTimeoutSent' = FALSE

\* emitPendingUpdate() with an update: the end of an interval or, at once, the
\* end of a silence.
EmitPeriodic(i, since) ==
  /\ pendingUpdate' = None
  /\ SilenceEnds
  /\ lastUpdate' = i
  /\ shown' = i
  /\ regular' = since + 1
  /\ idleTicks' = 0
  /\ quiet' = FALSE

\* notifyNewUpdate(): a waiting request takes the update and leaves nothing for
\* the periodic ones.
NotifyFix(i) ==
  \/ /\ requestTimer
     /\ requestTimer' = FALSE
     /\ shown' = i
     /\ lastUpdate' = i
     /\ UNCHANGED <<flags, regular, idleTicks, quiet>>
  \/ /\ ~requestTimer /\ Periodic /\ ~noUpdateLastInterval
     /\ pendingUpdate' = i
     /\ lastUpdate' = i
     /\ UNCHANGED <<requestTimer, noUpdateLastInterval, updateTimeoutSent, shown,
                    regular, idleTicks, quiet>>
  \/ /\ ~requestTimer /\ Periodic /\ noUpdateLastInterval
     /\ EmitPeriodic(i, regular)
     /\ UNCHANGED requestTimer
  \/ /\ ~requestTimer /\ ~Periodic
     /\ shown' = IF invokedStart THEN i ELSE shown
     /\ lastUpdate' = i
     /\ UNCHANGED <<requestTimer, flags, regular, idleTicks, quiet>>

Notify(i) ==
  /\ currentDate' = (currentDate \/ tape[i].date)
  /\ \/ ValidFix(i) /\ NotifyFix(i)
     \/ ~ValidFix(i) /\ UNCHANGED <<requestTimer, flags, lastUpdate, shown, regular,
                                    idleTicks, quiet>>
  /\ UNCHANGED <<mode, tape, ready, deviceSet, closed, setup, user, updateTimer,
                 skippedTo>>

NoUpdate == UNCHANGED <<mode, tape, ready, deviceSet, closed, setup, user, updateTimer,
                        requestTimer, flags, known, history>>
-----------------------------------------------------------------------------
(* The readers.                                                            *)

\* QNmeaRealTimeReader::readAvailableData(), one line.
ReadLine ==
  /\ reading /\ mode = "RealTime"
  /\ pos < Len(tape)
  /\ pos' = pos + 1
  /\ Notify(pos + 1)
  /\ UNCHANGED <<reading, sim>>

ReadDone ==
  /\ reading /\ mode = "RealTime"
  /\ pos = Len(tape)
  /\ reading' = FALSE
  /\ UNCHANGED pos /\ UNCHANGED sim /\ NoUpdate

\* QNmeaSimulatedReader::processNextSentence() after the sentence prev: the next
\* one whose time of day is not before prev's is due when as much time has gone by.
AfterIt(k, prev) == tape[k].time # 0 /\ tape[k].time > tape[prev].time
InTime(k, prev) == tape[k].time # 0 /\ tape[k].time >= tape[prev].time
ProcessNextSentence(prev, from) ==
  LET next == {k \in from + 1 .. End : InTime(k, prev)}
      k == CHOOSE k \in next : \A j \in next : k <= j
  IN IF next = {}
       THEN /\ pos' = End /\ head' = prev /\ simTimer' = FALSE
       ELSE /\ pos' = k /\ head' = k /\ simTimer' = TRUE

\* simulatePendingUpdate(): only what has a coordinate is passed on.
SimulatePendingUpdate(i, from) ==
  /\ IF tape[i].coord THEN Notify(i) ELSE NoUpdate
  /\ replayed' = Append(replayed, i)
  /\ ProcessNextSentence(i, from)

\* QNmeaSimulatedReader::readAvailableData()
ReadSimulated ==
  LET dated == {k \in pos + 1 .. Len(tape) : tape[k].date /\ tape[k].time # 0}
      first == CHOOSE k \in dated : \A j \in dated : k <= j
  IN /\ reading /\ mode = "Simulation"
     /\ \/ simTimer /\ UNCHANGED <<pos, sim>> /\ NoUpdate
        \/ /\ ~simTimer /\ head = None /\ dated = {}
           /\ pos' = Len(tape)
           /\ UNCHANGED sim /\ NoUpdate
        \/ /\ ~simTimer /\ head = None /\ dated # {}
           /\ SimulatePendingUpdate(first, first)
        \/ /\ ~simTimer /\ head # None
           /\ ProcessNextSentence(head, pos)
           /\ UNCHANGED replayed /\ NoUpdate
     /\ reading' = FALSE

\* timerEvent() of the simulating reader: the sentence is due.
SimulatedTime ==
  /\ ~reading
  /\ simTimer
  /\ SimulatePendingUpdate(head, pos)
  /\ UNCHANGED reading
-----------------------------------------------------------------------------
(* The device and the timers.                                              *)

Deliver(s) ==
  /\ ~reading /\ ~closed
  /\ Len(tape) < MaxTape
  /\ tape' = Append(tape, s)
  /\ ready' = TRUE
  /\ UNCHANGED <<mode, pos, deviceSet, closed, setup, reading, user, updateTimer,
                 requestTimer, flags, known, sim, history>>

ReadyWhileStarted ==
  /\ ~reading
  /\ ready
  /\ ready' = FALSE
  /\ reading' = (connected /\ invokedStart)
  /\ UNCHANGED <<mode, tape, pos, deviceSet, closed, setup, user, updateTimer,
                 requestTimer, flags, known, sim, history>>

\* The signal finds its slot connected, or is lost.
ReadyRead ==
  /\ ~reading
  /\ ready
  /\ ready' = FALSE
  /\ reading' = (connected /\ reader)
  /\ UNCHANGED <<mode, tape, pos, deviceSet, closed, setup, user, updateTimer,
                 requestTimer, flags, known, sim, history>>

\* sourceDataClosed(): what is left is read while the device closes.
Close ==
  /\ ~reading /\ ~closed
  /\ reader
  /\ closed' = TRUE
  /\ ready' = FALSE
  /\ reading' = (pos < Len(tape))
  /\ UNCHANGED <<mode, tape, pos, deviceSet, setup, user, updateTimer, requestTimer,
                 flags, known, sim, history>>

\* timerEvent(): an interval ends.
Tick ==
  /\ ~reading
  /\ updateTimer
  /\ \/ pendingUpdate # None /\ EmitPeriodic(pendingUpdate, 0)
     \/ /\ pendingUpdate = None
        /\ updateTimeoutSent' = (updateTimeoutSent \/ noUpdateLastInterval)
        /\ noUpdateLastInterval' = TRUE
        /\ quiet' = (quiet \/ (noUpdateLastInterval /\ ~updateTimeoutSent))
        /\ idleTicks' = IF idleTicks = 2 THEN 2 ELSE idleTicks + 1
        /\ regular' = 0
        /\ UNCHANGED <<pendingUpdate, lastUpdate, shown>>
  /\ UNCHANGED <<mode, device, setup, reading, user, updateTimer, requestTimer,
                 currentDate, sim, skippedTo>>

\* updateRequestTimeout()
RequestTimeout ==
  /\ ~reading
  /\ requestTimer
  /\ requestTimer' = FALSE
  /\ UNCHANGED <<mode, device, setup, reading, user, updateTimer, flags, known, sim,
                 history>>
-----------------------------------------------------------------------------
(* The application.                                                        *)

SetDevice ==
  /\ ~reading
  /\ ~deviceSet
  /\ deviceSet' = TRUE
  /\ UNCHANGED <<mode, tape, pos, ready, closed, setup, reading, user, updateTimer,
                 requestTimer, flags, known, sim, history>>

\* initialize() and prepareSourceDevice(): a simulation may have data to read.
Prepare ==
  /\ reader' = TRUE
  /\ connected' = TRUE
  /\ reading' = (mode = "Simulation" /\ pos < End)

SkipNothing == UNCHANGED pos

\* "skip over any buffered data - we only want the newest data" (297): readAll(),
\* or seek(bytesAvailable()).
Skip == pos' = IF pos = End \/ mode = "Simulation" THEN pos
               ELSE IF Sequential THEN End ELSE End - pos

\* What startUpdates() and stopUpdates() both clear.
ClearPending == pendingUpdate' = None /\ UNCHANGED noUpdateLastInterval
ClearSilence == noUpdateLastInterval' = FALSE /\ UNCHANGED pendingUpdate
Clear == pendingUpdate' = None /\ noUpdateLastInterval' = FALSE

\* The body of startUpdates(), from a stopped source.
Started(interval) ==
  /\ invokedStart' = TRUE
  /\ updateInterval' = interval
  /\ Clear
  /\ updateTimer' = (deviceSet /\ interval > 0)
  /\ IF deviceSet THEN Prepare /\ Skip ELSE UNCHANGED <<setup, reading, pos>>
  /\ regular' = 0
  /\ idleTicks' = 0
  /\ skippedTo' = Len(tape)
  /\ UNCHANGED <<mode, tape, ready, deviceSet, closed, requestTimer, updateTimeoutSent,
                 known, sim, shown, quiet>>

StartUpdates == ~reading /\ ~invokedStart /\ Started(updateInterval)

StopUpdates ==
  /\ ~reading
  /\ invokedStart
  /\ invokedStart' = FALSE
  /\ updateTimer' = FALSE
  /\ Clear
  /\ UNCHANGED <<mode, device, setup, reading, updateInterval, requestTimer,
                 updateTimeoutSent, known, sim, history>>

\* A running source is stopped and started again.
SetUpdateInterval(interval) ==
  /\ ~reading
  /\ IF invokedStart THEN Started(interval)
     ELSE /\ updateInterval' = interval
          /\ UNCHANGED <<mode, device, setup, reading, invokedStart, updateTimer,
                         requestTimer, flags, known, sim, history>>

RequestUpdate ==
  /\ ~reading
  /\ deviceSet
  /\ ~requestTimer
  /\ requestTimer' = TRUE
  /\ Prepare
  /\ UNCHANGED <<mode, device, user, updateTimer, flags, known, sim, history>>
-----------------------------------------------------------------------------
Init ==
  /\ mode \in Modes
  /\ tape = <<>> /\ pos = 0 /\ ready = FALSE /\ deviceSet = FALSE /\ closed = FALSE
  /\ reader = FALSE /\ connected = FALSE /\ reading = FALSE
  /\ invokedStart = FALSE /\ updateInterval = 0
  /\ updateTimer = FALSE /\ requestTimer = FALSE
  /\ pendingUpdate = None /\ noUpdateLastInterval = FALSE /\ updateTimeoutSent = FALSE
  /\ currentDate = FALSE /\ lastUpdate = None
  /\ head = None /\ simTimer = FALSE
  /\ shown = None /\ regular = 0 /\ idleTicks = 0 /\ quiet = FALSE
  /\ skippedTo = 0 /\ replayed = <<>>

Next ==
  \/ ReadLine \/ ReadDone \/ ReadSimulated \/ SimulatedTime
  \/ \E s \in Sentences[mode] : Deliver(s)
  \/ ReadyRead \/ Close \/ Tick \/ RequestTimeout
  \/ SetDevice \/ StartUpdates \/ StopUpdates \/ RequestUpdate
  \/ \E n \in Intervals : SetUpdateInterval(n)

\* The event loop runs: active timers fire, a signal of the device arrives and
\* what is being read is read to the end.
Fairness ==
  /\ WF_vars(ReadLine \/ ReadDone \/ ReadSimulated)
  /\ WF_vars(ReadyRead) /\ SF_vars(SimulatedTime)

Spec == Init /\ [][Next]_vars /\ Fairness
-----------------------------------------------------------------------------
\* Shape, and what ties the flags: an update waits only for a running timer,
\* and only while the last interval was not silent.
TypeOK ==
  /\ \A i \in {pendingUpdate, lastUpdate, head, shown} : i \in 0 .. Len(tape)
  /\ pos \in 0 .. Len(tape)
  /\ updateTimer => invokedStart /\ reader /\ updateInterval > 0
  /\ pendingUpdate # None => updateTimer /\ ~noUpdateLastInterval

\* At most one periodic update in an interval, also when a silence ends in it
\* ("for periodic updates, only want the most recent update", 382).
OnePerInterval == updateTimer => regular <= 1

\* updateTimeout() of the periodic updates comes with the second silent
\* interval, and then not again until they resume
\* (qgeopositioninfosource.cpp, startUpdates()).
TimeoutWhenDue ==
  [][updateTimeoutSent' # updateTimeoutSent \/ quiet' # quiet =>
       /\ updateTimeoutSent' = quiet'
       /\ quiet' => idleTicks' = 2
       /\ ~quiet' => regular' = 1]_vars
SilenceIsReported == idleTicks = 2 /\ updateTimer => quiet

\* A real-time source emits no periodic update that was buffered before it was
\* started (297).
NothingBuffered ==
  mode = "RealTime" /\ pendingUpdate # None => pendingUpdate > skippedTo

\* The sentences a replay owes: none goes back in time of day.
Chain ==
  {k \in 1 .. Len(tape) :
     /\ tape[k].time # 0
     /\ \E j \in 1 .. k : tape[j].date /\ tape[j].time # 0
     /\ \A j \in 1 .. k : tape[j].time <= tape[k].time \/
          \A i \in 1 .. j : ~(tape[i].date /\ tape[i].time # 0)}

\* A replay passes on each of them once, in order, whatever interruptions at
\* the end of the data there were in between (processNextSentence()).
ReplayInOrder ==
  LET passed == {k \in Chain : k <= head /\ ~(k = head /\ simTimer)}
  IN mode = "Simulation" =>
       /\ \A i \in 1 .. Len(replayed) - 1 : replayed[i] < replayed[i + 1]
       /\ {replayed[i] : i \in 1 .. Len(replayed)} = passed

\* ... and gets to all of them, started or stopped, while the device is open.
ReplayGoesOn ==
  \A k \in 1 .. MaxTape :
    (mode = "Simulation" /\ connected /\ k \in Chain) ~>
      (closed \/ \E i \in 1 .. Len(replayed) : replayed[i] = k)

\* Updates are emitted in the order in which they were received: "for periodic
\* updates, only want the most recent update" (382).
UpdatesNotOlder == [][shown' >= shown]_vars
=============================================================================
