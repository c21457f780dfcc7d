------------------------ MODULE SystemReadWriteLock ------------------------
(***************************************************************************)
(* QSystemReadWriteLock on Unix (qsystemreadwritelock_unix.cpp): a         *)
(* read-write lock between processes built from kernel semaphores.         *)
(*                                                                         *)
(* A set of System V semaphores is shared by the processes; every semop()  *)
(* is atomic, a lock or unlock call is several of them.  An operation made *)
(* with SEM_UNDO is recorded in the calling process's undo record, and the *)
(* kernel adds the record to the semaphores when the process ends, cutting *)
(* a negative result to 0.  A semop() that has to sleep can be cut short   *)
(* by a signal (EINTR), which sends the caller down an error path.         *)
(*                                                                         *)
(* The processes modelled use one lock object each and call unlock() only  *)
(* after a lock call that returned true.  NumInstances, the constructor    *)
(* that resets an existing set and the destructor are not in this module:  *)
(* the set exists, and a process that restarts opens it in mode Open.      *)
(***************************************************************************)
EXTENDS Integers, FiniteSets

CONSTANTS
  Procs,      \* the processes sharing the lock
  Mortal,     \* those that may end, at any point
  Signalled,  \* those a signal may reach while they wait for the slot
  MaxOwed     \* bound: decrements a signalled process may be left owing

ASSUME ProcsAssumption == IsFiniteSet(Procs)
ASSUME MortalAssumption == Mortal \subseteq Procs
ASSUME SignalledAssumption == Signalled \subseteq Procs
ASSUME MaxOwedAssumption == MaxOwed \in Nat

VARIABLES
  activeReaders,    \* semaphore: number of active readers
  totalWriters,     \* semaphore: number of active and pending writers
  activeWriterSem,  \* semaphore: 1 when there is a free slot for a writer
  undo,             \* each process's kernel undo record
  pc                \* where each process is

vars == <<activeReaders, totalWriters, activeWriterSem, undo, pc>>
sems == <<activeReaders, totalWriters, activeWriterSem>>

UndoRecord == [activeReaders : Int, totalWriters : Int, activeWriterSem : Int]
NoUndo == [activeReaders |-> 0, totalWriters |-> 0, activeWriterSem |-> 0]

\* "drain" and "slot" are the two waits of lockForWrite(), each with the point
\* after it has failed, "unlock" is the point in unlock() after the attempt to
\* leave as a reader found no reader.
PC == {"idle", "reading", "drain", "drainFailed", "slot", "slotFailed", "writing",
       "unlock", "dead"}

Goto(p, l) == pc' = [pc EXCEPT ![p] = l]

Init ==
  /\ activeReaders = 0
  /\ totalWriters = 0
  /\ activeWriterSem = 1
  /\ undo = [p \in Procs |-> NoUndo]
  /\ pc = [p \in Procs |-> "idle"]

-----------------------------------------------------------------------------
(* Slips: actions as a wrong edit of the code would have them.  They are   *)
(* not part of Next; each shows that a property below can fail.            *)

\* lockForRead() without its wait for writers.
LockForReadNoWait(p) ==
  /\ pc[p] = "idle"
  /\ activeReaders' = activeReaders + 1
  /\ undo' = [undo EXCEPT ![p].activeReaders = @ - 1]
  /\ Goto(p, "reading")
  /\ UNCHANGED <<totalWriters, activeWriterSem>>

\* lockForRead() that waits for the active writer only.
LockForReadPastPending(p) == activeWriterSem = 1 /\ LockForReadNoWait(p)

\* The drain's error path with the flags of the slot's error path.
DrainTakenBackNoUndo(p) ==
  /\ pc[p] = "drainFailed"
  /\ totalWriters > 0
  /\ totalWriters' = totalWriters - 1
  /\ Goto(p, "idle")
  /\ UNCHANGED <<activeReaders, activeWriterSem, undo>>

\* unlock() that takes a reader off without looking whether there is one.
UnlockReaderUnchecked(p) ==
  /\ pc[p] \in {"reading", "writing"}
  /\ activeReaders' = activeReaders - 1
  /\ undo' = [undo EXCEPT ![p].activeReaders = @ + 1]
  /\ Goto(p, "idle")
  /\ UNCHANGED <<totalWriters, activeWriterSem>>

\* Semaphores operated without SEM_UNDO.
ExitNoUndo(p) ==
  /\ p \in Mortal
  /\ pc[p] # "dead"
  /\ undo' = [undo EXCEPT ![p] = NoUndo]
  /\ Goto(p, "dead")
  /\ UNCHANGED sems
-----------------------------------------------------------------------------
\* lockForRead(): one semop() adds a reader and waits for no writer at all.
LockForRead(p) ==
  /\ pc[p] = "idle"
  /\ totalWriters = 0
  /\ activeReaders' = activeReaders + 1
  /\ undo' = [undo EXCEPT ![p].activeReaders = @ - 1]
  /\ Goto(p, "reading")
  /\ UNCHANGED <<totalWriters, activeWriterSem>>

\* lockForWrite(), first semop(): be counted, which stops new readers.
AnnounceWriter(p) ==
  /\ pc[p] = "idle"
  /\ totalWriters' = totalWriters + 1
  /\ undo' = [undo EXCEPT ![p].totalWriters = @ - 1]
  /\ Goto(p, "drain")
  /\ UNCHANGED <<activeReaders, activeWriterSem>>

\* Second semop(): wait until the readers have left.
ReadersDrained(p) ==
  /\ pc[p] = "drain"
  /\ activeReaders = 0
  /\ Goto(p, "slot")
  /\ UNCHANGED <<sems, undo>>

\* The second semop() fails ...
DrainInterrupted(p) ==
  /\ pc[p] = "drain"
  /\ activeReaders > 0
  /\ Goto(p, "drainFailed")
  /\ UNCHANGED <<sems, undo>>

\* ... and then the count is taken back, and its undo with it.
DrainTakenBack(p) ==
  /\ pc[p] = "drainFailed"
  /\ totalWriters > 0
  /\ totalWriters' = totalWriters - 1
  /\ undo' = [undo EXCEPT ![p].totalWriters = @ + 1]
  /\ Goto(p, "idle")
  /\ UNCHANGED <<activeReaders, activeWriterSem>>

\* Third semop(): wait for the writer's slot.
TakeWriterSlot(p) ==
  /\ pc[p] = "slot"
  /\ activeWriterSem > 0
  /\ activeWriterSem' = activeWriterSem - 1
  /\ undo' = [undo EXCEPT ![p].activeWriterSem = @ + 1]
  /\ Goto(p, "writing")
  /\ UNCHANGED <<activeReaders, totalWriters>>

\* The third semop() fails ...
SlotInterrupted(p) ==
  /\ p \in Signalled
  /\ pc[p] = "slot"
  /\ activeWriterSem = 0
  /\ undo[p].totalWriters >= -MaxOwed
  /\ Goto(p, "slotFailed")
  /\ UNCHANGED <<sems, undo>>

\* ... and then the count is taken back without SEM_UNDO, so the process keeps
\* owing the decrement it has already made.
SlotTakenBack(p) ==
  /\ p \in Signalled
  /\ pc[p] = "slotFailed"
  /\ totalWriters > 0
  /\ totalWriters' = totalWriters - 1
  /\ Goto(p, "idle")
  /\ UNCHANGED <<activeReaders, activeWriterSem, undo>>

\* unlock(), first semop(): leave as a reader if there is any reader ...
UnlockReader(p) ==
  /\ pc[p] \in {"reading", "writing"}
  /\ activeReaders > 0
  /\ activeReaders' = activeReaders - 1
  /\ undo' = [undo EXCEPT ![p].activeReaders = @ + 1]
  /\ Goto(p, "idle")
  /\ UNCHANGED <<totalWriters, activeWriterSem>>

\* ... and go on to the writer's semaphores when there is none.
UnlockNoReader(p) ==
  /\ pc[p] \in {"reading", "writing"}
  /\ activeReaders = 0
  /\ Goto(p, "unlock")
  /\ UNCHANGED <<sems, undo>>

\* Second semop(): if a writer is active give the slot and the count back in
\* one step; if none is, there is nothing to do.
UnlockWriter(p) ==
  /\ pc[p] = "unlock"
  /\ Goto(p, "idle")
  /\ UNCHANGED activeReaders
  /\ IF activeWriterSem = 0
       THEN /\ totalWriters > 0
            /\ activeWriterSem' = 1
            /\ totalWriters' = totalWriters - 1
            /\ undo' = [undo EXCEPT ![p].activeWriterSem = @ - 1,
                                    ![p].totalWriters = @ + 1]
       ELSE UNCHANGED <<totalWriters, activeWriterSem, undo>>

NonNegative(n) == IF n < 0 THEN 0 ELSE n

\* A process ends, at any point: the kernel applies its undo record.
Exit(p) ==
  /\ p \in Mortal
  /\ pc[p] # "dead"
  /\ activeReaders' = NonNegative(activeReaders + undo[p].activeReaders)
  /\ totalWriters' = NonNegative(totalWriters + undo[p].totalWriters)
  /\ activeWriterSem' = NonNegative(activeWriterSem + undo[p].activeWriterSem)
  /\ undo' = [undo EXCEPT ![p] = NoUndo]
  /\ Goto(p, "dead")

\* A process is started again and opens the existing set without a reset.
Open(p) ==
  /\ pc[p] = "dead"
  /\ Goto(p, "idle")
  /\ UNCHANGED <<sems, undo>>

Step(p) ==
  \/ LockForRead(p) \/ AnnounceWriter(p) \/ ReadersDrained(p)
  \/ DrainInterrupted(p) \/ DrainTakenBack(p)
  \/ TakeWriterSlot(p) \/ SlotInterrupted(p) \/ SlotTakenBack(p)
  \/ UnlockReader(p) \/ UnlockNoReader(p) \/ UnlockWriter(p)
  \/ Exit(p) \/ Open(p)

Next == \E p \in Procs : Step(p)

\* A caller that has the lock releases it, a semop() that can go ahead does,
\* and the kernel serves the writers queued for the slot in order.
Fairness ==
  \A p \in Procs :
    /\ WF_vars(ReadersDrained(p))
    /\ SF_vars(TakeWriterSlot(p))
    /\ WF_vars(DrainTakenBack(p)) /\ WF_vars(SlotTakenBack(p))
    /\ WF_vars(UnlockReader(p)) /\ WF_vars(UnlockNoReader(p))
    /\ WF_vars(UnlockWriter(p))

Safety == Init /\ [][Next]_vars
Spec == Safety /\ Fairness
-----------------------------------------------------------------------------
Readers == {p \in Procs : pc[p] = "reading"}
Writers == {p \in Procs : pc[p] \in {"writing", "unlock"}}
Waiting == {"drain", "drainFailed", "slot", "slotFailed"}  \* counted, without the slot
Announced == {p \in Procs : pc[p] \in Waiting \cup {"writing", "unlock"}}

\* The shape of the state: semaphores are never negative, and the pc and
\* undo record of every process are defined.
TypeOK ==
  /\ activeReaders \in Nat
  /\ totalWriters \in Nat
  /\ activeWriterSem \in Nat
  /\ undo \in [Procs -> UndoRecord]
  /\ pc \in [Procs -> PC]

\* As soon as one process writes, every other is out until it has finished,
\* whichever waits were cut short and whoever ended on the way
\* (qsystemreadwritelock_unix.cpp:178-182).
MutualExclusion ==
  \A p \in Writers : \A q \in Procs : q \in Readers \cup Writers => q = p

\* What the kernel would undo for a process that may end is exactly what the
\* process has of the lock: ending at any point takes back its share and
\* nothing else, so no other process loses what it was counted for.
UndoMatchesHoldings ==
  \A p \in Mortal :
    undo[p] = [activeReaders |-> IF p \in Readers THEN -1 ELSE 0,
               totalWriters |-> IF p \in Announced THEN -1 ELSE 0,
               activeWriterSem |-> IF p \in Writers THEN 1 ELSE 0]

\* A lockForWrite() call does not wait for ever: it gets the lock, returns
\* with an error, or its process ends - even if holders die holding the lock.
WriteCallReturns ==
  \A p \in Procs :
    pc[p] = "drain" ~> pc[p] \in {"writing", "idle", "dead"}

Promise == INSTANCE AbstractReadWriteLock WITH
  mode <- [p \in Procs |-> CASE pc[p] \in {"idle", "dead"} -> "none"
                             [] pc[p] \in Waiting -> "pending"
                             [] pc[p] = "reading" -> "read"
                             [] OTHER -> "write"]

\* Every step of the semaphores is a step of the abstract lock or invisible
\* there: in particular no reader gets in past a waiting writer.
ImplementsPromise == Promise!Spec
=============================================================================
