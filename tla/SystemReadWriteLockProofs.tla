--------------------- MODULE SystemReadWriteLockProofs ---------------------
(***************************************************************************)
(* Safety of the semaphore lock for any finite set of processes: the type  *)
(* invariant without conditions, mutual exclusion, the undo accounting and *)
(* the refinement of AbstractReadWriteLock as long as no process that may  *)
(* end is one whose wait for the writer's slot can be cut short.           *)
(*                                                                         *)
(* The inductive invariant says what each semaphore counts, that undo      *)
(* records match what processes hold, and that from the moment one writer  *)
(* has seen the readers drained there is no reader.                        *)
(***************************************************************************)
EXTENDS SystemReadWriteLock, FiniteSetTheorems, TLAPS

\* The undo entries that every process keeps exact, and the writer count's
\* for the processes that may end.
UndoExact ==
  /\ UndoMatchesHoldings
  /\ \A p \in Procs :
       /\ undo[p].activeReaders = IF p \in Readers THEN -1 ELSE 0
       /\ undo[p].activeWriterSem = IF p \in Writers THEN 1 ELSE 0

\* Each semaphore counts the processes it is named for.
Counts ==
  /\ activeReaders = Cardinality(Readers)
  /\ totalWriters = Cardinality(Announced)
  /\ activeWriterSem = 1 - Cardinality(Writers)

\* Writers that have passed the wait for readers.
Drained == {p \in Procs : pc[p] \in {"slot", "writing", "unlock"}}
NoReaderOnceDrained == Drained # {} => Readers = {}

IInv == TypeOK /\ UndoExact /\ Counts /\ NoReaderOnceDrained
-----------------------------------------------------------------------------
\* Adding and removing one element of a finite set, in the form the steps use.
LEMMA OneMore ==
  ASSUME NEW S, IsFiniteSet(S), NEW x
  PROVE  /\ Cardinality(S) \in Nat
         /\ x \notin S => Cardinality(S \cup {x}) = Cardinality(S) + 1
         /\ x \in S => Cardinality(S \ {x}) = Cardinality(S) - 1
         /\ x \in S => Cardinality(S) > 0
<1>1. Cardinality(S) \in Nat
  BY FS_CardinalityType
<1>2. x \notin S => Cardinality(S \cup {x}) = Cardinality(S) + 1
  BY FS_AddElement
<1>3. Cardinality(S \ {x}) = IF x \in S THEN Cardinality(S) - 1
                                        ELSE Cardinality(S)
  BY FS_RemoveElement
<1>4. x \in S => Cardinality(S) > 0
  BY <1>1, FS_EmptySet
<1> QED
  BY <1>1, <1>2, <1>3, <1>4

\* The sets counted are finite, because Procs is.
LEMMA FiniteGroups ==
  IsFiniteSet(Readers) /\ IsFiniteSet(Announced) /\ IsFiniteSet(Writers)
BY ProcsAssumption, FS_Subset DEF Readers, Announced, Writers

\* What moving one process does to the groups.
LEMMA GroupsAfterGoto ==
  ASSUME pc \in [Procs -> PC], NEW p \in Procs, NEW l \in PC, Goto(p, l)
  PROVE  /\ pc' \in [Procs -> PC]
         /\ pc'[p] = l
         /\ \A q \in Procs : q # p => pc'[q] = pc[q]
         /\ Readers' = IF l = "reading" THEN Readers \cup {p}
                                        ELSE Readers \ {p}
         /\ Announced' = IF l \in Waiting \cup {"writing", "unlock"}
                           THEN Announced \cup {p} ELSE Announced \ {p}
         /\ Writers' = IF l \in {"writing", "unlock"}
                         THEN Writers \cup {p} ELSE Writers \ {p}
         /\ Drained' = IF l \in {"slot", "writing", "unlock"}
                         THEN Drained \cup {p} ELSE Drained \ {p}
<1>1. pc' \in [Procs -> PC] /\ pc'[p] = l
  BY DEF Goto
<1>2. \A q \in Procs : q # p => pc'[q] = pc[q]
  BY DEF Goto
<1>3. Readers' = IF l = "reading" THEN Readers \cup {p} ELSE Readers \ {p}
  BY <1>1, <1>2 DEF Readers
<1>4. Announced' = IF l \in Waiting \cup {"writing", "unlock"}
                     THEN Announced \cup {p} ELSE Announced \ {p}
  BY <1>1, <1>2 DEF Announced
<1>5. Writers' = IF l \in {"writing", "unlock"} THEN Writers \cup {p}
                                                 ELSE Writers \ {p}
  BY <1>1, <1>2 DEF Writers
<1>6. Drained' = IF l \in {"slot", "writing", "unlock"}
                   THEN Drained \cup {p} ELSE Drained \ {p}
  BY <1>1, <1>2 DEF Drained
<1> QED
  BY <1>1, <1>2, <1>3, <1>4, <1>5, <1>6

-----------------------------------------------------------------------------
\* One step of any process keeps the shape of the state.
LEMMA TypeStep == TypeOK /\ [Next]_vars => TypeOK'
<1> SUFFICES ASSUME TypeOK, [Next]_vars PROVE TypeOK'
  OBVIOUS
<1> USE DEF TypeOK, Goto, PC, UndoRecord, sems
<1>1. CASE UNCHANGED vars
  BY <1>1 DEF vars
<1>2. ASSUME NEW p \in Procs, Step(p) PROVE TypeOK'
  <2>1. CASE LockForRead(p)
    BY <2>1 DEF LockForRead
  <2>2. CASE AnnounceWriter(p)
    BY <2>2 DEF AnnounceWriter
  <2>3. CASE ReadersDrained(p)
    BY <2>3 DEF ReadersDrained
  <2>4. CASE DrainInterrupted(p)
    BY <2>4 DEF DrainInterrupted
  <2>5. CASE TakeWriterSlot(p)
    BY <2>5 DEF TakeWriterSlot
  <2>6. CASE SlotInterrupted(p)
    BY <2>6 DEF SlotInterrupted
  <2>7. CASE UnlockReader(p)
    BY <2>7 DEF UnlockReader
  <2>8. CASE UnlockNoReader(p)
    BY <2>8 DEF UnlockNoReader
  <2>9. CASE UnlockWriter(p)
    BY <2>9 DEF UnlockWriter
  <2>10. CASE Exit(p)
    BY <2>10 DEF Exit, NonNegative, NoUndo
  <2>11. CASE Open(p)
    BY <2>11 DEF Open
  <2>12. CASE DrainTakenBack(p)
    BY <2>12 DEF DrainTakenBack
  <2>13. CASE SlotTakenBack(p)
    BY <2>13 DEF SlotTakenBack
  <2> QED
    BY <1>2, <2>1, <2>2, <2>3, <2>4, <2>5, <2>6, <2>7, <2>8, <2>9, <2>10,
       <2>11, <2>12, <2>13 DEF Step
<1> QED
  BY <1>1, <1>2 DEF Next

\* Semaphores are never negative and undo records stay records of integers:
\* this needs no condition on who may end or be signalled.
THEOREM TypeCorrect == Safety => []TypeOK
<1>1. Init => TypeOK
  BY DEF Init, TypeOK, NoUndo, UndoRecord, PC
<1> QED
  BY <1>1, TypeStep, PTL DEF Safety
-----------------------------------------------------------------------------
LEMMA InitIInv == Init => IInv
<1> SUFFICES ASSUME Init PROVE IInv
  OBVIOUS
<1>1. TypeOK
  BY DEF Init, TypeOK, NoUndo, UndoRecord, PC
<1>2. Readers = {} /\ Announced = {} /\ Writers = {} /\ Drained = {}
  BY DEF Init, Readers, Announced, Writers, Drained, Waiting
<1>3. Counts
  BY <1>2, FS_EmptySet DEF Counts, Init
<1>4. UndoExact
  BY <1>2, MortalAssumption DEF UndoExact, UndoMatchesHoldings, Init, NoUndo
<1> QED
  BY <1>1, <1>2, <1>3, <1>4 DEF IInv, NoReaderOnceDrained

\* A semaphore at zero counts nobody.
LEMMA ZeroMeansNone ==
  ASSUME Counts
  PROVE  /\ activeReaders = 0 => Readers = {}
         /\ totalWriters = 0 => Announced = {}
         /\ activeWriterSem = 1 => Writers = {}
<1>1. Cardinality(Readers) = 0 => Readers = {}
  BY FiniteGroups, FS_EmptySet
<1>2. Cardinality(Announced) = 0 => Announced = {}
  BY FiniteGroups, FS_EmptySet
<1>3. Cardinality(Writers) = 0 => Writers = {}
  BY FiniteGroups, FS_EmptySet
<1>4. Cardinality(Writers) \in Nat
  BY FiniteGroups, FS_CardinalityType
<1> QED
  BY <1>1, <1>2, <1>3, <1>4 DEF Counts

\* How many elements a set has once x is put in or taken out.
LEMMA CardinalityAfterMove ==
  ASSUME NEW S, IsFiniteSet(S), NEW x, NEW In \in BOOLEAN, NEW T,
         T = IF In THEN S \cup {x} ELSE S \ {x}
  PROVE  Cardinality(T) = Cardinality(S) + (IF In /\ x \notin S THEN 1 ELSE 0)
                                         - (IF ~In /\ x \in S THEN 1 ELSE 0)
<1>1. Cardinality(S) \in Nat
  BY FS_CardinalityType
<1>2. CASE In
  <2>1. T = S \cup {x}
    BY <1>2
  <2>2. Cardinality(T) = IF x \in S THEN Cardinality(S) ELSE Cardinality(S) + 1
    BY <2>1, FS_AddElement
  <2> QED
    BY <1>1, <1>2, <2>2
<1>3. CASE ~In
  <2>1. T = S \ {x}
    BY <1>3
  <2>2. Cardinality(T) = IF x \in S THEN Cardinality(S) - 1 ELSE Cardinality(S)
    BY <2>1, FS_RemoveElement
  <2> QED
    BY <1>1, <1>3, <2>2
<1> QED
  BY <1>2, <1>3

\* What the groups count after one process moved to l.
LEMMA CountsAfterGoto ==
  ASSUME TypeOK, Counts, NEW p \in Procs, NEW l \in PC, Goto(p, l)
  PROVE  /\ Cardinality(Readers') = activeReaders
              + (IF l = "reading" /\ p \notin Readers THEN 1 ELSE 0)
              - (IF ~(l = "reading") /\ p \in Readers THEN 1 ELSE 0)
         /\ Cardinality(Announced') = totalWriters
              + (IF l \in Waiting \cup {"writing", "unlock"}
                    /\ p \notin Announced THEN 1 ELSE 0)
              - (IF ~(l \in Waiting \cup {"writing", "unlock"})
                    /\ p \in Announced THEN 1 ELSE 0)
         /\ Cardinality(Writers') = (1 - activeWriterSem)
              + (IF l \in {"writing", "unlock"} /\ p \notin Writers THEN 1 ELSE 0)
              - (IF ~(l \in {"writing", "unlock"}) /\ p \in Writers THEN 1 ELSE 0)
<1> DEFINE counted == l \in Waiting \cup {"writing", "unlock"}
<1>0. /\ Readers' = IF l = "reading" THEN Readers \cup {p} ELSE Readers \ {p}
      /\ Announced' = IF counted THEN Announced \cup {p} ELSE Announced \ {p}
      /\ Writers' = IF l \in {"writing", "unlock"} THEN Writers \cup {p} ELSE Writers \ {p}
  BY GroupsAfterGoto DEF TypeOK
<1> USE FiniteGroups
<1>1. Cardinality(Writers) = 1 - activeWriterSem
  BY FS_CardinalityType DEF Counts, TypeOK
<1>2. Cardinality(Readers') = Cardinality(Readers)
        + (IF l = "reading" /\ p \notin Readers THEN 1 ELSE 0)
        - (IF ~(l = "reading") /\ p \in Readers THEN 1 ELSE 0)
  BY <1>0, CardinalityAfterMove
<1>3. Cardinality(Announced') = Cardinality(Announced)
        + (IF l \in Waiting \cup {"writing", "unlock"}
              /\ p \notin Announced THEN 1 ELSE 0)
        - (IF ~(l \in Waiting \cup {"writing", "unlock"})
              /\ p \in Announced THEN 1 ELSE 0)
  BY <1>0, CardinalityAfterMove
<1>4. Cardinality(Writers') = Cardinality(Writers)
        + (IF l \in {"writing", "unlock"} /\ p \notin Writers THEN 1 ELSE 0)
        - (IF ~(l \in {"writing", "unlock"}) /\ p \in Writers THEN 1 ELSE 0)
  BY <1>0, CardinalityAfterMove
<1> QED
  BY <1>1, <1>2, <1>3, <1>4 DEF Counts

\* The writer count a process that may end would give back.
LEMMA UndoFields ==
  ASSUME UndoExact, NEW q \in Mortal
  PROVE  undo[q].totalWriters = IF q \in Announced THEN -1 ELSE 0
<1>1. undo[q] = [activeReaders |-> IF q \in Readers THEN -1 ELSE 0,
                 totalWriters |-> IF q \in Announced THEN -1 ELSE 0,
                 activeWriterSem |-> IF q \in Writers THEN 1 ELSE 0]
  BY DEF UndoExact, UndoMatchesHoldings
<1> QED
  BY <1>1

\* Undo records stay exact when the process that moved to l keeps its own
\* record so and nobody else's changes.
LEMMA UndoAfterGoto ==
  ASSUME TypeOK, UndoExact, NEW p \in Procs, NEW l \in PC, Goto(p, l),
         undo' \in [Procs -> UndoRecord],
         \A q \in Procs : q # p => undo'[q] = undo[q],
         undo'[p].activeReaders = IF l = "reading" THEN -1 ELSE 0,
         undo'[p].activeWriterSem = IF l \in {"writing", "unlock"} THEN 1 ELSE 0,
         p \in Mortal => undo'[p].totalWriters =
            IF l \in Waiting \cup {"writing", "unlock"} THEN -1 ELSE 0
  PROVE  UndoExact'
<1> USE MortalAssumption
<1>1. ASSUME NEW q \in Procs, q # p
      PROVE  /\ (q \in Readers') <=> (q \in Readers)
             /\ (q \in Announced') <=> (q \in Announced)
             /\ (q \in Writers') <=> (q \in Writers)
  BY <1>1, GroupsAfterGoto DEF TypeOK
<1>2. /\ (p \in Readers') <=> (l = "reading")
      /\ (p \in Announced') <=> (l \in Waiting \cup {"writing", "unlock"})
      /\ (p \in Writers') <=> (l \in {"writing", "unlock"})
  BY GroupsAfterGoto DEF TypeOK
<1>3. ASSUME NEW q \in Procs
      PROVE  /\ undo'[q].activeReaders = IF q \in Readers' THEN -1 ELSE 0
             /\ undo'[q].activeWriterSem = IF q \in Writers' THEN 1 ELSE 0
  <2>1. CASE q = p
    BY <1>2, <2>1
  <2>2. CASE q # p
    BY <1>1, <1>3, <2>2 DEF UndoExact
  <2> QED
    BY <2>1, <2>2
<1>4. ASSUME NEW q \in Mortal
      PROVE  undo'[q].totalWriters = IF q \in Announced' THEN -1 ELSE 0
  <2>1. CASE q = p
    BY <1>2, <2>1
  <2>2. CASE q # p
    <3>1. undo[q].totalWriters = IF q \in Announced THEN -1 ELSE 0
      BY <1>4, UndoFields
    <3> QED
      BY <1>1, <1>4, <2>2, <3>1
  <2> QED
    BY <2>1, <2>2
<1>5. ASSUME NEW q \in Mortal
      PROVE  undo'[q] = [activeReaders |-> IF q \in Readers' THEN -1 ELSE 0,
                         totalWriters |-> IF q \in Announced' THEN -1 ELSE 0,
                         activeWriterSem |-> IF q \in Writers' THEN 1 ELSE 0]
  BY <1>3, <1>4, <1>5 DEF UndoRecord
<1> QED
  BY <1>3, <1>5 DEF UndoExact, UndoMatchesHoldings

\* Every step keeps the invariant; a process that may end must not be one
\* whose wait for the slot can be cut short, or it is left owing a decrement.
LEMMA StepIInv ==
  ASSUME Signalled \cap Mortal = {}, IInv, NEW p \in Procs, Step(p)
  PROVE  IInv'
<1> USE DEF PC, Waiting
<1>1. TypeOK /\ Counts /\ UndoExact /\ NoReaderOnceDrained
  BY DEF IInv
<1>2. TypeOK'
  BY <1>1, TypeStep DEF Next
<1>3. undo' \in [Procs -> UndoRecord] /\ undo \in [Procs -> UndoRecord]
  BY <1>1, <1>2 DEF TypeOK
<1>4. /\ (p \in Readers) <=> (pc[p] = "reading")
      /\ (p \in Announced) <=> (pc[p] \in Waiting \cup {"writing", "unlock"})
      /\ (p \in Writers) <=> (pc[p] \in {"writing", "unlock"})
      /\ (p \in Drained) <=> (pc[p] \in {"slot", "writing", "unlock"})
  BY DEF Readers, Writers, Announced, Drained
<1>5. /\ undo[p].activeReaders = IF pc[p] = "reading" THEN -1 ELSE 0
      /\ undo[p].activeWriterSem = IF pc[p] \in {"writing", "unlock"} THEN 1 ELSE 0
      /\ p \in Mortal => undo[p].totalWriters =
            IF pc[p] \in Waiting \cup {"writing", "unlock"} THEN -1 ELSE 0
  BY <1>1, <1>4, UndoFields DEF UndoExact
<1>6. CASE LockForRead(p)
  <2>1. Goto(p, "reading") /\ pc[p] = "idle"
    BY <1>6 DEF LockForRead
  <2>2. Announced = {}
    BY <1>1, <1>6, ZeroMeansNone DEF LockForRead
  <2>3. Counts'
    BY <1>1, <1>4, <1>6, <2>1, CountsAfterGoto DEF LockForRead, Counts, TypeOK
  <2>4. Drained' = {}
    BY <1>1, <2>1, <2>2, GroupsAfterGoto DEF TypeOK, Drained, Announced
  <2>5. UndoExact'
    BY <1>1, <1>3, <1>5, <1>6, <2>1, UndoAfterGoto DEF LockForRead, UndoRecord
  <2> QED
    BY <1>2, <2>3, <2>4, <2>5 DEF IInv, NoReaderOnceDrained
<1>7. CASE AnnounceWriter(p)
  <2>1. Goto(p, "drain") /\ pc[p] = "idle"
    BY <1>1, <1>4, <1>7, ZeroMeansNone DEF AnnounceWriter, NoReaderOnceDrained
  <2>2. Counts'
    BY <1>1, <1>4, <1>7, <2>1, CountsAfterGoto
       DEF AnnounceWriter, Counts, TypeOK, sems
  <2>3. NoReaderOnceDrained'
    BY <1>1, <1>4, <1>7, <2>1, GroupsAfterGoto, ZeroMeansNone
       DEF AnnounceWriter, TypeOK, NoReaderOnceDrained
  <2>4. UndoExact'
    BY <1>1, <1>3, <1>5, <1>7, <2>1, UndoAfterGoto
       DEF AnnounceWriter, UndoRecord
  <2> QED
    BY <1>2, <2>2, <2>3, <2>4 DEF IInv
<1>8. CASE ReadersDrained(p)
  <2>1. Goto(p, "slot") /\ pc[p] = "drain"
    BY <1>1, <1>4, <1>8, ZeroMeansNone DEF ReadersDrained, NoReaderOnceDrained
  <2>2. Counts'
    BY <1>1, <1>4, <1>8, <2>1, CountsAfterGoto
       DEF ReadersDrained, Counts, TypeOK, sems
  <2>3. NoReaderOnceDrained'
    BY <1>1, <1>4, <1>8, <2>1, GroupsAfterGoto, ZeroMeansNone
       DEF ReadersDrained, TypeOK, NoReaderOnceDrained
  <2>4. UndoExact'
    BY <1>1, <1>3, <1>5, <1>8, <2>1, UndoAfterGoto
       DEF ReadersDrained, UndoRecord
  <2> QED
    BY <1>2, <2>2, <2>3, <2>4 DEF IInv
<1>9. CASE DrainInterrupted(p)
  <2>1. Goto(p, "drainFailed") /\ pc[p] = "drain"
    BY <1>9 DEF DrainInterrupted
  <2>2. Counts'
    BY <1>1, <1>4, <1>9, <2>1, CountsAfterGoto
       DEF DrainInterrupted, Counts, TypeOK, sems
  <2>3. NoReaderOnceDrained'
    BY <1>1, <1>4, <1>9, <2>1, GroupsAfterGoto, ZeroMeansNone
       DEF DrainInterrupted, TypeOK, NoReaderOnceDrained
  <2>4. UndoExact'
    BY <1>1, <1>3, <1>5, <1>9, <2>1, UndoAfterGoto
       DEF DrainInterrupted, UndoRecord
  <2> QED
    BY <1>2, <2>2, <2>3, <2>4 DEF IInv
<1>10. CASE TakeWriterSlot(p)
  <2>1. Goto(p, "writing") /\ pc[p] = "slot"
    BY <1>1, <1>4, <1>10, ZeroMeansNone DEF TakeWriterSlot, NoReaderOnceDrained
  <2>2. Counts'
    BY <1>1, <1>4, <1>10, <2>1, CountsAfterGoto
       DEF TakeWriterSlot, Counts, TypeOK, sems
  <2>3. NoReaderOnceDrained'
    BY <1>1, <1>4, <1>10, <2>1, GroupsAfterGoto, ZeroMeansNone
       DEF TakeWriterSlot, TypeOK, NoReaderOnceDrained
  <2>4. UndoExact'
    BY <1>1, <1>3, <1>5, <1>10, <2>1, UndoAfterGoto
       DEF TakeWriterSlot, UndoRecord
  <2> QED
    BY <1>2, <2>2, <2>3, <2>4 DEF IInv
<1>11. CASE SlotInterrupted(p)
  <2>1. Goto(p, "slotFailed") /\ pc[p] = "slot"
    BY <1>11 DEF SlotInterrupted
  <2>2. Counts'
    BY <1>1, <1>4, <1>11, <2>1, CountsAfterGoto
       DEF SlotInterrupted, Counts, TypeOK, sems
  <2>3. NoReaderOnceDrained'
    BY <1>1, <1>4, <1>11, <2>1, GroupsAfterGoto, ZeroMeansNone
       DEF SlotInterrupted, TypeOK, NoReaderOnceDrained
  <2>4. UndoExact'
    BY <1>1, <1>3, <1>5, <1>11, <2>1, UndoAfterGoto
       DEF SlotInterrupted, UndoRecord
  <2> QED
    BY <1>2, <2>2, <2>3, <2>4 DEF IInv
<1>12. CASE UnlockReader(p)
  <2>1. Goto(p, "idle") /\ pc[p] = "reading"
    <3>1. Readers # {}
      BY <1>1, <1>12, FS_EmptySet DEF UnlockReader, Counts
    <3> QED
      BY <1>1, <1>4, <1>12, <3>1 DEF UnlockReader, NoReaderOnceDrained
  <2>2. Counts'
    BY <1>1, <1>4, <1>12, <2>1, CountsAfterGoto
       DEF UnlockReader, Counts, TypeOK, sems
  <2>3. NoReaderOnceDrained'
    BY <1>1, <1>4, <1>12, <2>1, GroupsAfterGoto, ZeroMeansNone
       DEF UnlockReader, TypeOK, NoReaderOnceDrained
  <2>4. UndoExact'
    BY <1>1, <1>3, <1>5, <1>12, <2>1, UndoAfterGoto
       DEF UnlockReader, UndoRecord
  <2> QED
    BY <1>2, <2>2, <2>3, <2>4 DEF IInv
<1>13. CASE UnlockNoReader(p)
  <2>1. Goto(p, "unlock") /\ pc[p] = "writing"
    BY <1>1, <1>4, <1>13, ZeroMeansNone DEF UnlockNoReader, NoReaderOnceDrained
  <2>2. Counts'
    BY <1>1, <1>4, <1>13, <2>1, CountsAfterGoto
       DEF UnlockNoReader, Counts, TypeOK, sems
  <2>3. NoReaderOnceDrained'
    BY <1>1, <1>4, <1>13, <2>1, GroupsAfterGoto, ZeroMeansNone
       DEF UnlockNoReader, TypeOK, NoReaderOnceDrained
  <2>4. UndoExact'
    BY <1>1, <1>3, <1>5, <1>13, <2>1, UndoAfterGoto
       DEF UnlockNoReader, UndoRecord
  <2> QED
    BY <1>2, <2>2, <2>3, <2>4 DEF IInv
<1>14. CASE UnlockWriter(p)
  <2>1. Goto(p, "idle") /\ pc[p] = "unlock"
    BY <1>14 DEF UnlockWriter
  <2>2. activeWriterSem = 0
    <3>1. Cardinality(Writers) \in Nat /\ Cardinality(Writers) > 0
      BY <1>4, <2>1, FiniteGroups, OneMore
    <3> QED
      BY <1>1, <3>1 DEF Counts, TypeOK
  <2>3. Counts'
    BY <1>1, <1>4, <1>14, <2>1, <2>2, CountsAfterGoto
       DEF UnlockWriter, Counts, TypeOK
  <2>4. NoReaderOnceDrained'
    BY <1>1, <1>4, <2>1, GroupsAfterGoto DEF TypeOK, NoReaderOnceDrained
  <2>5. UndoExact'
    BY <1>1, <1>3, <1>5, <1>14, <2>1, <2>2, UndoAfterGoto
       DEF UnlockWriter, UndoRecord
  <2> QED
    BY <1>2, <2>3, <2>4, <2>5 DEF IInv
<1>15. CASE Exit(p)
  <2>1. Goto(p, "dead") /\ p \in Mortal
    BY <1>15 DEF Exit
  <2>2. Counts'
    <3>1. /\ Cardinality(Readers') \in Nat
          /\ Cardinality(Announced') \in Nat
          /\ Cardinality(Writers') \in Nat
      <4>1. /\ Readers' = Readers \ {p}
            /\ Announced' = Announced \ {p}
            /\ Writers' = Writers \ {p}
        BY <1>1, <2>1, GroupsAfterGoto DEF TypeOK
      <4> QED
        BY <4>1, FiniteGroups, FS_RemoveElement, FS_CardinalityType
    <3>2. /\ Cardinality(Readers') = activeReaders + undo[p].activeReaders
          /\ Cardinality(Announced') = totalWriters + undo[p].totalWriters
          /\ Cardinality(Writers') = 1 - (activeWriterSem + undo[p].activeWriterSem)
      BY <1>1, <1>5, <1>4, <2>1, CountsAfterGoto DEF TypeOK
    <3>3. activeWriterSem + undo[p].activeWriterSem >= 0
      BY <1>1, <1>5 DEF TypeOK
    <3>4. /\ activeReaders' = activeReaders + undo[p].activeReaders
          /\ totalWriters' = totalWriters + undo[p].totalWriters
          /\ activeWriterSem' = activeWriterSem + undo[p].activeWriterSem
      <4>1. /\ activeReaders + undo[p].activeReaders \in Nat
            /\ totalWriters + undo[p].totalWriters \in Nat
            /\ activeWriterSem + undo[p].activeWriterSem \in Int
        BY <1>1, <1>3, <3>1, <3>2 DEF TypeOK, UndoRecord
      <4> QED
        BY <1>15, <3>3, <4>1 DEF Exit, NonNegative
    <3> QED
      BY <3>2, <3>4, <1>1, <1>3 DEF Counts, TypeOK, UndoRecord
  <2>3. NoReaderOnceDrained'
    BY <1>1, <1>4, <2>1, GroupsAfterGoto DEF TypeOK, NoReaderOnceDrained
  <2>4. UndoExact'
    BY <1>1, <1>3, <1>15, <2>1, UndoAfterGoto DEF Exit, NoUndo
  <2> QED
    BY <1>2, <2>2, <2>3, <2>4 DEF IInv
<1>16. CASE Open(p)
  <2>1. Goto(p, "idle") /\ pc[p] = "dead"
    BY <1>1, <1>4, <1>16, ZeroMeansNone DEF Open, NoReaderOnceDrained
  <2>2. Counts'
    BY <1>1, <1>4, <1>16, <2>1, CountsAfterGoto DEF Open, Counts, TypeOK, sems
  <2>3. NoReaderOnceDrained'
    BY <1>1, <1>4, <1>16, <2>1, GroupsAfterGoto, ZeroMeansNone
       DEF Open, TypeOK, NoReaderOnceDrained
  <2>4. UndoExact'
    BY <1>1, <1>3, <1>5, <1>16, <2>1, UndoAfterGoto DEF Open, UndoRecord
  <2> QED
    BY <1>2, <2>2, <2>3, <2>4 DEF IInv
<1>17. CASE DrainTakenBack(p)
  <2>1. Goto(p, "idle") /\ pc[p] = "drainFailed"
    BY <1>17 DEF DrainTakenBack
  <2>2. Counts'
    BY <1>1, <1>4, <1>17, <2>1, CountsAfterGoto
       DEF DrainTakenBack, Counts, TypeOK, sems
  <2>3. NoReaderOnceDrained'
    BY <1>1, <1>4, <1>17, <2>1, GroupsAfterGoto, ZeroMeansNone
       DEF DrainTakenBack, TypeOK, NoReaderOnceDrained
  <2>4. UndoExact'
    BY <1>1, <1>3, <1>5, <1>17, <2>1, UndoAfterGoto
       DEF DrainTakenBack, UndoRecord
  <2> QED
    BY <1>2, <2>2, <2>3, <2>4 DEF IInv
<1>18. CASE SlotTakenBack(p)
  <2>1. Goto(p, "idle") /\ pc[p] = "slotFailed"
    BY <1>18 DEF SlotTakenBack
  <2>2. Counts'
    BY <1>1, <1>4, <1>18, <2>1, CountsAfterGoto
       DEF SlotTakenBack, Counts, TypeOK, sems
  <2>3. NoReaderOnceDrained'
    BY <1>1, <1>4, <1>18, <2>1, GroupsAfterGoto, ZeroMeansNone
       DEF SlotTakenBack, TypeOK, NoReaderOnceDrained
  <2>4. UndoExact'
    BY <1>1, <1>3, <1>5, <1>18, <2>1, UndoAfterGoto
       DEF SlotTakenBack, UndoRecord
  <2> QED
    BY <1>2, <2>2, <2>3, <2>4 DEF IInv
<1> QED
  BY <1>6, <1>7, <1>8, <1>9, <1>10, <1>11, <1>12, <1>13, <1>14, <1>15, <1>16,
     <1>17, <1>18 DEF Step
-----------------------------------------------------------------------------
\* The invariant leaves room for one writer, and for no reader beside it.
LEMMA IInvExcludes == IInv => MutualExclusion
<1> SUFFICES ASSUME IInv, NEW p \in Writers, NEW q \in Readers \cup Writers
             PROVE  q = p
  BY DEF MutualExclusion
<1>1. Drained # {} /\ Readers = {}
  BY DEF IInv, NoReaderOnceDrained, Drained, Writers
<1>2. Cardinality(Writers) = 1
  <2>1. Cardinality(Writers) \in Nat /\ Cardinality(Writers) > 0
    BY FiniteGroups, OneMore
  <2> QED
    BY <2>1 DEF IInv, Counts, TypeOK
<1>3. PICK w : Writers = {w}
  BY <1>2, FiniteGroups, FS_Singleton
<1> QED
  BY <1>1, <1>3

LEMMA IInvInvariant ==
  ASSUME Signalled \cap Mortal = {}
  PROVE  Safety => []IInv
<1>1. IInv /\ [Next]_vars => IInv'
  <2> SUFFICES ASSUME IInv, [Next]_vars PROVE IInv'
    OBVIOUS
  <2>1. CASE Next
    BY <2>1, StepIInv DEF Next
  <2>2. CASE UNCHANGED vars
    BY <2>2 DEF vars, IInv, TypeOK, UndoExact, UndoMatchesHoldings, Counts,
                NoReaderOnceDrained, Readers, Announced, Writers, Drained
  <2> QED
    BY <2>1, <2>2
<1> QED
  BY <1>1, InitIInv, PTL DEF Safety

\* While a process writes no other reads or writes, for any number of
\* processes, even when processes end holding the lock or waiting for it.
THEOREM Exclusive ==
  ASSUME Signalled \cap Mortal = {}
  PROVE  Safety => []MutualExclusion
BY IInvInvariant, IInvExcludes, PTL

\* The kernel's undo of a process that may end is what the process has of
\* the lock, no more and no less.
THEOREM UndoIsExact ==
  ASSUME Signalled \cap Mortal = {}
  PROVE  Safety => []UndoMatchesHoldings
<1>1. IInv => UndoMatchesHoldings
  BY DEF IInv, UndoExact
<1> QED
  BY <1>1, IInvInvariant, PTL
-----------------------------------------------------------------------------
\* What each process has of the abstract lock.
Mode == [p \in Procs |-> CASE pc[p] \in {"idle", "dead"} -> "none"
                           [] pc[p] \in Waiting -> "pending"
                           [] pc[p] = "reading" -> "read"
                           [] OTHER -> "write"]

\* Moving one process in the semaphore lock moves it in the abstract one.
LEMMA ModeAfterGoto ==
  ASSUME TypeOK, NEW p \in Procs, NEW l \in PC, Goto(p, l)
  PROVE  Mode' = [Mode EXCEPT ![p] =
                    CASE l \in {"idle", "dead"} -> "none"
                      [] l \in Waiting -> "pending"
                      [] l = "reading" -> "read"
                      [] OTHER -> "write"]
BY DEF Mode, Goto, TypeOK, PC, Waiting

\* Who has what of the abstract lock, in terms of the groups.
LEMMA ModeGroups ==
  ASSUME TypeOK
  PROVE  /\ Promise!Having("read") = Readers
         /\ Promise!Having("write") = Writers
         /\ Promise!Having("pending") = Announced \ Writers
BY DEF Promise!Having, Readers, Writers, Announced, TypeOK, PC, Waiting

LEMMA StepPromise ==
  ASSUME Signalled \cap Mortal = {}, IInv, NEW p \in Procs, Step(p)
  PROVE  Promise!Next \/ Mode' = Mode
<1> USE DEF PC, Waiting
<1>1. TypeOK /\ Counts /\ UndoExact /\ NoReaderOnceDrained
  BY DEF IInv
<1>2. CASE LockForRead(p)
  <2>1. Goto(p, "reading") /\ pc[p] = "idle" /\ Announced = {}
    BY <1>1, <1>2, ZeroMeansNone DEF LockForRead
  <2>2. Promise!Having("pending") = {} /\ Promise!Having("write") = {}
    BY <1>1, <2>1, ModeGroups DEF Announced, Writers
  <2>3. Promise!Read(p)
    BY <1>1, <2>1, <2>2, ModeAfterGoto DEF Promise!Read, Promise!Grant, Mode
  <2> QED
    BY <2>3 DEF Promise!Next
<1>3. CASE AnnounceWriter(p)
  <2>1. Goto(p, "drain") /\ pc[p] = "idle"
    BY <1>3 DEF AnnounceWriter
  <2>2. Promise!Ask(p)
    BY <1>1, <2>1, ModeAfterGoto DEF Promise!Ask, Promise!Grant, Mode
  <2> QED
    BY <2>2 DEF Promise!Next
<1>4. CASE ReadersDrained(p)
  <2>1. Goto(p, "slot") /\ pc[p] = "drain"
    BY <1>4 DEF ReadersDrained
  <2> QED
    BY <1>1, <2>1 DEF Mode, Goto, TypeOK
<1>5. CASE TakeWriterSlot(p)
  <2>1. Goto(p, "writing") /\ pc[p] = "slot" /\ activeWriterSem > 0
    BY <1>5 DEF TakeWriterSlot
  <2>2. Readers = {}
    BY <1>1, <2>1 DEF NoReaderOnceDrained, Drained
  <2>3. Writers = {}
    <3>1. Cardinality(Writers) \in Nat
      BY FiniteGroups, FS_CardinalityType
    <3>2. activeWriterSem = 1
      BY <1>1, <2>1, <3>1 DEF Counts, TypeOK
    <3> QED
      BY <1>1, <3>2, ZeroMeansNone
  <2>4. Promise!Write(p)
    BY <1>1, <2>1, <2>2, <2>3, ModeAfterGoto, ModeGroups
       DEF Promise!Write, Promise!Grant, Mode
  <2> QED
    BY <2>4 DEF Promise!Next
<1>6. CASE UnlockNoReader(p)
  <2>1. Goto(p, "unlock") /\ pc[p] = "writing"
    BY <1>1, <1>6, ZeroMeansNone DEF UnlockNoReader, Readers
  <2> QED
    BY <1>1, <2>1 DEF Mode, Goto, TypeOK
<1>7. CASE Open(p)
  <2>1. Goto(p, "idle") /\ pc[p] = "dead"
    BY <1>7 DEF Open
  <2> QED
    BY <1>1, <2>1 DEF Mode, Goto, TypeOK
<1>8. ASSUME NEW l \in {"idle", "dead"}, Goto(p, l), pc[p] # "idle"
      PROVE  Promise!Next \/ Mode' = Mode
  <2>1. Mode' = [Mode EXCEPT ![p] = "none"]
    BY <1>1, <1>8, ModeAfterGoto
  <2>2. CASE Mode[p] = "none"
    BY <2>1, <2>2 DEF Mode
  <2>3. CASE Mode[p] # "none"
    <3>1. Promise!Drop(p)
      BY <2>1, <2>3 DEF Promise!Drop, Promise!Grant, Mode
    <3> QED
      BY <3>1 DEF Promise!Next
  <2> QED
    BY <2>2, <2>3
<1>9. CASE DrainTakenBack(p)
  BY <1>8, <1>9 DEF DrainTakenBack
<1>10. CASE SlotTakenBack(p)
  BY <1>8, <1>10 DEF SlotTakenBack
<1>11. CASE UnlockReader(p)
  BY <1>8, <1>11 DEF UnlockReader
<1>12. CASE UnlockWriter(p)
  BY <1>8, <1>12 DEF UnlockWriter
<1>13. CASE Exit(p)
  <2>1. CASE pc[p] = "idle"
    BY <1>1, <1>13, <2>1 DEF Exit, Mode, Goto, TypeOK
  <2> QED
    BY <1>8, <1>13, <2>1 DEF Exit
<1>14. CASE DrainInterrupted(p)
  <2>1. Goto(p, "drainFailed") /\ pc[p] = "drain"
    BY <1>14 DEF DrainInterrupted
  <2> QED
    BY <1>1, <2>1 DEF Mode, Goto, TypeOK
<1>15. CASE SlotInterrupted(p)
  <2>1. Goto(p, "slotFailed") /\ pc[p] = "slot"
    BY <1>15 DEF SlotInterrupted
  <2> QED
    BY <1>1, <2>1 DEF Mode, Goto, TypeOK
<1> QED
  BY <1>2, <1>3, <1>4, <1>5, <1>6, <1>7, <1>9, <1>10, <1>11, <1>12, <1>13,
     <1>14, <1>15 DEF Step

\* The semaphores implement the abstract lock: any number of readers or one
\* writer, and no reader admitted past a waiting writer.
THEOREM Implements ==
  ASSUME Signalled \cap Mortal = {}
  PROVE  Safety => ImplementsPromise
<1>1. Init => Promise!Init
  BY DEF Init, Promise!Init, Waiting
<1>2. IInv /\ [Next]_vars => [Promise!Next]_Mode
  <2> SUFFICES ASSUME IInv, [Next]_vars PROVE Promise!Next \/ Mode' = Mode
    OBVIOUS
  <2>1. CASE Next
    BY <2>1, StepPromise DEF Next
  <2>2. CASE UNCHANGED vars
    BY <2>2 DEF vars, Mode
  <2> QED
    BY <2>1, <2>2
<1>3. (Safety => []IInv) /\ (Init => Promise!Init)
  BY <1>1, IInvInvariant
<1> QED
  BY <1>2, <1>3, PTL DEF Safety, ImplementsPromise, Promise!Spec, Mode
=============================================================================
