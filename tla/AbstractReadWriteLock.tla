----------------------- MODULE AbstractReadWriteLock -----------------------
(***************************************************************************)
(* What QSystemReadWriteLock promises its callers: any number of readers   *)
(* or one writer, and a waiting writer keeps new readers out.  It knows    *)
(* nothing of semaphores, of undo records or of how many steps a call      *)
(* takes; SystemReadWriteLock is shown to implement it.                    *)
(***************************************************************************)
CONSTANT Procs   \* the processes sharing the lock

VARIABLE mode    \* what each process has of the lock

Modes == {"none", "pending", "read", "write"}

Having(m) == {p \in Procs : mode[p] = m}

Grant(p, m) == mode' = [mode EXCEPT ![p] = m]

Init == mode = [p \in Procs |-> "none"]

\* A process asks to write: from here on no new reader is admitted.
Ask(p) == mode[p] = "none" /\ Grant(p, "pending")

Read(p) ==
  /\ mode[p] = "none"
  /\ Having("pending") = {} /\ Having("write") = {}
  /\ Grant(p, "read")

Write(p) ==
  /\ mode[p] = "pending"
  /\ Having("read") = {} /\ Having("write") = {}
  /\ Grant(p, "write")

\* A process unlocks, gives up waiting, or ends: it has nothing any more.
Drop(p) == mode[p] # "none" /\ Grant(p, "none")

Next == \E p \in Procs : Ask(p) \/ Read(p) \/ Write(p) \/ Drop(p)

Spec == Init /\ [][Next]_mode
=============================================================================
