---------------------------- MODULE PublishedValues ----------------------------
(***************************************************************************)
(* What the value space promises its publishers: every owner has its own   *)
(* value at every path it publishes, which changes only when the owner     *)
(* sets it, removes it, or its client goes away.                           *)
(***************************************************************************)
EXTENDS Integers, SequencesExt

CONSTANTS Publish,  \* pairs <<owner, path>>
          Values

VARIABLE value

None == 0

Init == value = [x \in Publish |-> None]

Set(x, v) == value' = [value EXCEPT ![x] = v]

\* An owner takes back what it has at a path and below.
Withdraw(o, p) ==
  value' = [x \in Publish |->
              IF x[1] = o /\ IsPrefix(p, x[2]) THEN None ELSE value[x]]

Leave(c) ==
  value' = [x \in Publish |-> IF x[1].client = c THEN None ELSE value[x]]

Next ==
  \/ \E x \in Publish, v \in Values : Set(x, v)
  \/ \E x \in Publish : \E n \in 0 .. Len(x[2]) : Withdraw(x[1], SubSeq(x[2], 1, n))
  \/ \E x \in Publish : Leave(x[1].client)

Spec == Init /\ [][Next]_value
=============================================================================
