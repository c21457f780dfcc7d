------------------------------- MODULE MCTree -------------------------------
(***************************************************************************)
(* Small instances of FixedMemoryTree: two clients, each with a publisher  *)
(* or two.                                                                 *)
(***************************************************************************)
EXTENDS FixedMemoryTree

A == [client |-> "a", publisher |-> "p1"]
A2 == [client |-> "a", publisher |-> "p2"]
B == [client |-> "b", publisher |-> "p1"]
TwoOwners == {A, B}
ThreeOwners == {A, A2, B}

X == <<"x">>
X1 == <<"x", "1">>
Y == <<"y">>

\* Both clients publish one path, one of them another; both watch an object's
\* path that has no value of its own.
LeafPublish == {<<A, X1>>, <<B, X1>>, <<B, Y>>}
ObjectWatch == {<<A, X>>, <<B, X>>}

\* The object's own path is given a value too.
ObjectPublish == LeafPublish \cup {<<A, X>>}

\* Another publisher of the first client has the object, and the first one
\* a value elsewhere that the client's leaving would take too.
SharedPublish == {<<A, X1>>, <<A, Y>>, <<A2, X>>}

\* Both clients publish the object's path, which is watched.
WatchedPublish == {<<A, X>>, <<B, X>>}
=============================================================================
