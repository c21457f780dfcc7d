------------------------------- MODULE MCLayer -------------------------------
(***************************************************************************)
(* Small instances of SharedMemoryLayer.                                   *)
(***************************************************************************)
EXTENDS SharedMemoryLayer

CONSTANTS c1, c2, s

X1 == <<"x", "1">>
Y == <<"y">>

\* One client publishes, the other and the server's process subscribe; a local
\* publisher in the server's process makes traffic.
Publishers == {<<c1, X1>>, <<s, Y>>}
Reader == {<<c2, X1>>}
Audience == {<<c2, X1>>, <<s, X1>>}

\* Each client subscribes, one in passes that can be overtaken.
CrossAudience == {<<c2, X1>>, <<c1, Y>>}

\* A client subscribes to what the server's process publishes.
LocalAudience == {<<c2, Y>>}
=============================================================================
