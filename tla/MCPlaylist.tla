----------------------------- MODULE MCPlaylist -----------------------------
(***************************************************************************)
(* A small instance of PlaylistNavigator.                                  *)
(***************************************************************************)
EXTENDS PlaylistNavigator

CONSTANTS a, b

AllModes == {"CurrentItemOnce", "CurrentItemInLoop", "Sequential", "Loop", "Random"}
OtherLists == {<<>>, <<b, a>>}
=============================================================================
