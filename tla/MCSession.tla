------------------------------- MODULE MCSession -------------------------------
(***************************************************************************)
(* Small instances of NetworkSession.                                      *)
(***************************************************************************)
EXTENDS NetworkSession

CONSTANTS wired, wlan

\* A cable is plugged in or not; a wireless network also goes and comes back,
\* and is one that was in use before or not.
CableAndWireless ==
  [c \in {wired, wlan} |->
     IF c = wired THEN {Discovered, Active}
     ELSE {Undefined, Discovered, Active, Undefined \cup Active, Absent}]
=============================================================================
