-------------------------------- MODULE MCNmea --------------------------------
(***************************************************************************)
(* Small instances of NmeaPositionSource.                                  *)
(***************************************************************************)
EXTENDS NmeaPositionSource

Rmc(t) == [date |-> TRUE, time |-> t, coord |-> TRUE, fix |-> TRUE]
Gga(t) == [date |-> FALSE, time |-> t, coord |-> TRUE, fix |-> TRUE]
Zda(t) == [date |-> TRUE, time |-> t, coord |-> FALSE, fix |-> FALSE]

\* Live, the time of day makes no difference.
Mixed ==
  [m \in {"RealTime", "Simulation"} |->
     IF m = "RealTime" THEN {Rmc(1), Gga(1)}
     ELSE {Rmc(1), Gga(1), Zda(2)}]
Fixes == [m \in {"RealTime"} |-> {Rmc(1)}]
=============================================================================
