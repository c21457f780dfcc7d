----------------------------- MODULE MCInterest -----------------------------
(***************************************************************************)
(* Small instances of InterestNotification: a publisher of an object in    *)
(* the server's process and one of the object's sub path in a client's.    *)
(***************************************************************************)
EXTENDS InterestNotification

CONSTANTS srv, c1, c2

X == <<"x">>
X1 == <<"x", "1">>
Object == [client |-> srv, publisher |-> "p1"]
Part == [client |-> c2, publisher |-> "p1"]
Twin == [client |-> c1, publisher |-> "p1"]

TwoPublishers == {Object, Part}
TwoPaths == (Object :> X) @@ (Part :> X1)
PartSets == {Part}

\* Two subscribers of one process at the sub path, another at the object.
OneEach == {[client |-> c1, path |-> X1, number |-> 1],
            [client |-> c1, path |-> X1, number |-> 2],
            [client |-> c2, path |-> X, number |-> 1]}

\* Subscribers of two processes at one path.
Shared == {[client |-> c1, path |-> X1, number |-> 1],
           [client |-> srv, path |-> X1, number |-> 1]}

\* Publishers of two processes at one path.
Twins == {Part, Twin}
SamePath == (Part :> X1) @@ (Twin :> X1)
NoSetters == {}
One == {[client |-> srv, path |-> X1, number |-> 1]}

\* Two publishers of one client, at an object and at a part of it.
Whole == [client |-> c2, publisher |-> "p2"]
OneClient == {Whole, Part}
OneWay == (Whole :> X) @@ (Part :> X1)

\* A publisher at the path where another sets a value.
Observer == [client |-> c1, publisher |-> "p2"]
Setting == {Part, Observer}
ValuePath == (Part :> X1) @@ (Observer :> Append(X1, "attribute"))
OneOfValue == {[client |-> srv, path |-> Append(X1, "attribute"), number |-> 1]}

\* One publisher.
Alone == {Part}
AlonePath == Part :> X1
=============================================================================
