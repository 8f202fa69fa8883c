----------------------------- MODULE MCEventSync -----------------------------
(* EventSync on two devices: the values TLC gives its constants.            *)
EXTENDS EventSync, TLC

CONSTANTS d1, d2

TwoDevices == {d1, d2}
OneDevice == {d1}

NoSkew == d1 :> 0 @@ d2 :> 0

\* d2's clock runs a day ahead of the server's; d1's is right
DayAhead == d1 :> 0 @@ d2 :> 1

\* d2's clock runs two days ahead: the server accepts what d1 will not ingest
TwoDaysAhead == d1 :> 0 @@ d2 :> 2

\* the only device, three days ahead: the server refuses it for a day
AloneAhead == d1 :> 3

\* only d1 pulls: what the overlapping drains of one reader do
OneReader == \A q \in Drain : pull[d2][q].phase = "idle"

\* bound: the pushes and drains in flight at once, over all devices
CONSTANT MaxBusy
Busy == {<<d, s>> \in Device \X (Slot \cup Drain) :
           IF s \in Slot THEN push[d][s].phase # "idle" ELSE pull[d][s].phase # "idle"}
Calm == Cardinality(Busy) <= MaxBusy
=============================================================================
