-------------------------------- MODULE HLC --------------------------------
(***************************************************************************)
(* The hybrid logical clock of apps/mobile/lib/hlc.ts, as operators.       *)
(* A stamp is [pms, l, did]: physical milliseconds, logical counter, and   *)
(* the device that issued it.  Devices are numbers, so that did, the last  *)
(* tie-break, is ordered as the install ids are.                           *)
(***************************************************************************)
EXTENDS Integers

CONSTANT Drift  \* MAX_FORWARD_DRIFT_MS

ASSUME DriftAssumption == Drift \in Nat

Stamp == [pms : Nat, l : Nat, did : Nat]

\* initial(deviceId), what a device without hlc_last starts from
Zero(d) == [pms |-> 0, l |-> 0, did |-> d]

Stalled(last, w, d) ==  \* mutant: the counter is not raised
    IF w > last.pms THEN [pms |-> w, l |-> 0, did |-> d] ELSE [last EXCEPT !.did = d]

\* tickLocal: the stamp of an event authored at wall-clock time w
TickLocal(last, w, d) ==
    IF w > last.pms THEN [pms |-> w, l |-> 0, did |-> d]
                    ELSE [pms |-> last.pms, l |-> last.l + 1, did |-> d]

Unclamped(remote, w) == remote.pms  \* mutant

\* the forward-drift clamp of tickReceive
Clamped(remote, w) == IF remote.pms - w > Drift THEN w ELSE remote.pms

MaxOf(a, b) == IF a >= b THEN a ELSE b

\* the physical part of tickReceive: the latest of wall clock, frontier, remote
Merged(last, remote, w) == MaxOf(MaxOf(w, last.pms), Clamped(remote, w))

\* mutant: a tie goes to the local counter
TieToLocal(last, remote, w) ==
    IF Merged(last, remote, w) = last.pms THEN last.l + 1
    ELSE IF Merged(last, remote, w) = Clamped(remote, w) THEN remote.l + 1 ELSE 0

\* its logical part, which counts on from whoever supplied the physical part
Counted(last, remote, w) ==
    LET r == Clamped(remote, w)
        m == Merged(last, remote, w)
    IN  IF m > last.pms /\ m > r THEN 0
        ELSE IF m = last.pms /\ m = r THEN MaxOf(last.l, remote.l) + 1
        ELSE IF m = last.pms THEN last.l + 1
        ELSE remote.l + 1

SignedByPeer(last, remote, w, d) ==  \* mutant: the peer's stamp is taken over
    [pms |-> Merged(last, remote, w), l |-> Counted(last, remote, w), did |-> remote.did]

\* tickReceive: merge the stamp of an event received at wall-clock time w
TickReceive(last, remote, w, d) ==
    [pms |-> Merged(last, remote, w), l |-> Counted(last, remote, w), did |-> d]

\* compareHLC(a, b) < 0
Less(a, b) ==
    \/ a.pms < b.pms
    \/ a.pms = b.pms /\ a.l < b.l
    \/ a.pms = b.pms /\ a.l = b.l /\ a.did < b.did

\* ... without the tie-break: what one device's frontier moves by
Earlier(a, b) == a.pms < b.pms \/ (a.pms = b.pms /\ a.l < b.l)
=============================================================================
