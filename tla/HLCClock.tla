------------------------------ MODULE HLCClock ------------------------------
(***************************************************************************)
(* Devices stamp their events with HLC and merge the stamps they receive.  *)
(* A wall clock is whatever the phone says: readings may jump in either    *)
(* direction (NTP, a user changing the date), and only a run that assumes  *)
(* otherwise bounds how far two phones disagree.                           *)
(*                                                                         *)
(* hlc_last is app_meta.hlc_last, read and written in the transaction that *)
(* inserts the event row (projection/index.ts, projection/ingest-row.ts).  *)
(***************************************************************************)
EXTENDS HLC, FiniteSets

CONSTANTS
    Device,     \* install ids, numbered
    IngestCap,  \* FUTURE_HLC_CAP_MS
    MaxClock,   \* bound: wall-clock readings
    MaxSpread,  \* how far apart two wall clocks may be
    MaxEvents   \* bound: events issued

ASSUME HLCClockAssumption ==
    /\ Device \subseteq Nat /\ IngestCap \in Nat /\ MaxClock \in Nat
    /\ MaxSpread \in Nat /\ MaxEvents \in Nat

VARIABLES
    wall,      \* wall[d]: d's wall clock
    peak,      \* peak[d]: the highest reading d has ever taken
    hlc_last,  \* hlc_last[d]: d's frontier
    issued,    \* the stamps of all events ever authored
    received   \* received[d]: stamps d holds in its event_log

vars == <<wall, peak, hlc_last, issued, received>>

Near(w) == \A a, b \in Device : w[a] - w[b] <= MaxSpread

\* a phone's clock moves, forwards or back
SetClock(d, t) ==
    /\ wall' = [wall EXCEPT ![d] = t]
    /\ Near(wall')
    /\ peak' = [peak EXCEPT ![d] = MaxOf(@, t)]
    /\ UNCHANGED <<hlc_last, issued, received>>

\* an event authored on d
Author(d) ==
    LET h == TickLocal(hlc_last[d], wall[d], d) IN
    /\ hlc_last' = [hlc_last EXCEPT ![d] = h]
    /\ issued' = issued \cup {h}
    /\ received' = [received EXCEPT ![d] = @ \cup {h}]
    /\ UNCHANGED <<wall, peak>>

\* ingestRowInTx: refuse a stamp too far ahead, else insert and merge; a row
\* that is there already is merged again
Ingest(d, h) ==
    /\ h.pms <= wall[d] + IngestCap
    /\ received' = [received EXCEPT ![d] = @ \cup {h}]
    /\ hlc_last' = [hlc_last EXCEPT ![d] = TickReceive(@, h, wall[d], d)]
    /\ UNCHANGED <<wall, peak, issued>>

Init ==
    /\ wall = [d \in Device |-> 0]
    /\ peak = [d \in Device |-> 0]
    /\ hlc_last = [d \in Device |-> Zero(d)]
    /\ issued = {}
    /\ received = [d \in Device |-> {}]

Next ==
    \E d \in Device :
        \/ \E t \in 0..MaxClock : SetClock(d, t)
        \/ Cardinality(issued) < MaxEvents /\ Author(d)
        \/ \E h \in issued : Ingest(d, h)

Spec == Init /\ [][Next]_vars

----------------------------------------------------------------------------
\* A frontier is a stamp of its own device; what is held was issued.
TypeOK ==
    /\ wall \in [Device -> Nat]
    /\ peak \in [Device -> Nat]
    /\ hlc_last \in [Device -> Stamp]
    /\ issued \subseteq Stamp
    /\ received \in [Device -> SUBSET issued]
    /\ \A d \in Device : hlc_last[d].did = d /\ wall[d] <= peak[d]

\* the stamp d would give an event authored now
NextLocal(d) == TickLocal(hlc_last[d], wall[d], d)

(* compareHLC returns 0 for no two events (hlc.ts): at no moment would a    *)
(* device issue a stamp that it, or anyone else, has issued before, even    *)
(* when its clock has jumped back.                                          *)
FreshStamps == \A d \in Device : NextLocal(d) \notin issued

\* No stamp d ever issued lies ahead of d's frontier, which is why the next is new.
FrontierCoversOwn ==
    \A h \in issued, d \in Device : h.did = d => ~Earlier(hlc_last[d], h)

(* Writing and receiving both move the frontier strictly forward, whatever  *)
(* the wall clock did in between: no later stamp of the device can undercut *)
(* what the frontier has once passed.                                       *)
FrontierAdvances ==
    [][\A d \in Device :
         (Author(d) \/ \E h \in issued : Ingest(d, h)) => Earlier(hlc_last[d], hlc_last'[d])]_vars

(* "A single device with a wrong NTP setting" does not "corrupt everyone's  *)
(* HLC frontier" (hlc.ts): a frontier is never more than the drift ahead of *)
(* the highest reading of the device's own clock.                           *)
ContainedDrift == \A d \in Device : hlc_last[d].pms <= peak[d] + Drift

(* An edit made after receiving an event wins over it, provided the event   *)
(* was at most the drift ahead of the wall clock when it came in.           *)
EditsFollowReceived ==
    [][\A d \in Device, h \in issued :
         Ingest(d, h) /\ h.pms - wall[d] <= Drift => Less(h, NextLocal(d)')]_vars
=============================================================================
