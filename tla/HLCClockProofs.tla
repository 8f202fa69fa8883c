--------------------------- MODULE HLCClockProofs ---------------------------
(* What the hybrid logical clock guarantees for every drift, every clock    *)
(* and any number of devices.                                               *)
EXTENDS HLCClock, TLAPS

\* The two ticks yield stamps of the device that ticks.
LEMMA LocalType ==
    ASSUME NEW last \in Stamp, NEW w \in Nat, NEW d \in Nat
    PROVE  TickLocal(last, w, d) \in Stamp /\ TickLocal(last, w, d).did = d
  BY DEF TickLocal, Stamp

\* A tick on receipt gives a stamp.
LEMMA ReceiveType ==
    ASSUME NEW last \in Stamp, NEW remote \in Stamp, NEW w \in Nat, NEW d \in Nat
    PROVE  /\ TickReceive(last, remote, w, d) \in Stamp
           /\ TickReceive(last, remote, w, d).did = d
  BY DriftAssumption DEF TickReceive, Merged, Counted, Clamped, MaxOf, Stamp

\* tickLocal moves strictly forward, and to the wall clock at most.
LEMMA LocalAdvances ==
    ASSUME NEW last \in Stamp, NEW w \in Nat, NEW d \in Nat
    PROVE  /\ Earlier(last, TickLocal(last, w, d))
           /\ TickLocal(last, w, d).pms <= MaxOf(last.pms, w)
  BY DEF TickLocal, Earlier, MaxOf, Stamp

\* tickReceive moves strictly forward in all four of its cases, and never
\* further than the drift past the wall clock.
LEMMA ReceiveAdvances ==
    ASSUME NEW last \in Stamp, NEW remote \in Stamp, NEW w \in Nat, NEW d \in Nat
    PROVE  /\ Earlier(last, TickReceive(last, remote, w, d))
           /\ TickReceive(last, remote, w, d).pms <= MaxOf(last.pms, w + Drift)
  BY DriftAssumption DEF TickReceive, Merged, Counted, Clamped, Earlier, MaxOf, Stamp

\* Unless it is clamped, the stamp received is passed by the frontier too.
LEMMA ReceivePasses ==
    ASSUME NEW last \in Stamp, NEW remote \in Stamp, NEW w \in Nat, NEW d \in Nat,
           remote.pms - w <= Drift
    PROVE  Earlier(remote, TickReceive(last, remote, w, d))
  BY DriftAssumption DEF TickReceive, Merged, Counted, Clamped, Earlier, MaxOf, Stamp

\* The order behind a frontier's movement is transitive, and the order of
\* stamps extends it.
LEMMA EarlierOrder ==
    ASSUME NEW a \in Stamp, NEW b \in Stamp, NEW c \in Stamp
    PROVE  /\ Earlier(a, b) /\ Earlier(b, c) => Earlier(a, c)
           /\ Earlier(a, b) => Less(a, b)
           /\ Earlier(a, b) => ~Earlier(b, a) /\ a # b
  BY DEF Earlier, Less, Stamp

----------------------------------------------------------------------------
\* Type correctness, with the part of it the clock bounds need.

\* The types hold at the start,
LEMMA InitType == Init => TypeOK
  BY HLCClockAssumption DEF Init, TypeOK, Zero, Stamp

\* What the two ticks yield when a device takes them.
LEMMA AuthorTicks ==
    ASSUME TypeOK, NEW d \in Device
    PROVE  /\ TickLocal(hlc_last[d], wall[d], d) \in Stamp
           /\ TickLocal(hlc_last[d], wall[d], d).did = d
           /\ Earlier(hlc_last[d], TickLocal(hlc_last[d], wall[d], d))
           /\ TickLocal(hlc_last[d], wall[d], d).pms <= MaxOf(hlc_last[d].pms, wall[d])
<1> DEFINE last == hlc_last[d]
           w == wall[d]
<1>1. last \in Stamp /\ w \in Nat /\ d \in Nat
  BY HLCClockAssumption DEF TypeOK
<1> HIDE DEF last, w
<1>2. /\ TickLocal(last, w, d) \in Stamp /\ TickLocal(last, w, d).did = d
      /\ Earlier(last, TickLocal(last, w, d))
      /\ TickLocal(last, w, d).pms <= MaxOf(last.pms, w)
  BY <1>1, LocalType, LocalAdvances
<1> QED
  BY <1>2 DEF last, w

\* The same for a stamp received; within the drift it is passed too.
LEMMA IngestTicks ==
    ASSUME TypeOK, NEW d \in Device, NEW h \in issued
    PROVE  /\ TickReceive(hlc_last[d], h, wall[d], d) \in Stamp
           /\ TickReceive(hlc_last[d], h, wall[d], d).did = d
           /\ Earlier(hlc_last[d], TickReceive(hlc_last[d], h, wall[d], d))
           /\ TickReceive(hlc_last[d], h, wall[d], d).pms
                  <= MaxOf(hlc_last[d].pms, wall[d] + Drift)
           /\ h.pms - wall[d] <= Drift
                 => Earlier(h, TickReceive(hlc_last[d], h, wall[d], d))
<1> DEFINE last == hlc_last[d]
           w == wall[d]
<1>1. last \in Stamp /\ h \in Stamp /\ w \in Nat /\ d \in Nat
  BY HLCClockAssumption DEF TypeOK
<1> HIDE DEF last, w
<1>2. /\ TickReceive(last, h, w, d) \in Stamp /\ TickReceive(last, h, w, d).did = d
      /\ Earlier(last, TickReceive(last, h, w, d))
      /\ TickReceive(last, h, w, d).pms <= MaxOf(last.pms, w + Drift)
      /\ h.pms - w <= Drift => Earlier(h, TickReceive(last, h, w, d))
  BY <1>1, ReceiveType, ReceiveAdvances, ReceivePasses
<1> QED
  BY <1>2 DEF last, w

\* The types hold after every step.
LEMMA NextType == TypeOK /\ [Next]_vars => TypeOK'
<1> SUFFICES ASSUME TypeOK, [Next]_vars PROVE TypeOK'
  OBVIOUS
<1> USE HLCClockAssumption DEF TypeOK
<1>1. ASSUME NEW d \in Device, NEW t \in 0..MaxClock, SetClock(d, t) PROVE TypeOK'
  BY <1>1 DEF SetClock, MaxOf
<1>2. ASSUME NEW d \in Device, Author(d) PROVE TypeOK'
  <2> DEFINE h == TickLocal(hlc_last[d], wall[d], d)
  <2> HIDE DEF h
  <2>1. h \in Stamp /\ h.did = d
    BY AuthorTicks DEF h
  <2>2. /\ hlc_last' = [hlc_last EXCEPT ![d] = h]
        /\ issued' = issued \cup {h}
        /\ received' = [received EXCEPT ![d] = @ \cup {h}]
        /\ UNCHANGED <<wall, peak>>
    BY <1>2 DEF Author, h
  <2>3. issued' \subseteq Stamp /\ received' \in [Device -> SUBSET issued']
    BY <2>1, <2>2
  <2> QED
    BY <2>1, <2>2, <2>3
<1>3. ASSUME NEW d \in Device, NEW h \in issued, Ingest(d, h) PROVE TypeOK'
  <2> DEFINE m == TickReceive(hlc_last[d], h, wall[d], d)
  <2> HIDE DEF m
  <2>1. m \in Stamp /\ m.did = d
    BY IngestTicks DEF m
  <2>2. /\ hlc_last' = [hlc_last EXCEPT ![d] = m]
        /\ received' = [received EXCEPT ![d] = @ \cup {h}]
        /\ UNCHANGED <<wall, peak, issued>>
    BY <1>3 DEF Ingest, m
  <2> QED
    BY <2>1, <2>2
<1>4. CASE UNCHANGED vars
  BY <1>4 DEF vars
<1> QED
  BY <1>1, <1>2, <1>3, <1>4 DEF Next

\* Every state has a well-formed frontier per device and reads no clock above
\* its recorded peak.
THEOREM TypeCorrect == Spec => []TypeOK
<1>1. Init => TypeOK
  BY InitType
<1>2. TypeOK /\ [Next]_vars => TypeOK'
  BY NextType
<1> QED
  BY <1>1, <1>2, PTL DEF Spec

----------------------------------------------------------------------------
\* A wrong clock elsewhere never carries a frontier beyond the drift.
THEOREM DriftContained == Spec => []ContainedDrift
<1>1. Init => ContainedDrift
  BY DriftAssumption DEF Init, ContainedDrift, Zero
<1>2. TypeOK /\ ContainedDrift /\ [Next]_vars => ContainedDrift'
  <2> SUFFICES ASSUME TypeOK, ContainedDrift, [Next]_vars, NEW x \in Device
               PROVE  hlc_last'[x].pms <= peak'[x] + Drift
    BY DEF ContainedDrift
  <2>t. /\ hlc_last[x] \in Stamp /\ hlc_last[x].pms \in Nat
        /\ peak[x] \in Nat /\ wall[x] \in Nat /\ wall[x] <= peak[x]
        /\ hlc_last[x].pms <= peak[x] + Drift
    BY DEF TypeOK, Stamp, ContainedDrift
  <2>1. ASSUME NEW d \in Device, NEW t \in 0..MaxClock, SetClock(d, t)
        PROVE  hlc_last'[x].pms <= peak'[x] + Drift
    <3>1. hlc_last'[x] = hlc_last[x] /\ peak[x] <= peak'[x] /\ peak'[x] \in Nat
      BY <2>1, <2>t, HLCClockAssumption DEF SetClock, MaxOf, TypeOK
    <3> QED
      BY <3>1, <2>t, DriftAssumption
  <2>2. ASSUME NEW d \in Device, Author(d)
        PROVE  hlc_last'[x].pms <= peak'[x] + Drift
    <3>1. TickLocal(hlc_last[x], wall[x], x).pms <= MaxOf(hlc_last[x].pms, wall[x])
      BY AuthorTicks
    <3>2. TickLocal(hlc_last[x], wall[x], x).pms \in Nat
      BY AuthorTicks DEF Stamp
    <3>3. peak'[x] = peak[x] /\ (hlc_last'[x] = hlc_last[x]
                                 \/ hlc_last'[x] = TickLocal(hlc_last[x], wall[x], x))
      BY <2>2 DEF Author, TypeOK
    <3> QED
      BY <3>1, <3>2, <3>3, <2>t, DriftAssumption DEF MaxOf
  <2>3. ASSUME NEW d \in Device, NEW h \in issued, Ingest(d, h)
        PROVE  hlc_last'[x].pms <= peak'[x] + Drift
    <3>1. TickReceive(hlc_last[x], h, wall[x], x).pms <= MaxOf(hlc_last[x].pms, wall[x] + Drift)
      BY IngestTicks
    <3>2. TickReceive(hlc_last[x], h, wall[x], x).pms \in Nat
      BY IngestTicks DEF Stamp
    <3>3. peak'[x] = peak[x] /\ (hlc_last'[x] = hlc_last[x]
                                 \/ hlc_last'[x] = TickReceive(hlc_last[x], h, wall[x], x))
      BY <2>3 DEF Ingest, TypeOK
    <3> QED
      BY <3>1, <3>2, <3>3, <2>t, DriftAssumption DEF MaxOf
  <2>4. CASE UNCHANGED vars
    BY <2>4, <2>t DEF vars
  <2> QED
    BY <2>1, <2>2, <2>3, <2>4 DEF Next
<1> QED
  BY <1>1, <1>2, TypeCorrect, PTL DEF Spec

----------------------------------------------------------------------------
\* Whatever the wall clock does, writing and receiving move a frontier
\* strictly forward.
THEOREM FrontierNeverFallsBack == Spec => FrontierAdvances
<1> DEFINE Step == \A d \in Device :
                     (Author(d) \/ \E h \in issued : Ingest(d, h))
                        => Earlier(hlc_last[d], hlc_last'[d])
<1>1. TypeOK /\ [Next]_vars => [Step]_vars
  <2> SUFFICES ASSUME TypeOK, NEW d \in Device,
                      Author(d) \/ \E h \in issued : Ingest(d, h)
               PROVE  Earlier(hlc_last[d], hlc_last'[d])
    OBVIOUS
  <2>1. CASE Author(d)
    <3>1. hlc_last'[d] = TickLocal(hlc_last[d], wall[d], d)
      BY <2>1 DEF Author, TypeOK
    <3> QED
      BY <3>1, AuthorTicks
  <2>2. ASSUME NEW h \in issued, Ingest(d, h)
        PROVE  Earlier(hlc_last[d], hlc_last'[d])
    <3>1. hlc_last'[d] = TickReceive(hlc_last[d], h, wall[d], d)
      BY <2>2 DEF Ingest, TypeOK
    <3> QED
      BY <3>1, IngestTicks
  <2> QED
    BY <2>1, <2>2
<1> QED
  BY <1>1, TypeCorrect, PTL DEF Spec, FrontierAdvances

\* A device that moves its frontier forward keeps all it issued behind it.
LEMMA StaysBehind ==
    ASSUME NEW last \in Stamp, NEW m \in Stamp, NEW h \in Stamp,
           Earlier(last, m), ~Earlier(last, h)
    PROVE  ~Earlier(m, h)
  BY DEF Earlier, Stamp

\* No stamp a device has issued is later than its frontier, after every step.
LEMMA NextCoversOwn ==
    TypeOK /\ FrontierCoversOwn /\ [Next]_vars => FrontierCoversOwn'
<1> SUFFICES ASSUME TypeOK, FrontierCoversOwn, [Next]_vars PROVE FrontierCoversOwn'
  OBVIOUS
<1>1. ASSUME NEW d \in Device, NEW t \in 0..MaxClock, SetClock(d, t)
      PROVE  FrontierCoversOwn'
  BY <1>1 DEF SetClock, FrontierCoversOwn
<1>2. ASSUME NEW d \in Device, NEW m \in Stamp,
             m.did = d, Earlier(hlc_last[d], m),
             hlc_last' = [hlc_last EXCEPT ![d] = m],
             issued' = issued \/ issued' = issued \cup {m}
      PROVE  FrontierCoversOwn'
  <2> SUFFICES ASSUME NEW h \in issued', NEW x \in Device, h.did = x
               PROVE  ~Earlier(hlc_last'[x], h)
    BY DEF FrontierCoversOwn
  <2>1. CASE x # d
    <3>1. hlc_last'[x] = hlc_last[x] /\ h \in issued
      BY <1>2, <2>1 DEF TypeOK
    <3> QED
      BY <3>1 DEF FrontierCoversOwn
  <2>2. CASE x = d
    <3>1. hlc_last'[x] = m
      BY <1>2, <2>2 DEF TypeOK
    <3>2. CASE h = m
      BY <3>1, <3>2 DEF Earlier, Stamp
    <3>3. CASE h \in issued
      <4>1. ~Earlier(hlc_last[d], h)
        BY <2>2, <3>3 DEF FrontierCoversOwn
      <4>2. hlc_last[d] \in Stamp /\ h \in Stamp
        BY <3>3 DEF TypeOK
      <4> QED
        BY <1>2, <3>1, <4>1, <4>2, StaysBehind
    <3> QED
      BY <1>2, <3>2, <3>3
  <2> QED
    BY <2>1, <2>2
<1>3. ASSUME NEW d \in Device, Author(d) PROVE FrontierCoversOwn'
  <2> DEFINE m == TickLocal(hlc_last[d], wall[d], d)
  <2> HIDE DEF m
  <2>1. m \in Stamp /\ m.did = d /\ Earlier(hlc_last[d], m)
    BY AuthorTicks DEF m
  <2>2. hlc_last' = [hlc_last EXCEPT ![d] = m] /\ issued' = issued \cup {m}
    BY <1>3 DEF Author, m
  <2> QED
    BY <1>2, <2>1, <2>2
<1>4. ASSUME NEW d \in Device, NEW h \in issued, Ingest(d, h) PROVE FrontierCoversOwn'
  <2> DEFINE m == TickReceive(hlc_last[d], h, wall[d], d)
  <2> HIDE DEF m
  <2>1. m \in Stamp /\ m.did = d /\ Earlier(hlc_last[d], m)
    BY IngestTicks DEF m
  <2>2. hlc_last' = [hlc_last EXCEPT ![d] = m] /\ issued' = issued
    BY <1>4 DEF Ingest, m
  <2> QED
    BY <1>2, <2>1, <2>2
<1>5. CASE UNCHANGED vars
  BY <1>5 DEF vars, FrontierCoversOwn
<1> QED
  BY <1>1, <1>3, <1>4, <1>5 DEF Next

\* compareHLC ties for no two events, with any clocks whatsoever: what a
\* device issues next lies beyond all it issued, and others sign their own.
THEOREM StampsAreFresh == Spec => FreshStamps
<1>1. Init => FrontierCoversOwn
  BY DEF Init, FrontierCoversOwn
<1>2. TypeOK /\ FrontierCoversOwn => FreshStamps
  <2> SUFFICES ASSUME TypeOK, FrontierCoversOwn, NEW d \in Device, NextLocal(d) \in issued
               PROVE  FALSE
    BY DEF FreshStamps
  <2>1. NextLocal(d).did = d /\ Earlier(hlc_last[d], NextLocal(d))
    BY AuthorTicks DEF NextLocal
  <2> QED
    BY <2>1 DEF FrontierCoversOwn
<1> QED
  BY <1>1, <1>2, NextCoversOwn, TypeCorrect, PTL DEF Spec

\* An edit made after an event that came in within the drift follows it in the
\* order every replica merges by.
THEOREM EditsWin == Spec => EditsFollowReceived
<1> DEFINE Step == \A d \in Device, h \in issued :
                     Ingest(d, h) /\ h.pms - wall[d] <= Drift
                        => Less(h, NextLocal(d)')
<1>1. TypeOK /\ [Next]_vars => [Step]_vars
  <2> SUFFICES ASSUME TypeOK, NEW d \in Device, NEW h \in issued,
                      Ingest(d, h), h.pms - wall[d] <= Drift
               PROVE  Less(h, NextLocal(d)')
    OBVIOUS
  <2> DEFINE m == TickReceive(hlc_last[d], h, wall[d], d)
             w == wall[d]
             n == TickLocal(m, w, d)
  <2>1. w \in Nat /\ d \in Nat /\ h \in Stamp
    BY HLCClockAssumption DEF TypeOK
  <2>2. hlc_last'[d] = m /\ wall' = wall
    BY DEF Ingest, TypeOK
  <2>3. NextLocal(d)' = n
    BY <2>2 DEF NextLocal
  <2>4. m \in Stamp /\ Earlier(h, m)
    BY IngestTicks
  <2> HIDE DEF m, w
  <2>5. n \in Stamp /\ Earlier(m, n)
    BY <2>1, <2>4, LocalType, LocalAdvances
  <2> HIDE DEF n
  <2>6. Less(h, n)
    BY <2>1, <2>4, <2>5, EarlierOrder
  <2> QED
    BY <2>3, <2>6
<1> QED
  BY <1>1, TypeCorrect, PTL DEF Spec, EditsFollowReceived
=============================================================================
