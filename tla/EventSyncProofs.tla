-------------------------- MODULE EventSyncProofs --------------------------
(***************************************************************************)
(* What holds of EventSync for every set of devices, every number of       *)
(* events, every skew of the clocks and every size of batches and pages.   *)
(***************************************************************************)
EXTENDS EventSync, FiniteSetTheorems, WellFoundedInduction, TLAPS

----------------------------------------------------------------------------
\* Finite sets of numbers and their largest member.

(* A finite, non-empty set of numbers has a largest member.  A smallest     *)
(* counterexample would lose it with one element removed.                   *)
LEMMA HasLargest ==
    ASSUME NEW S \in SUBSET Nat, IsFiniteSet(S), S # {}
    PROVE  \E m \in S : \A n \in S : n <= m
PROOF
  <1> DEFINE Bad == {U \in SUBSET S : U # {} /\ ~\E m \in U : \A n \in U : n <= m}
             R == StrictSubsetOrdering(S)
  <1>1. FiniteSubsetsOf(S) = SUBSET S
    BY FS_FiniteSubsetsOfFinite
  <1>2. IsWellFoundedOn(R, SUBSET S)
    BY <1>1, FS_StrictSubsetOrderingWellFounded
  <1>3. ASSUME Bad # {} PROVE FALSE
    <2>1. Bad \subseteq SUBSET S
      OBVIOUS
    <2> HIDE DEF Bad, R
    <2>2. PICK U \in Bad : \A V \in Bad : ~(<<V, U>> \in R)
      BY <1>2, <1>3, <2>1, WFMin
    <2> USE DEF Bad
    <2>3. PICK x \in U : TRUE
      OBVIOUS
    <2>4. U \ {x} \notin Bad
      BY <2>2, <2>3 DEF R, StrictSubsetOrdering
    <2>5. CASE U \ {x} = {}
      BY <2>3, <2>5
    <2>6. CASE U \ {x} # {}
      <3>1. PICK m \in U \ {x} : \A n \in U \ {x} : n <= m
        BY <2>4, <2>6
      <3>2. CASE m <= x
        BY <2>3, <3>1, <3>2
      <3>3. CASE ~(m <= x)
        BY <2>3, <3>1, <3>3
      <3> QED  BY <3>2, <3>3
    <2> QED  BY <2>5, <2>6
  <1> QED  BY <1>3

(* Upto of a finite set of numbers bounds it and is 0 or one of them.       *)
LEMMA UptoBounds ==
    ASSUME NEW S \in SUBSET Nat, IsFiniteSet(S)
    PROVE  /\ Upto(S) \in Nat /\ Upto(S) \in S \cup {0}
           /\ \A n \in S : n <= Upto(S)
PROOF
  <1>1. \E m \in S \cup {0} : \A n \in S : n <= m
    <2>1. CASE S = {}
      BY <2>1
    <2>2. CASE S # {}
      BY <2>2, HasLargest
    <2> QED  BY <2>1, <2>2
  <1>2. Upto(S) \in S \cup {0} /\ \A m \in S : m <= Upto(S)
    BY <1>1, Zenon DEF Upto
  <1>3. S \cup {0} \subseteq Nat
    OBVIOUS
  <1>4. Upto(S) \in Nat
    BY <1>2, <1>3
  <1> QED  BY <1>2, <1>4, Zenon

(* Event is finite, and so is whatever a function makes of some events.     *)
LEMMA EventFinite == \A S \in SUBSET Event : IsFiniteSet(S)
PROOF
  <1>1. IsFiniteSet(Event)
    <2>1. 1 \in Int /\ MaxEvents \in Int
      BY CountsAssumption
    <2> QED  BY <2>1, FS_Interval DEF Event
  <1>2. TAKE S \in SUBSET Event
  <1> QED  BY <1>1, <1>2, FS_Subset

\* The values a finite set takes are finitely many.
LEMMA ValuesFinite ==
    ASSUME NEW S \in SUBSET Event, NEW g \in [Event -> Nat]
    PROVE  IsFiniteSet({g[e] : e \in S}) /\ {g[e] : e \in S} \in SUBSET Nat
PROOF
  <1> DEFINE T == {g[e] : e \in S}
             f == [e \in S |-> g[e]]
  <1>1. f \in Surjection(S, T)
    BY DEF Surjection
  <1>2. IsFiniteSet(S)
    BY EventFinite
  <1>3. IsFiniteSet(T)
    <2> HIDE DEF T, f
    <2> QED  BY <1>1, <1>2, FS_Surjection
  <1> QED  BY <1>3

\* a part of some events is no larger, and smaller if it is a proper part
LEMMA PartSmaller ==
    ASSUME NEW S \in SUBSET Event, NEW T \in SUBSET S
    PROVE  /\ Cardinality(S) \in Nat /\ Cardinality(T) \in Nat
           /\ Cardinality(T) <= Cardinality(S)
           /\ T # S => Cardinality(T) < Cardinality(S)
PROOF
  <1>1. IsFiniteSet(S)
    BY EventFinite
  <1>2. /\ IsFiniteSet(T) /\ Cardinality(T) <= Cardinality(S)
        /\ Cardinality(S) = Cardinality(T) => S = T
    BY <1>1, FS_Subset
  <1>3. Cardinality(S) \in Nat /\ Cardinality(T) \in Nat
    BY <1>1, <1>2, FS_CardinalityType
  <1> QED  BY <1>2, <1>3

----------------------------------------------------------------------------
\* Types.

\* The numbers the code computes from its rows are numbers.
LEMMA NextAuthorSeqType ==
    ASSUME TypeOK, NEW d \in Device
    PROVE  NextAuthorSeq(d) \in Nat /\ \A n \in OwnSeqs(d) : n < NextAuthorSeq(d)
PROOF
  <1>1. authorSeq[d] \in [Event -> Nat] /\ log[d] \in SUBSET Event /\ floor[d] \in Nat
    BY DEF TypeOK
  <1>2. IsFiniteSet(OwnSeqs(d)) /\ OwnSeqs(d) \in SUBSET Nat
    <2> DEFINE own == {f \in log[d] : Author(f) = d}
    <2>1. own \in SUBSET Event
      BY <1>1
    <2> HIDE DEF own
    <2>2. IsFiniteSet({authorSeq[d][e] : e \in own}) /\ {authorSeq[d][e] : e \in own} \in SUBSET Nat
      BY <1>1, <2>1, ValuesFinite
    <2> QED  BY <2>2 DEF OwnSeqs, own
  <1>3. Upto(OwnSeqs(d)) \in Nat /\ \A n \in OwnSeqs(d) : n <= Upto(OwnSeqs(d))
    BY <1>2, UptoBounds
  <1> QED  BY <1>1, <1>2, <1>3 DEF NextAuthorSeq, Larger

\* The floor a device numbers from is a number.
LEMMA FloorType ==
    ASSUME TypeOK, NEW p \in PushRecord
    PROVE  Upto({p.seq[e] + 1 : e \in {f \in Judged(p, "conflict") : p.seq[f] # 0}}) \in Nat
PROOF
  <1> DEFINE g == [e \in Event |-> p.seq[e] + 1]
             S == {f \in Judged(p, "conflict") : p.seq[f] # 0}
  <1>1. g \in [Event -> Nat] /\ S \in SUBSET Event
    BY DEF PushRecord, Judged
  <1>2. {p.seq[e] + 1 : e \in S} = {g[e] : e \in S}
    BY <1>1
  <1>3. IsFiniteSet({g[e] : e \in S}) /\ {g[e] : e \in S} \in SUBSET Nat
    <2> HIDE DEF g, S
    <2> QED  BY <1>1, ValuesFinite
  <1>4. Upto({g[e] : e \in S}) \in Nat
    <2> HIDE DEF g, S
    <2> QED  BY <1>3, UptoBounds
  <1> QED  BY <1>2, <1>4

\* the end of a page is a number, the place of every row is up to it, and
\* unless the page is empty it is one of those places
LEMMA PageEndBounds ==
    ASSUME TypeOK, NEW rows \in SUBSET Event
    PROVE  /\ PageEnd(rows) \in Nat
           /\ \A e \in rows : serverSeq[e] <= PageEnd(rows)
           /\ PageEnd(rows) = 0 \/ \E e \in rows : PageEnd(rows) = serverSeq[e]
PROOF
  <1>1. serverSeq \in [Event -> Nat]
    BY DEF TypeOK
  <1> DEFINE S == {serverSeq[e] : e \in rows}
  <1>2. IsFiniteSet(S) /\ S \in SUBSET Nat
    BY <1>1, ValuesFinite
  <1>3. Upto(S) \in Nat /\ Upto(S) \in S \cup {0} /\ \A n \in S : n <= Upto(S)
    <2> HIDE DEF S
    <2> QED  BY <1>2, UptoBounds
  <1> QED  BY <1>3 DEF PageEnd

\* the cardinality of a set of events is a number
LEMMA CountType ==
    ASSUME NEW S \in SUBSET Event
    PROVE  Cardinality(S) \in Nat
  BY PartSmaller

\* The types hold at the start.
LEMMA InitType == Init => TypeOK
PROOF
  <1> SUFFICES ASSUME Init PROVE TypeOK
    OBVIOUS
  <1>1. IdlePush \in PushRecord /\ IdlePull \in PullRecord
    BY DEF IdlePush, IdlePull, PushRecord, PullRecord, Verdict
  <1>2. /\ push \in [Device -> [Slot -> PushRecord]]
        /\ pull \in [Device -> [Drain -> PullRecord]]
    BY <1>1 DEF Init
  <1>3. \A d \in Device : Bookkeeping(d)
    BY DEF Init, Bookkeeping
  <1> QED  BY <1>2, <1>3 DEF Init, TypeOK

\* An operation on one push or pull replaces its record and no other.
LEMMA PushUpdate ==
    ASSUME TypeOK, NEW d \in Device, NEW s \in Slot, NEW r \in PushRecord,
           push' = [push EXCEPT ![d][s] = r]
    PROVE  /\ push' \in [Device -> [Slot -> PushRecord]]
           /\ push'[d][s] = r
           /\ \A c \in Device, t \in Slot : c # d \/ t # s => push'[c][t] = push[c][t]
PROOF
  <1>1. push \in [Device -> [Slot -> PushRecord]]
    BY DEF TypeOK
  <1>2. PICK f \in [Slot -> PushRecord] : f = [push[d] EXCEPT ![s] = r]
    BY <1>1
  <1>3. push' = [push EXCEPT ![d] = f]
    BY <1>2
  <1>4. f[s] = r /\ \A t \in Slot \ {s} : f[t] = push[d][t]
    BY <1>1, <1>2
  <1>5. push'[d] = f /\ \A c \in Device \ {d} : push'[c] = push[c]
    BY <1>1, <1>3
  <1>6. push' \in [Device -> [Slot -> PushRecord]]
    BY <1>1, <1>3
  <1>7. ASSUME NEW c \in Device, NEW t \in Slot, c # d \/ t # s
        PROVE  push'[c][t] = push[c][t]
    BY <1>4, <1>5, <1>7
  <1> QED  BY <1>4, <1>5, <1>6, <1>7

\* A drain that is updated is still a drain.
LEMMA PullUpdate ==
    ASSUME TypeOK, NEW d \in Device, NEW q \in Drain, NEW r \in PullRecord,
           pull' = [pull EXCEPT ![d][q] = r]
    PROVE  /\ pull' \in [Device -> [Drain -> PullRecord]]
           /\ pull'[d][q] = r
           /\ \A c \in Device, x \in Drain : c # d \/ x # q => pull'[c][x] = pull[c][x]
PROOF
  <1>1. pull \in [Device -> [Drain -> PullRecord]]
    BY DEF TypeOK
  <1>2. PICK f \in [Drain -> PullRecord] : f = [pull[d] EXCEPT ![q] = r]
    BY <1>1
  <1>3. pull' = [pull EXCEPT ![d] = f]
    BY <1>2
  <1>4. f[q] = r /\ \A x \in Drain \ {q} : f[x] = pull[d][x]
    BY <1>1, <1>2
  <1>5. pull'[d] = f /\ \A c \in Device \ {d} : pull'[c] = pull[c]
    BY <1>1, <1>3
  <1>6. pull' \in [Device -> [Drain -> PullRecord]]
    BY <1>1, <1>3
  <1>7. ASSUME NEW c \in Device, NEW x \in Drain, c # d \/ x # q
        PROVE  pull'[c][x] = pull[c][x]
    BY <1>4, <1>5, <1>7
  <1> QED  BY <1>4, <1>5, <1>6, <1>7

\* the records the operations start from and leave behind
LEMMA IdleType == IdlePush \in PushRecord /\ IdlePull \in PullRecord
  BY DEF IdlePush, IdlePull, PushRecord, PullRecord, Verdict

\* a judgement gives every event a verdict
LEMMA JudgeType ==
    ASSUME NEW r, NEW held, NEW barred
    PROVE  JudgeBatch(r, held, barred) \in [Event -> Verdict]
  BY DEF JudgeBatch, VerdictOf, Verdict

\* what the server appends and adopts keeps the shape of its log
LEMMA CommitType ==
    ASSUME TypeOK, NEW r, r.batch \in SUBSET Event, r.seq \in [Event -> Nat], NEW v, Commit(r, v)
    PROVE  serverSeq' \in [Event -> Nat] /\ slotSeq' \in [Event -> Nat] /\ head' \in Nat
PROOF
  <1> DEFINE fresh == {e \in r.batch : v[e] = "accepted"}
  <1>1. fresh \in SUBSET Event
    OBVIOUS
  <1>2. Cardinality(fresh) \in Nat
    BY <1>1, CountType
  <1>3. \A e \in Event : Place(e, fresh) \in Nat
    <2> HIDE DEF fresh
    <2> TAKE e \in Event
    <2>1. {f \in fresh : Before(f, e)} \in SUBSET Event
      BY <1>1
    <2>2. Cardinality({f \in fresh : Before(f, e)}) \in Nat
      BY <2>1, CountType
    <2> QED  BY <2>2 DEF Place, TypeOK
  <1> QED  BY <1>2, <1>3 DEF Commit, TypeOK

\* the values a row is written with
LEMMA RowValues ==
    ASSUME TypeOK, NEW d \in Device, NEW e \in Event
    PROVE  /\ Pms(e) \in Nat /\ Clock(d) \in Nat /\ Merged(d, e) \in Nat
           /\ \A n \in Nat : ResolvedSeq(d, e, n) \in Nat
PROOF
  <1>1. Pms(e) \in Nat
    BY DEF TypeOK, Pms, Envelope, NoEvent
  <1>2. Clock(d) \in Nat
    BY ClockAssumption DEF TypeOK, Clock
  <1>3. frontier[d] \in Nat /\ authorSeq[d][e] \in Nat
    BY DEF TypeOK
  <1>4. Merged(d, e) \in Nat
    BY <1>1, <1>2, <1>3 DEF Merged, Larger
  <1>5. \A n \in Nat : ResolvedSeq(d, e, n) \in Nat
    BY <1>3 DEF ResolvedSeq
  <1> QED  BY <1>1, <1>2, <1>4, <1>5

\* The types hold after every step.
LEMMA NextType == TypeOK /\ [Next]_vars => TypeOK'
PROOF
  <1> SUFFICES ASSUME TypeOK, [Next]_vars PROVE TypeOK'
    OBVIOUS
  <1>1. ASSUME NEW d \in Device, AppendEvent(d) PROVE TypeOK'
    <2>1. PICK e \in Event :
            /\ envelope' = [envelope EXCEPT ![e] = [author |-> d, pms |-> Larger(Clock(d), frontier[d])]]
            /\ log' = [log EXCEPT ![d] = @ \cup {e}]
            /\ authorSeq' = [authorSeq EXCEPT ![d][e] = NextAuthorSeq(d)]
            /\ frontier' = [frontier EXCEPT ![d] = Larger(Clock(d), frontier[d])]
            /\ UNCHANGED <<now, acked, refused, backoff, floor, cursor, push,
                           pull, stray, serverVars, wiped>>
      BY <1>1 DEF AppendEvent
    <2>2. NextAuthorSeq(d) \in Nat
      BY NextAuthorSeqType
    <2>3. Larger(Clock(d), frontier[d]) \in Nat
      BY RowValues, <2>1 DEF Larger, TypeOK
    <2>4. envelope' \in [Event -> Envelope \cup {NoEvent}]
      BY <2>1, <2>3 DEF TypeOK, Envelope
    <2>5. authorSeq' \in [Device -> [Event -> Nat]]
      BY <2>1, <2>2 DEF TypeOK
    <2>6. \A c \in Device : Bookkeeping(c)'
      BY <2>1, <2>2 DEF TypeOK, Bookkeeping
    <2> QED  BY <2>1, <2>3, <2>4, <2>5, <2>6 DEF TypeOK, serverVars
  <1>2. ASSUME NEW d \in Device, BackoffElapsed(d) PROVE TypeOK'
    <2>1. \A c \in Device : Bookkeeping(c)'
      BY <1>2 DEF BackoffElapsed, TypeOK, Bookkeeping
    <2> QED  BY <1>2, <2>1 DEF BackoffElapsed, TypeOK, serverVars
  <1>3. ASSUME NEW d \in Device, NEW s \in Slot, ReadOutbox(d, s) PROVE TypeOK'
    <2> DEFINE batch == Earliest(Outbox(d), MaxBatch)
               seq == [e \in Event |-> IF e \in batch /\ Author(e) = d
                                       THEN authorSeq[d][e] ELSE 0]
               r == [IdlePush EXCEPT !.phase = "sent", !.batch = batch, !.seq = seq]
    <2>1. batch \in SUBSET Event
      BY DEF TypeOK, Earliest, Outbox, Pending
    <2>2. r \in PushRecord
      <3> HIDE DEF batch
      <3>1. seq \in [Event -> Nat]
        BY DEF TypeOK
      <3> HIDE DEF seq
      <3> QED  BY <2>1, <3>1, IdleType DEF PushRecord
    <2>3. push' = [push EXCEPT ![d][s] = r]
      BY <1>3 DEF ReadOutbox
    <2>4. push' \in [Device -> [Slot -> PushRecord]]
      <3> HIDE DEF r
      <3> QED  BY <2>2, <2>3, PushUpdate
    <2>5. \A c \in Device : Bookkeeping(c)'
      BY <1>3 DEF ReadOutbox, replicaVars, TypeOK, Bookkeeping
    <2> QED  BY <1>3, <2>4, <2>5 DEF ReadOutbox, TypeOK, replicaVars, serverVars
  <1>4. ASSUME NEW d \in Device, NEW s \in Slot, ServerPush(d, s) PROVE TypeOK'
    <2> DEFINE p == push[d][s]
    <2>1. p \in PushRecord
      BY DEF TypeOK
    <2>2. PICK held, barred :
            /\ Commit(p, JudgeBatch(p, held, barred))
            /\ push' = [push EXCEPT ![d][s] =
                          [phase |-> "answered", batch |-> p.batch, seq |-> p.seq,
                           verdict |-> JudgeBatch(p, held, barred)]]
      BY <1>4 DEF ServerPush
    <2>3. push' \in [Device -> [Slot -> PushRecord]]
      <3> DEFINE r == [phase |-> "answered", batch |-> p.batch, seq |-> p.seq,
                       verdict |-> JudgeBatch(p, held, barred)]
      <3>1. r \in PushRecord
        BY <2>1, JudgeType DEF PushRecord
      <3> HIDE DEF r
      <3>2. push' = [push EXCEPT ![d][s] = r]
        BY <2>2 DEF r
      <3> QED  BY <3>1, <3>2, PushUpdate
    <2>4. serverSeq' \in [Event -> Nat] /\ slotSeq' \in [Event -> Nat] /\ head' \in Nat
      <3>1. p.batch \in SUBSET Event /\ p.seq \in [Event -> Nat]
        BY <2>1 DEF PushRecord
      <3> QED  BY <2>2, <3>1, CommitType
    <2>5. \A c \in Device : Bookkeeping(c)'
      BY <1>4 DEF ServerPush, replicaVars, TypeOK, Bookkeeping
    <2> QED  BY <1>4, <2>3, <2>4, <2>5 DEF ServerPush, TypeOK, replicaVars
  <1>5. ASSUME NEW d \in Device, NEW s \in Slot, HandleResponse(d, s) PROVE TypeOK'
    <2> DEFINE p == push[d][s]
               new == Upto({p.seq[e] + 1 : e \in {f \in Judged(p, "conflict") : p.seq[f] # 0}})
    <2>1. p \in PushRecord
      BY DEF TypeOK
    <2>2. new \in Nat
      BY <2>1, FloorType
    <2>3. push' \in [Device -> [Slot -> PushRecord]]
      BY <1>5, IdleType, PushUpdate DEF HandleResponse
    <2>4. floor' \in [Device -> Nat]
      <3>1. floor' = [floor EXCEPT ![d] = Larger(@, new)]
        BY <1>5 DEF HandleResponse
      <3> HIDE DEF new
      <3> QED  BY <2>2, <3>1 DEF TypeOK, Larger
    <2>5. authorSeq' = [authorSeq EXCEPT ![d] =
            [e \in Event |-> IF e \in Judged(p, "conflict") \cap log[d] THEN 0 ELSE @[e]]]
      BY <1>5 DEF HandleResponse
    <2>6. authorSeq' \in [Device -> [Event -> Nat]]
      BY <2>5 DEF TypeOK
    <2>7. /\ acked' = [acked EXCEPT ![d] = @ \cup (Confirmed(p) \cap log[d])]
          /\ refused' = [refused EXCEPT ![d] = @ \cup (Exiled(p) \cap log[d])]
          /\ backoff' = [backoff EXCEPT ![d] = @ \cup (Judged(p, "held") \cap log[d])]
          /\ UNCHANGED <<now, envelope, log, frontier, cursor, pull, stray, serverVars, wiped>>
      BY <1>5 DEF HandleResponse
    <2>8. \A c \in Device : Bookkeeping(c)'
      BY <2>5, <2>7 DEF TypeOK, Bookkeeping
    <2>9. /\ acked' \in [Device -> SUBSET Event]
          /\ refused' \in [Device -> SUBSET Event]
          /\ backoff' \in [Device -> SUBSET Event]
      BY <2>7 DEF TypeOK
    <2> QED  BY <2>3, <2>4, <2>6, <2>7, <2>8, <2>9 DEF TypeOK, serverVars
  <1>6. ASSUME NEW d \in Device, NEW s \in Slot, PushTimeout(d, s) PROVE TypeOK'
    <2>1. push' \in [Device -> [Slot -> PushRecord]]
      BY <1>6, IdleType, PushUpdate DEF PushTimeout
    <2>2. push[d][s] \in PushRecord
      BY DEF TypeOK
    <2>3. \A r \in stray' : r \in StrayRecord
      BY <1>6, <2>2 DEF PushTimeout, TypeOK, Request, StrayRecord, PushRecord
    <2>4. \A c \in Device : Bookkeeping(c)'
      BY <1>6 DEF PushTimeout, replicaVars, TypeOK, Bookkeeping
    <2> QED  BY <1>6, <2>1, <2>3, <2>4 DEF PushTimeout, TypeOK, replicaVars, serverVars
  <1>7. ASSUME ServerPushStray PROVE TypeOK'
    <2>1. PICK r \in stray : \E held, barred :
            Commit(r, JudgeBatch(r, held, barred)) /\ stray' = stray \ {r}
      BY <1>7 DEF ServerPushStray
    <2>2. serverSeq' \in [Event -> Nat] /\ slotSeq' \in [Event -> Nat] /\ head' \in Nat
      <3>1. r.batch \in SUBSET Event /\ r.seq \in [Event -> Nat]
        BY DEF TypeOK, StrayRecord
      <3> QED  BY <2>1, <3>1, CommitType
    <2>3. \A c \in Device : Bookkeeping(c)'
      BY <1>7 DEF ServerPushStray, replicaVars, TypeOK, Bookkeeping
    <2> QED  BY <1>7, <2>1, <2>2, <2>3 DEF ServerPushStray, TypeOK, replicaVars
  <1>8. ASSUME NEW d \in Device, NEW q \in Drain,
               OpenDrain(d, q) \/ FetchPage(d, q) \/ CloseDrain(d, q)
        PROVE  TypeOK'
    <2>1. UNCHANGED <<now, envelope, replicaVars, cursor, push, stray, serverVars, wiped>>
      BY <1>8 DEF OpenDrain, FetchPage, CloseDrain
    <2>2. PICK r \in PullRecord : pull' = [pull EXCEPT ![d][q] = r]
      <3>1. CASE OpenDrain(d, q)
        <4>1. [IdlePull EXCEPT !.phase = "open", !.at = cursor[d]] \in PullRecord
          BY IdleType DEF PullRecord, TypeOK
        <4> QED  BY <3>1, <4>1 DEF OpenDrain
      <3>2. CASE FetchPage(d, q)
        <4> DEFINE p == pull[d][q]
                   rows == PageAfter(p.at)
                   r == [phase |-> "page", at |-> p.at, next |-> PageEnd(rows),
                         more |-> Cardinality(rows) = PageSize, rows |-> rows,
                         seq |-> [e \in Event |-> IF e \in rows THEN slotSeq[e] ELSE 0]]
        <4>1. rows \in SUBSET Event
          BY DEF PageAfter, After, Stored
        <4>2. PageEnd(rows) \in Nat
          <5> HIDE DEF rows
          <5> QED  BY <4>1, PageEndBounds
        <4>3. r \in PullRecord
          <5> HIDE DEF rows
          <5> QED  BY <4>1, <4>2 DEF TypeOK, PullRecord
        <4> QED  BY <3>2, <4>3 DEF FetchPage
      <3>3. CASE CloseDrain(d, q)
        BY <3>3, IdleType DEF CloseDrain
      <3> QED  BY <1>8, <3>1, <3>2, <3>3
    <2>3. pull' \in [Device -> [Drain -> PullRecord]]
      BY <2>2, PullUpdate
    <2>4. \A c \in Device : Bookkeeping(c)'
      BY <2>1 DEF replicaVars, TypeOK, Bookkeeping
    <2> QED  BY <2>1, <2>3, <2>4 DEF TypeOK, replicaVars, serverVars
  <1>9. ASSUME NEW d \in Device, NEW q \in Drain, IngestRow(d, q) PROVE TypeOK'
    <2> DEFINE p == pull[d][q]
    <2>1. PICK e \in p.rows :
            /\ log' = [log EXCEPT ![d] = IF Admissible(d, e) THEN @ \cup {e} ELSE @]
            /\ frontier' = [frontier EXCEPT ![d] = IF Admissible(d, e) THEN Merged(d, e) ELSE @]
            /\ acked' = [acked EXCEPT ![d] = IF e \in log'[d] THEN @ \cup {e} ELSE @]
            /\ authorSeq' = [authorSeq EXCEPT ![d][e] =
                                IF e \in log'[d] THEN ResolvedSeq(d, e, p.seq[e]) ELSE @]
            /\ pull' = [pull EXCEPT ![d][q] =
                  [phase |-> IF p.rows = {e} THEN "done" ELSE "ingest", at |-> p.at,
                   next |-> p.next, more |-> p.more, rows |-> p.rows \ {e}, seq |-> p.seq]]
            /\ UNCHANGED <<now, envelope, refused, backoff, floor, cursor, push,
                           stray, serverVars, wiped>>
      BY <1>9 DEF IngestRow
    <2>2. p \in PullRecord /\ e \in Event
      BY <2>1 DEF TypeOK, PullRecord
    <2>3. Merged(d, e) \in Nat /\ ResolvedSeq(d, e, p.seq[e]) \in Nat
      BY <2>2, RowValues DEF PullRecord
    <2>4. pull' \in [Device -> [Drain -> PullRecord]]
      <3> DEFINE r == [phase |-> IF p.rows = {e} THEN "done" ELSE "ingest", at |-> p.at,
                       next |-> p.next, more |-> p.more, rows |-> p.rows \ {e}, seq |-> p.seq]
      <3>1. r \in PullRecord
        BY <2>2 DEF PullRecord
      <3>2. pull' = [pull EXCEPT ![d][q] = r]
        BY <2>1
      <3> HIDE DEF r
      <3> QED  BY <3>1, <3>2, PullUpdate
    <2>5. log' \in [Device -> SUBSET Event] /\ acked' \in [Device -> SUBSET Event]
      BY <2>1, <2>2 DEF TypeOK
    <2>6. frontier' \in [Device -> Nat] /\ authorSeq' \in [Device -> [Event -> Nat]]
      BY <2>1, <2>2, <2>3 DEF TypeOK
    <2>7. \A c \in Device : Bookkeeping(c)'
      <3> SUFFICES ASSUME NEW c \in Device PROVE Bookkeeping(c)'
        OBVIOUS
      <3>1. Bookkeeping(c) /\ c \in DOMAIN log /\ c \in DOMAIN acked
        BY DEF TypeOK
      <3>2. CASE c # d
        BY <2>1, <3>1, <3>2 DEF Bookkeeping, TypeOK
      <3>3. CASE c = d
        <4>1. log[d] \subseteq log'[d] /\ acked'[d] \subseteq log'[d]
          BY <2>1, <3>1, <3>3 DEF Bookkeeping, TypeOK
        <4>2. \A f \in Event \ log'[d] : authorSeq'[d][f] = 0
          BY <2>1, <2>2, <3>1, <3>3, <4>1 DEF Bookkeeping, TypeOK
        <4> QED  BY <2>1, <3>1, <3>3, <4>1, <4>2 DEF Bookkeeping
      <3> QED  BY <3>2, <3>3
    <2> QED  BY <2>1, <2>4, <2>5, <2>6, <2>7 DEF TypeOK, serverVars
  <1>10. ASSUME NEW d \in Device, NEW q \in Drain, AdvanceCursor(d, q) PROVE TypeOK'
    <2>1. pull[d][q] \in PullRecord /\ cursor \in [Device -> Nat]
      BY DEF TypeOK
    <2>2. NewCursor(d, pull[d][q]) \in Nat
      BY <2>1 DEF NewCursor, PullRecord
    <2>3. cursor' \in [Device -> Nat]
      BY <1>10, <2>1, <2>2 DEF AdvanceCursor
    <2>4. PICK r \in PullRecord : pull' = [pull EXCEPT ![d][q] = r]
      <3>1. [IdlePull EXCEPT !.phase = "open", !.at = pull[d][q].next] \in PullRecord
        BY <2>1, IdleType DEF PullRecord
      <3> QED  BY <1>10, <3>1, IdleType DEF AdvanceCursor
    <2>5. pull' \in [Device -> [Drain -> PullRecord]]
      BY <2>4, PullUpdate
    <2>6. \A c \in Device : Bookkeeping(c)'
      BY <1>10 DEF AdvanceCursor, replicaVars, TypeOK, Bookkeeping
    <2> QED  BY <1>10, <2>3, <2>5, <2>6 DEF AdvanceCursor, TypeOK, replicaVars, serverVars
  <1>11. ASSUME NEW d \in Device, NEW to \in Device, MeshDeliver(d, to) PROVE TypeOK'
    <2>1. PICK e \in log[d] :
            /\ log' = [log EXCEPT ![to] = @ \cup {e}]
            /\ authorSeq' = [authorSeq EXCEPT ![to][e] = ResolvedSeq(to, e, authorSeq[d][e])]
            /\ frontier' = [frontier EXCEPT ![to] = Merged(to, e)]
            /\ UNCHANGED <<now, envelope, acked, refused, backoff, floor, cursor,
                           push, pull, stray, serverVars, wiped>>
      BY <1>11 DEF MeshDeliver
    <2>2. e \in Event /\ authorSeq[d][e] \in Nat
      BY DEF TypeOK
    <2>3. Merged(to, e) \in Nat /\ ResolvedSeq(to, e, authorSeq[d][e]) \in Nat
      BY <2>2, RowValues
    <2>4. /\ log' \in [Device -> SUBSET Event]
          /\ frontier' \in [Device -> Nat] /\ authorSeq' \in [Device -> [Event -> Nat]]
      BY <2>1, <2>2, <2>3 DEF TypeOK
    <2>5. \A c \in Device : Bookkeeping(c)'
      BY <2>1, <2>2 DEF TypeOK, Bookkeeping
    <2> QED  BY <2>1, <2>4, <2>5 DEF TypeOK, serverVars
  <1>12. ASSUME NEW d \in Device, Crash(d) \/ LocalReset(d) PROVE TypeOK'
    <2>1. /\ push' = [push EXCEPT ![d] = [s \in Slot |-> IdlePush]]
          /\ pull' = [pull EXCEPT ![d] = [q \in Drain |-> IdlePull]]
          /\ stray' = stray \cup Orphans(d)
          /\ UNCHANGED <<now, envelope, serverVars>>
      BY <1>12 DEF Crash, LocalReset
    <2>2. /\ push' \in [Device -> [Slot -> PushRecord]]
          /\ pull' \in [Device -> [Drain -> PullRecord]]
      BY <2>1, IdleType DEF TypeOK
    <2>3. \A s \in Slot : Request(d, push[d][s]) \in StrayRecord
      BY DEF TypeOK, Request, StrayRecord, PushRecord
    <2>4. \A r \in stray' : r \in StrayRecord
      BY <2>1, <2>3 DEF TypeOK, Orphans, Unanswered
    <2>5. CASE Crash(d)
      <3>1. \A c \in Device : Bookkeeping(c)'
        BY <2>5 DEF Crash, replicaVars, TypeOK, Bookkeeping
      <3> QED  BY <2>1, <2>2, <2>4, <2>5, <3>1 DEF Crash, TypeOK, replicaVars, serverVars
    <2>6. CASE LocalReset(d)
      <3>1. \A c \in Device : Bookkeeping(c)'
        BY <2>6 DEF LocalReset, Cleared, TypeOK, Bookkeeping
      <3> QED  BY <2>1, <2>2, <2>4, <2>6, <3>1 DEF LocalReset, Cleared, TypeOK, serverVars
    <2> QED  BY <1>12, <2>5, <2>6
  <1>13. CASE Tick
    <2>1. \A c \in Device : Bookkeeping(c)'
      BY <1>13 DEF Tick, replicaVars, TypeOK, Bookkeeping
    <2> QED  BY <1>13, <2>1 DEF Tick, TypeOK, replicaVars, serverVars
  <1>14. CASE UNCHANGED vars
    <2>1. \A c \in Device : Bookkeeping(c)'
      BY <1>14 DEF vars, replicaVars, TypeOK, Bookkeeping
    <2> QED  BY <1>14, <2>1 DEF vars, TypeOK, replicaVars, serverVars
  <1> QED
    BY <1>1, <1>2, <1>3, <1>4, <1>5, <1>6, <1>7, <1>8, <1>9, <1>10, <1>11, <1>12,
       <1>13, <1>14 DEF Next, PushStep, PullStep

(* Every variable of every replica and of the server keeps its shape, and   *)
(* flags are only ever set on rows that exist, whatever the interleaving    *)
(* of pushes, pages, mesh relays, crashes and lost databases.               *)
THEOREM TypeCorrect == Spec => []TypeOK
  BY InitType, NextType, PTL DEF Spec

----------------------------------------------------------------------------
\* Which actions touch what.

\* the server's log changes only when the server runs a request
LEMMA ServerChanges ==
    ASSUME [Next]_vars
    PROVE  \/ UNCHANGED serverVars
           \/ \E d \in Device, s \in Slot : ServerPush(d, s)
           \/ ServerPushStray
PROOF
  <1>1. ASSUME NEW d \in Device, AppendEvent(d) \/ BackoffElapsed(d) \/ Crash(d) \/ LocalReset(d)
        PROVE  UNCHANGED serverVars
    BY <1>1 DEF AppendEvent, BackoffElapsed, Crash, LocalReset
  <1>2. ASSUME NEW d \in Device, NEW s \in Slot,
               ReadOutbox(d, s) \/ HandleResponse(d, s) \/ PushTimeout(d, s)
        PROVE  UNCHANGED serverVars
    BY <1>2 DEF ReadOutbox, HandleResponse, PushTimeout
  <1>3. ASSUME NEW d \in Device, NEW q \in Drain, PullStep(d, q)
        PROVE  UNCHANGED serverVars
    BY <1>3 DEF PullStep, OpenDrain, FetchPage, CloseDrain, IngestRow, AdvanceCursor
  <1>4. ASSUME NEW d \in Device, NEW to \in Device, MeshDeliver(d, to)
        PROVE  UNCHANGED serverVars
    BY <1>4 DEF MeshDeliver
  <1>5. Tick \/ UNCHANGED vars => UNCHANGED serverVars
    BY DEF Tick, vars
  <1> QED  BY <1>1, <1>2, <1>3, <1>4, <1>5 DEF Next, PushStep

\* a push moves on, is forgotten, or stays as it is
LEMMA PushChanges ==
    ASSUME TypeOK, [Next]_vars, NEW c \in Device, NEW t \in Slot
    PROVE  \/ push'[c][t] = push[c][t]
           \/ push'[c][t] = IdlePush
           \/ ReadOutbox(c, t) \/ ServerPush(c, t)
PROOF
  <1> DEFINE Goal == \/ push'[c][t] = push[c][t]
                     \/ push'[c][t] = IdlePush
                     \/ ReadOutbox(c, t) \/ ServerPush(c, t)
  <1>1. push \in [Device -> [Slot -> PushRecord]]
    BY DEF TypeOK
  <1>2. ASSUME NEW d \in Device, AppendEvent(d) \/ BackoffElapsed(d) PROVE Goal
    BY <1>2 DEF AppendEvent, BackoffElapsed
  <1>3. ASSUME NEW d \in Device, Crash(d) \/ LocalReset(d) PROVE Goal
    <2>1. push' = [push EXCEPT ![d] = [s \in Slot |-> IdlePush]]
      BY <1>3 DEF Crash, LocalReset
    <2> QED  BY <1>1, <2>1
  <1>4. ASSUME NEW d \in Device, NEW s \in Slot, PushStep(d, s) PROVE Goal
    <2>1. PICK r : push' = [push EXCEPT ![d][s] = r]
      BY <1>4 DEF PushStep, ReadOutbox, ServerPush, HandleResponse, PushTimeout
    <2>2. c # d \/ t # s => push'[c][t] = push[c][t]
      BY <1>1, <2>1
    <2>3. HandleResponse(d, s) \/ PushTimeout(d, s) => push'[d][s] = IdlePush
      BY <1>1 DEF HandleResponse, PushTimeout
    <2> QED  BY <1>4, <2>2, <2>3 DEF PushStep
  <1>5. ASSUME NEW d \in Device, NEW q \in Drain, PullStep(d, q) PROVE Goal
    BY <1>5 DEF PullStep, OpenDrain, FetchPage, CloseDrain, IngestRow, AdvanceCursor
  <1>6. ASSUME NEW d \in Device, NEW to \in Device, MeshDeliver(d, to) PROVE Goal
    BY <1>6 DEF MeshDeliver
  <1>7. Tick \/ ServerPushStray \/ UNCHANGED vars => Goal
    BY DEF Tick, ServerPushStray, vars
  <1> QED  BY <1>2, <1>3, <1>4, <1>5, <1>6, <1>7 DEF Next

\* so does a pull
LEMMA PullChanges ==
    ASSUME TypeOK, [Next]_vars, NEW c \in Device, NEW x \in Drain
    PROVE  \/ pull'[c][x] = pull[c][x]
           \/ pull'[c][x] = IdlePull
           \/ OpenDrain(c, x) \/ FetchPage(c, x) \/ IngestRow(c, x) \/ AdvanceCursor(c, x)
PROOF
  <1> DEFINE Goal == \/ pull'[c][x] = pull[c][x]
                     \/ pull'[c][x] = IdlePull
                     \/ OpenDrain(c, x) \/ FetchPage(c, x) \/ IngestRow(c, x) \/ AdvanceCursor(c, x)
  <1>1. pull \in [Device -> [Drain -> PullRecord]]
    BY DEF TypeOK
  <1>2. ASSUME NEW d \in Device, AppendEvent(d) \/ BackoffElapsed(d) PROVE Goal
    BY <1>2 DEF AppendEvent, BackoffElapsed
  <1>3. ASSUME NEW d \in Device, Crash(d) \/ LocalReset(d) PROVE Goal
    <2>1. pull' = [pull EXCEPT ![d] = [q \in Drain |-> IdlePull]]
      BY <1>3 DEF Crash, LocalReset
    <2> QED  BY <1>1, <2>1
  <1>4. ASSUME NEW d \in Device, NEW q \in Drain, PullStep(d, q) PROVE Goal
    <2>1. PICK r : pull' = [pull EXCEPT ![d][q] = r]
      BY <1>4 DEF PullStep, OpenDrain, FetchPage, CloseDrain, IngestRow, AdvanceCursor
    <2>2. c # d \/ x # q => pull'[c][x] = pull[c][x]
      BY <1>1, <2>1
    <2>3. CloseDrain(d, q) => pull'[d][q] = IdlePull
      BY <1>1 DEF CloseDrain
    <2> QED  BY <1>4, <2>2, <2>3 DEF PullStep
  <1>5. ASSUME NEW d \in Device, NEW s \in Slot, PushStep(d, s) PROVE Goal
    BY <1>5 DEF PushStep, ReadOutbox, ServerPush, HandleResponse, PushTimeout
  <1>6. ASSUME NEW d \in Device, NEW to \in Device, MeshDeliver(d, to) PROVE Goal
    BY <1>6 DEF MeshDeliver
  <1>7. Tick \/ ServerPushStray \/ UNCHANGED vars => Goal
    BY DEF Tick, ServerPushStray, vars
  <1> QED  BY <1>2, <1>3, <1>4, <1>5, <1>6, <1>7 DEF Next

\* what a replica holds and has acknowledged
LEMMA RowChanges ==
    ASSUME TypeOK, [Next]_vars, NEW c \in Device
    PROVE  /\ \/ log'[c] = log[c] \/ AppendEvent(c) \/ LocalReset(c)
              \/ \E q \in Drain : IngestRow(c, q)
              \/ \E from \in Device : MeshDeliver(from, c)
           /\ \/ acked'[c] = acked[c] \/ LocalReset(c)
              \/ \E s \in Slot : HandleResponse(c, s)
              \/ \E q \in Drain : IngestRow(c, q)
PROOF
  <1> DEFINE L == \/ log'[c] = log[c] \/ AppendEvent(c) \/ LocalReset(c)
                  \/ \E q \in Drain : IngestRow(c, q)
                  \/ \E from \in Device : MeshDeliver(from, c)
             A == \/ acked'[c] = acked[c] \/ LocalReset(c)
                  \/ \E s \in Slot : HandleResponse(c, s)
                  \/ \E q \in Drain : IngestRow(c, q)
  <1>1. log \in [Device -> SUBSET Event] /\ acked \in [Device -> SUBSET Event]
    BY DEF TypeOK
  <1>2. ASSUME NEW d \in Device, AppendEvent(d) PROVE L /\ A
    BY <1>1, <1>2 DEF AppendEvent
  <1>3. ASSUME NEW d \in Device, BackoffElapsed(d) PROVE L /\ A
    BY <1>3 DEF BackoffElapsed
  <1>4. ASSUME NEW d \in Device, NEW s \in Slot, PushStep(d, s) PROVE L /\ A
    <2>1. CASE HandleResponse(d, s)
      BY <1>1, <2>1 DEF HandleResponse
    <2>2. CASE ~HandleResponse(d, s)
      BY <1>4, <2>2 DEF PushStep, ReadOutbox, ServerPush, PushTimeout, replicaVars
    <2> QED  BY <2>1, <2>2
  <1>5. ASSUME NEW d \in Device, NEW q \in Drain, PullStep(d, q) PROVE L /\ A
    <2>1. CASE IngestRow(d, q)
      <3>1. c # d => log'[c] = log[c] /\ acked'[c] = acked[c]
        BY <1>1, <2>1 DEF IngestRow
      <3> QED  BY <2>1, <3>1
    <2>2. CASE ~IngestRow(d, q)
      BY <1>5, <2>2 DEF PullStep, OpenDrain, FetchPage, CloseDrain, AdvanceCursor, replicaVars
    <2> QED  BY <2>1, <2>2
  <1>6. ASSUME NEW d \in Device, NEW to \in Device, MeshDeliver(d, to) PROVE L /\ A
    <2>1. (c # to => log'[c] = log[c]) /\ acked'[c] = acked[c]
      BY <1>1, <1>6 DEF MeshDeliver
    <2> QED  BY <1>6, <2>1
  <1>7. ASSUME NEW d \in Device, Crash(d) PROVE L /\ A
    BY <1>7 DEF Crash, replicaVars
  <1>8. ASSUME NEW d \in Device, LocalReset(d) PROVE L /\ A
    BY <1>1, <1>8 DEF LocalReset, Cleared
  <1>9. Tick \/ ServerPushStray \/ UNCHANGED vars => L /\ A
    BY DEF Tick, ServerPushStray, vars, replicaVars
  <1> HIDE DEF L, A
  <1>10. L /\ A
    BY <1>2, <1>3, <1>4, <1>5, <1>6, <1>7, <1>8, <1>9 DEF Next
  <1> QED  BY <1>10 DEF L, A

----------------------------------------------------------------------------
\* Nothing is acknowledged that the server does not have.

\* what a push was told and what a page brought is at the server
AnswersHold == \A d \in Device, s \in Slot : Confirmed(push[d][s]) \subseteq Stored
PagesHold == \A d \in Device, q \in Drain : pull[d][q].rows \subseteq Stored
AckInv == AckedIsStored /\ AnswersHold /\ PagesHold

\* a commit adds what it accepted and loses nothing
LEMMA CommitStores ==
    ASSUME TypeOK, NEW r, r.batch \in SUBSET Event, NEW v, Commit(r, v)
    PROVE  Stored' = Stored \cup {e \in r.batch : v[e] = "accepted"}
PROOF
  <1> DEFINE fresh == {e \in r.batch : v[e] = "accepted"}
  <1>1. \A e \in Event : serverSeq'[e] = IF e \in fresh THEN Place(e, fresh) ELSE serverSeq[e]
    BY DEF Commit
  <1>2. \A e \in Event : Place(e, fresh) # 0
    <2> TAKE e \in Event
    <2>1. {f \in fresh : Before(f, e)} \in SUBSET Event
      OBVIOUS
    <2>2. Cardinality({f \in fresh : Before(f, e)}) \in Nat
      BY <2>1, CountType
    <2> QED  BY <2>2 DEF Place, TypeOK
  <1>3. fresh \subseteq Event
    OBVIOUS
  <1> HIDE DEF fresh
  <1>4. \A e \in Event : serverSeq'[e] # 0 <=> e \in fresh \/ serverSeq[e] # 0
    BY <1>1, <1>2
  <1>5. Stored' = Stored \cup fresh
    BY <1>3, <1>4 DEF Stored
  <1> QED  BY <1>5 DEF fresh

\* the server forgets nothing
LEMMA StoredGrows ==
    ASSUME TypeOK, [Next]_vars
    PROVE  Stored \subseteq Stored'
PROOF
  <1>1. CASE UNCHANGED serverVars
    BY <1>1 DEF serverVars, Stored
  <1>2. ASSUME NEW d \in Device, NEW s \in Slot, ServerPush(d, s)
        PROVE  Stored \subseteq Stored'
    <2>1. push[d][s].batch \in SUBSET Event
      BY DEF TypeOK, PushRecord
    <2> QED  BY <1>2, <2>1, CommitStores DEF ServerPush
  <1>3. CASE ServerPushStray
    <2>1. PICK r \in stray : \E v : Commit(r, v)
      BY <1>3 DEF ServerPushStray
    <2>2. r.batch \in SUBSET Event
      BY DEF TypeOK, StrayRecord
    <2> QED  BY <2>1, <2>2, CommitStores
  <1> QED  BY <1>1, <1>2, <1>3, ServerChanges

\* what a request is told of an event it has accepted or found is true after it
LEMMA AnswerTrue ==
    ASSUME TypeOK, NEW d \in Device, NEW s \in Slot, ServerPush(d, s)
    PROVE  Confirmed(push'[d][s]) \subseteq Stored'
PROOF
  <1> DEFINE p == push[d][s]
  <1>1. p \in PushRecord /\ p.batch \in SUBSET Event
    BY DEF TypeOK, PushRecord
  <1>2. PICK held, barred :
          /\ Commit(p, JudgeBatch(p, held, barred))
          /\ push' = [push EXCEPT ![d][s] =
                        [phase |-> "answered", batch |-> p.batch, seq |-> p.seq,
                         verdict |-> JudgeBatch(p, held, barred)]]
    BY DEF ServerPush
  <1> DEFINE v == JudgeBatch(p, held, barred)
  <1>3. push'[d][s].verdict = v /\ push'[d][s].batch = p.batch
    BY <1>2 DEF TypeOK
  <1>4. \A e \in p.batch : v[e] = "duplicate" => e \in Stored
    BY <1>1 DEF JudgeBatch, VerdictOf
  <1> HIDE DEF v
  <1>5. Stored' = Stored \cup {e \in p.batch : v[e] = "accepted"}
    BY <1>1, <1>2, CommitStores DEF v
  <1> QED  BY <1>3, <1>4, <1>5 DEF Confirmed, Judged

\* Every step keeps acknowledgements true.
LEMMA NextAcked == TypeOK /\ AckInv /\ [Next]_vars => AckInv'
PROOF
  <1> SUFFICES ASSUME TypeOK, AckInv, [Next]_vars PROVE AckInv'
    OBVIOUS
  <1>1. Stored \subseteq Stored'
    BY StoredGrows
  <1>2. AnswersHold'
    <2> SUFFICES ASSUME NEW c \in Device, NEW t \in Slot
                 PROVE  Confirmed(push'[c][t]) \subseteq Stored'
      BY DEF AnswersHold
    <2>1. Confirmed(push[c][t]) \subseteq Stored'
      BY <1>1 DEF AckInv, AnswersHold
    <2>2. Confirmed(IdlePush) = {}
      BY DEF Confirmed, Judged, IdlePush
    <2>3. ASSUME ReadOutbox(c, t) PROVE Confirmed(push'[c][t]) = {}
      <3>1. push'[c][t].verdict = [e \in Event |-> "none"] /\ push'[c][t].batch \subseteq Event
        BY <2>3 DEF ReadOutbox, IdlePush, TypeOK, Earliest, Outbox, Pending
      <3> QED  BY <3>1 DEF Confirmed, Judged
    <2> QED  BY <2>1, <2>2, <2>3, AnswerTrue, PushChanges
  <1>3. PagesHold'
    <2> SUFFICES ASSUME NEW c \in Device, NEW x \in Drain
                 PROVE  pull'[c][x].rows \subseteq Stored'
      BY DEF PagesHold
    <2>0. pull[c][x] \in PullRecord /\ pull \in [Device -> [Drain -> PullRecord]]
      BY DEF TypeOK
    <2>1. pull[c][x].rows \subseteq Stored'
      BY <1>1 DEF AckInv, PagesHold
    <2>2. IdlePull.rows = {}
      BY DEF IdlePull
    <2>3. ASSUME OpenDrain(c, x) \/ AdvanceCursor(c, x) PROVE pull'[c][x].rows = {}
      <3>1. IdlePull.rows = {} /\ [IdlePull EXCEPT !.phase = "open", !.at = cursor[c]].rows = {}
            /\ [IdlePull EXCEPT !.phase = "open", !.at = pull[c][x].next].rows = {}
        BY DEF IdlePull
      <3>2. OpenDrain(c, x) => pull'[c][x].rows = {}
        BY <2>0, <3>1 DEF OpenDrain
      <3>3. AdvanceCursor(c, x) => pull'[c][x].rows = {}
        BY <2>0, <3>1 DEF AdvanceCursor
      <3> QED  BY <2>3, <3>2, <3>3
    <2>4. ASSUME FetchPage(c, x) PROVE pull'[c][x].rows \subseteq Stored'
      BY <1>1, <2>0, <2>4 DEF FetchPage, PageAfter, After
    <2>5. ASSUME IngestRow(c, x) PROVE pull'[c][x].rows \subseteq pull[c][x].rows
      BY <2>0, <2>5 DEF IngestRow
    <2> QED  BY <2>1, <2>2, <2>3, <2>4, <2>5, PullChanges
  <1>4. AckedIsStored'
    <2> SUFFICES ASSUME NEW c \in Device PROVE acked'[c] \subseteq Stored'
      BY DEF AckedIsStored
    <2>0. acked[c] \subseteq Stored' /\ acked \in [Device -> SUBSET Event]
      BY <1>1 DEF AckInv, AckedIsStored, TypeOK
    <2>1. ASSUME LocalReset(c) PROVE acked'[c] = {}
      BY <2>0, <2>1 DEF LocalReset, Cleared
    <2>2. ASSUME NEW s \in Slot, HandleResponse(c, s) PROVE acked'[c] \subseteq Stored'
      <3>1. acked'[c] = acked[c] \cup (Confirmed(push[c][s]) \cap log[c])
        BY <2>0, <2>2 DEF HandleResponse
      <3> QED  BY <1>1, <2>0, <3>1 DEF AckInv, AnswersHold
    <2>3. ASSUME NEW q \in Drain, IngestRow(c, q) PROVE acked'[c] \subseteq Stored'
      <3>1. PICK e \in pull[c][q].rows :
              acked' = [acked EXCEPT ![c] = IF e \in log'[c] THEN @ \cup {e} ELSE @]
        BY <2>3 DEF IngestRow
      <3>2. e \in Stored'
        BY <1>1 DEF AckInv, PagesHold
      <3> QED  BY <2>0, <3>1, <3>2
    <2> QED  BY <2>0, <2>1, <2>2, <2>3, RowChanges
  <1> QED  BY <1>2, <1>3, <1>4 DEF AckInv

\* Nothing is acknowledged at the start.
LEMMA InitAcked == Init => AckInv
  BY DEF Init, AckInv, AckedIsStored, AnswersHold, PagesHold, Confirmed, Judged,
         IdlePush, IdlePull

(* server_acked_at is never set on an event the server does not have, for   *)
(* any number of overlapping pushes and drains, requests abandoned and run  *)
(* later, mesh relays, crashes and lost databases (push.ts, ingest-row.ts). *)
THEOREM AcknowledgedAreStored == Spec => []AckedIsStored
PROOF
  <1>1. Spec => []AckInv
    BY InitAcked, NextAcked, TypeCorrect, PTL DEF Spec
  <1>2. AckInv => AckedIsStored
    BY DEF AckInv
  <1> QED  BY <1>1, <1>2, PTL

----------------------------------------------------------------------------
\* Nothing is lost.

\* an envelope is written by an append
LEMMA EnvelopeChanges ==
    ASSUME [Next]_vars
    PROVE  envelope' = envelope \/ \E d \in Device : AppendEvent(d)
PROOF
  <1>1. ASSUME NEW d \in Device, NEW s \in Slot, PushStep(d, s) PROVE envelope' = envelope
    BY <1>1 DEF PushStep, ReadOutbox, ServerPush, HandleResponse, PushTimeout
  <1>2. ASSUME NEW d \in Device, NEW q \in Drain, PullStep(d, q) PROVE envelope' = envelope
    BY <1>2 DEF PullStep, OpenDrain, FetchPage, CloseDrain, IngestRow, AdvanceCursor
  <1>3. ASSUME NEW d \in Device, NEW to \in Device, MeshDeliver(d, to) PROVE envelope' = envelope
    BY <1>3 DEF MeshDeliver
  <1>4. ASSUME NEW d \in Device, BackoffElapsed(d) \/ Crash(d) \/ LocalReset(d)
        PROVE  envelope' = envelope
    BY <1>4 DEF BackoffElapsed, Crash, LocalReset
  <1>5. Tick \/ ServerPushStray \/ UNCHANGED vars => envelope' = envelope
    BY DEF Tick, ServerPushStray, vars
  <1> QED  BY <1>1, <1>2, <1>3, <1>4, <1>5 DEF Next

\* AppendEvent writes a fresh envelope
LEMMA AppendCreates ==
    ASSUME TypeOK, NEW d \in Device, AppendEvent(d)
    PROVE  \E e \in Event \ Created :
             /\ envelope' = [envelope EXCEPT ![e] = [author |-> d, pms |-> Larger(Clock(d), frontier[d])]]
             /\ log' = [log EXCEPT ![d] = @ \cup {e}]
             /\ Created' = Created \cup {e}
PROOF
  <1>1. PICK e \in Event :
          /\ Created = 1..(e - 1)
          /\ envelope' = [envelope EXCEPT ![e] = [author |-> d, pms |-> Larger(Clock(d), frontier[d])]]
          /\ log' = [log EXCEPT ![d] = @ \cup {e}]
    BY DEF AppendEvent
  <1>2. e \notin Created
    BY <1>1 DEF Event
  <1>3. [author |-> d, pms |-> Larger(Clock(d), frontier[d])] # NoEvent
    BY DeviceAssumption DEF NoEvent
  <1>4. envelope'[e] # NoEvent /\ \A f \in Event \ {e} : envelope'[f] = envelope[f]
    BY <1>1, <1>3 DEF TypeOK
  <1>5. Created' = Created \cup {e}
    BY <1>4 DEF Created
  <1> QED  BY <1>1, <1>2, <1>5

\* An event keeps its author and its date.
LEMMA EnvelopeKept ==
    ASSUME TypeOK, [Next]_vars
    PROVE  /\ Created \subseteq Created'
           /\ \A e \in Created : envelope'[e] = envelope[e]
PROOF
  <1>1. CASE envelope' = envelope
    BY <1>1 DEF Created
  <1>2. ASSUME NEW d \in Device, AppendEvent(d)
        PROVE  Created \subseteq Created' /\ \A e \in Created : envelope'[e] = envelope[e]
    <2>1. PICK e \in Event \ Created :
             /\ envelope' = [envelope EXCEPT ![e] = [author |-> d, pms |-> Larger(Clock(d), frontier[d])]]
             /\ Created' = Created \cup {e}
      BY <1>2, AppendCreates
    <2>2. \A f \in Event \ {e} : envelope'[f] = envelope[f]
      BY <2>1 DEF TypeOK
    <2>3. Created \subseteq Event \ {e}
      BY <2>1 DEF Created
    <2> QED  BY <2>1, <2>2, <2>3
  <1> QED  BY <1>1, <1>2, EnvelopeChanges

\* what a replica gave up on, and which devices lost their database
LEMMA RefusedChanges ==
    ASSUME TypeOK, [Next]_vars, NEW c \in Device
    PROVE  /\ \/ refused'[c] = refused[c] \/ refused'[c] = {}
              \/ \E s \in Slot : HandleResponse(c, s)
           /\ wiped \subseteq wiped'
PROOF
  <1> DEFINE R == /\ \/ refused'[c] = refused[c] \/ refused'[c] = {}
                     \/ \E s \in Slot : HandleResponse(c, s)
                  /\ wiped \subseteq wiped'
  <1>1. refused \in [Device -> SUBSET Event]
    BY DEF TypeOK
  <1>2. ASSUME NEW d \in Device, AppendEvent(d) \/ BackoffElapsed(d) \/ Crash(d) PROVE R
    BY <1>2 DEF AppendEvent, BackoffElapsed, Crash, replicaVars
  <1>3. ASSUME NEW d \in Device, LocalReset(d) PROVE R
    BY <1>1, <1>3 DEF LocalReset, Cleared
  <1>4. ASSUME NEW d \in Device, NEW s \in Slot, PushStep(d, s) PROVE R
    <2>1. CASE HandleResponse(d, s)
      <3>1. (c # d => refused'[c] = refused[c]) /\ wiped' = wiped
        BY <1>1, <2>1 DEF HandleResponse
      <3> QED  BY <2>1, <3>1
    <2>2. CASE ~HandleResponse(d, s)
      BY <1>4, <2>2 DEF PushStep, ReadOutbox, ServerPush, PushTimeout, replicaVars
    <2> QED  BY <2>1, <2>2
  <1>5. ASSUME NEW d \in Device, NEW q \in Drain, PullStep(d, q) PROVE R
    BY <1>5 DEF PullStep, OpenDrain, FetchPage, CloseDrain, IngestRow, AdvanceCursor, replicaVars
  <1>6. ASSUME NEW d \in Device, NEW to \in Device, MeshDeliver(d, to) PROVE R
    BY <1>6 DEF MeshDeliver
  <1>7. Tick \/ ServerPushStray \/ UNCHANGED vars => R
    BY DEF Tick, ServerPushStray, vars, replicaVars
  <1> HIDE DEF R
  <1>8. R
    BY <1>2, <1>3, <1>4, <1>5, <1>6, <1>7 DEF Next
  <1> QED  BY <1>8 DEF R

\* a replica only loses rows with its whole database
LEMMA RowsStay ==
    ASSUME TypeOK, [Next]_vars, NEW c \in Device
    PROVE  LocalReset(c) \/ log[c] \subseteq log'[c]
PROOF
  <1>1. log \in [Device -> SUBSET Event]
    BY DEF TypeOK
  <1>2. AppendEvent(c) => log[c] \subseteq log'[c]
    BY <1>1 DEF AppendEvent
  <1>3. ASSUME NEW q \in Drain, IngestRow(c, q) PROVE log[c] \subseteq log'[c]
    BY <1>1, <1>3 DEF IngestRow
  <1>4. ASSUME NEW from \in Device, MeshDeliver(from, c) PROVE log[c] \subseteq log'[c]
    BY <1>1, <1>4 DEF MeshDeliver
  <1> QED  BY <1>2, <1>3, <1>4, RowChanges

\* an event stays on its author's device as long as the database does, and
\* only a refusal that may be final takes an event out of an outbox
AtHome == \A e \in Created : Author(e) \in wiped \/ (Author(e) \in Device /\ e \in log[Author(e)])
FinalAnswers ==
    /\ \A d \in Device, s \in Slot : \A e \in Exiled(push[d][s]) : FinalVeto(e) \in Vetoes
    /\ \A d \in Device : \A e \in refused[d] : FinalVeto(e) \in Vetoes

\* the server only refuses what a final reason bars
LEMMA RefusalIsFinal ==
    ASSUME TypeOK, NEW d \in Device, NEW s \in Slot, ServerPush(d, s), NEW e \in Exiled(push'[d][s])
    PROVE  FinalVeto(e) \in Vetoes
PROOF
  <1> DEFINE p == push[d][s]
  <1>1. PICK held \in SUBSET Holdable(p.batch), barred \in SUBSET Refusable(p.batch) :
          push' = [push EXCEPT ![d][s] =
                    [phase |-> "answered", batch |-> p.batch, seq |-> p.seq,
                     verdict |-> JudgeBatch(p, held, barred)]]
    BY DEF ServerPush
  <1>2. p.batch \in SUBSET Event /\ push \in [Device -> [Slot -> PushRecord]]
    BY DEF TypeOK, PushRecord
  <1>3. push'[d][s].verdict = JudgeBatch(p, held, barred) /\ push'[d][s].batch = p.batch
    BY <1>1, <1>2
  <1>4. e \in p.batch /\ e \in Event /\ JudgeBatch(p, held, barred)[e] = "refused"
    BY <1>2, <1>3 DEF Exiled, Judged
  <1>5. VerdictOf(e, p, held, barred) = "refused"
    BY <1>4 DEF JudgeBatch
  <1>6. e \in barred
    BY <1>5 DEF VerdictOf
  <1>7. e \in Refusable(p.batch)
    BY <1>1, <1>6
  <1> QED  BY <1>7 DEF Refusable, Veto, FinalVeto

\* An event that is not stored stays on its author's device.
LEMMA NextHome == TypeOK /\ AtHome /\ [Next]_vars => AtHome'
PROOF
  <1> SUFFICES ASSUME TypeOK, AtHome, [Next]_vars, NEW e \in Created'
               PROVE  Author(e)' \in wiped' \/ (Author(e)' \in Device /\ e \in log'[Author(e)'])
    BY DEF AtHome
  <1>1. CASE e \in Created
    <2>1. Author(e)' = Author(e)
      BY <1>1, EnvelopeKept DEF Author
    <2>2. CASE Author(e) \in wiped
      <3>1. wiped \subseteq Device
        BY DEF TypeOK
      <3> QED  BY <2>1, <2>2, <3>1, RefusedChanges
    <2>3. CASE Author(e) \in Device /\ e \in log[Author(e)]
      <3>1. PICK a \in Device : a = Author(e)
        BY <2>3
      <3>2. LocalReset(a) => a \in wiped'
        BY DEF LocalReset
      <3> QED  BY <2>1, <2>3, <3>1, <3>2, RowsStay
    <2> QED  BY <1>1, <2>2, <2>3 DEF AtHome
  <1>2. CASE e \notin Created
    <2>1. PICK d \in Device : AppendEvent(d)
      BY <1>2, EnvelopeChanges DEF Created
    <2>2. PICK f \in Event \ Created :
             /\ envelope' = [envelope EXCEPT ![f] = [author |-> d, pms |-> Larger(Clock(d), frontier[d])]]
             /\ log' = [log EXCEPT ![d] = @ \cup {f}]
             /\ Created' = Created \cup {f}
      BY <2>1, AppendCreates
    <2>3. e = f
      BY <1>2, <2>2
    <2>4. envelope'[e] = [author |-> d, pms |-> Larger(Clock(d), frontier[d])] /\ e \in log'[d]
      BY <2>2, <2>3 DEF TypeOK
    <2> QED  BY <2>4 DEF Author
  <1> QED  BY <1>1, <1>2

\* A refusal, in an answer or on a row, keeps its final reason.
LEMMA NextFinal == TypeOK /\ FinalAnswers /\ [Next]_vars => FinalAnswers'
PROOF
  <1> SUFFICES ASSUME TypeOK, FinalAnswers, [Next]_vars PROVE FinalAnswers'
    OBVIOUS
  <1>1. ASSUME NEW c \in Device, NEW t \in Slot, NEW e \in Exiled(push'[c][t])
        PROVE  FinalVeto(e) \in Vetoes
    <2>1. push \in [Device -> [Slot -> PushRecord]]
      BY DEF TypeOK
    <2>2. Exiled(IdlePush) = {}
      BY DEF Exiled, Judged, IdlePush
    <2>3. ASSUME ReadOutbox(c, t) PROVE Exiled(push'[c][t]) = {}
      <3>1. push'[c][t].verdict = [f \in Event |-> "none"] /\ push'[c][t].batch \subseteq Event
        BY <2>1, <2>3 DEF ReadOutbox, IdlePush, TypeOK, Earliest, Outbox, Pending
      <3> QED  BY <3>1 DEF Exiled, Judged
    <2>4. push'[c][t] = push[c][t] => FinalVeto(e) \in Vetoes
      BY <1>1 DEF FinalAnswers
    <2> QED  BY <1>1, <2>2, <2>3, <2>4, RefusalIsFinal, PushChanges
  <1>2. ASSUME NEW c \in Device, NEW e \in refused'[c] PROVE FinalVeto(e) \in Vetoes
    <2>1. ASSUME NEW s \in Slot, HandleResponse(c, s)
          PROVE  refused'[c] \subseteq refused[c] \cup Exiled(push[c][s])
      BY <2>1 DEF HandleResponse, TypeOK
    <2> QED  BY <1>2, <2>1, RefusedChanges DEF FinalAnswers
  <1> QED  BY <1>1, <1>2 DEF FinalAnswers

(* Until the server has an event it is queued on the device that created    *)
(* it, unless it was refused for a reason that is meant to be final or the  *)
(* device lost its database (push.ts): no interleaving of answers, timeouts *)
(* and retries drops one.                                                   *)
THEOREM QueuedUntilStored == Spec => []NothingLost
PROOF
  <1> DEFINE Inv == TypeOK /\ AckInv /\ AtHome /\ FinalAnswers
  <1>1. Init => Inv
    <2>1. Init => AtHome
      BY DEF Init, AtHome, Created
    <2>2. Init => FinalAnswers
      BY DEF Init, FinalAnswers, Exiled, Judged, IdlePush
    <2> QED  BY <2>1, <2>2, InitType, InitAcked
  <1>2. Inv /\ [Next]_vars => Inv'
    BY NextType, NextAcked, NextHome, NextFinal
  <1>3. Inv => NothingLost
    BY DEF AckInv, AtHome, FinalAnswers, AckedIsStored, NothingLost, Pending
  <1> QED  BY <1>1, <1>2, <1>3, PTL DEF Spec
=============================================================================
