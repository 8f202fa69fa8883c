------------------------ MODULE EventSyncLedgerProofs ------------------------
(***************************************************************************)
(* Devices, server and mesh implement a replicated ledger.  Pulling skips  *)
(* nothing: what the server commits lies beyond every cursor, and whatever *)
(* a cursor has passed is on disk.  The server's log is one history        *)
(* without holes, no number is used twice, a vector promises what is held, *)
(* and every step of EventSync is a step of ReplicatedLedger or changes    *)
(* nothing of it.                                                          *)
(***************************************************************************)
EXTENDS EventSyncProofs, SequenceTheorems

----------------------------------------------------------------------------
\* Which actions touch the frontiers and the cursors.

\* Which steps move a device's frontier, and how.
LEMMA FrontierChanges ==
    ASSUME TypeOK, [Next]_vars, NEW c \in Device
    PROVE  \/ frontier'[c] = frontier[c] \/ AppendEvent(c) \/ LocalReset(c)
           \/ \E q \in Drain : IngestRow(c, q)
           \/ \E from \in Device : MeshDeliver(from, c)
PROOF
  <1> DEFINE F == \/ frontier'[c] = frontier[c] \/ AppendEvent(c) \/ LocalReset(c)
                  \/ \E q \in Drain : IngestRow(c, q)
                  \/ \E from \in Device : MeshDeliver(from, c)
  <1>1. frontier \in [Device -> Nat]
    BY DEF TypeOK
  <1>2. ASSUME NEW d \in Device, AppendEvent(d) PROVE F
    <2>1. c # d => frontier'[c] = frontier[c]
      BY <1>1, <1>2 DEF AppendEvent
    <2> QED  BY <1>2, <2>1
  <1>3. ASSUME NEW d \in Device, BackoffElapsed(d) \/ Crash(d) PROVE F
    BY <1>3 DEF BackoffElapsed, Crash, replicaVars
  <1>4. ASSUME NEW d \in Device, NEW s \in Slot, PushStep(d, s) PROVE F
    BY <1>4 DEF PushStep, ReadOutbox, ServerPush, HandleResponse, PushTimeout, replicaVars
  <1>5. ASSUME NEW d \in Device, NEW q \in Drain, PullStep(d, q) PROVE F
    <2>1. CASE IngestRow(d, q)
      <3>1. c # d => frontier'[c] = frontier[c]
        BY <1>1, <2>1 DEF IngestRow
      <3> QED  BY <2>1, <3>1
    <2>2. CASE ~IngestRow(d, q)
      BY <1>5, <2>2 DEF PullStep, OpenDrain, FetchPage, CloseDrain, AdvanceCursor, replicaVars
    <2> QED  BY <2>1, <2>2
  <1>6. ASSUME NEW d \in Device, NEW to \in Device, MeshDeliver(d, to) PROVE F
    <2>1. c # to => frontier'[c] = frontier[c]
      BY <1>1, <1>6 DEF MeshDeliver
    <2> QED  BY <1>6, <2>1
  <1>7. ASSUME NEW d \in Device, LocalReset(d) PROVE F
    <2>1. c # d => frontier'[c] = frontier[c]
      BY <1>1, <1>7 DEF LocalReset
    <2> QED  BY <1>7, <2>1
  <1>8. Tick \/ ServerPushStray \/ UNCHANGED vars => F
    BY DEF Tick, ServerPushStray, vars, replicaVars
  <1> HIDE DEF F
  <1>9. F
    BY <1>2, <1>3, <1>4, <1>5, <1>6, <1>7, <1>8 DEF Next
  <1> QED  BY <1>9 DEF F

\* Which steps move a cursor, and how.
LEMMA CursorChanges ==
    ASSUME TypeOK, [Next]_vars, NEW c \in Device
    PROVE  cursor'[c] = cursor[c] \/ LocalReset(c) \/ \E q \in Drain : AdvanceCursor(c, q)
PROOF
  <1> DEFINE C == cursor'[c] = cursor[c] \/ LocalReset(c) \/ \E q \in Drain : AdvanceCursor(c, q)
  <1>1. cursor \in [Device -> Nat]
    BY DEF TypeOK
  <1>2. ASSUME NEW d \in Device, AppendEvent(d) \/ BackoffElapsed(d) \/ Crash(d) PROVE C
    BY <1>2 DEF AppendEvent, BackoffElapsed, Crash
  <1>3. ASSUME NEW d \in Device, LocalReset(d) PROVE C
    <2>1. c # d => cursor'[c] = cursor[c]
      BY <1>1, <1>3 DEF LocalReset
    <2> QED  BY <1>3, <2>1
  <1>4. ASSUME NEW d \in Device, NEW s \in Slot, PushStep(d, s) PROVE C
    BY <1>4 DEF PushStep, ReadOutbox, ServerPush, HandleResponse, PushTimeout
  <1>5. ASSUME NEW d \in Device, NEW q \in Drain, PullStep(d, q) PROVE C
    <2>1. CASE AdvanceCursor(d, q)
      <3>1. c # d => cursor'[c] = cursor[c]
        BY <1>1, <2>1 DEF AdvanceCursor
      <3> QED  BY <2>1, <3>1
    <2>2. CASE ~AdvanceCursor(d, q)
      BY <1>5, <2>2 DEF PullStep, OpenDrain, FetchPage, CloseDrain, IngestRow
    <2> QED  BY <2>1, <2>2
  <1>6. ASSUME NEW d \in Device, NEW to \in Device, MeshDeliver(d, to) PROVE C
    BY <1>6 DEF MeshDeliver
  <1>7. Tick \/ ServerPushStray \/ UNCHANGED vars => C
    BY DEF Tick, ServerPushStray, vars
  <1> HIDE DEF C
  <1>8. C
    BY <1>2, <1>3, <1>4, <1>5, <1>6, <1>7 DEF Next
  <1> QED  BY <1>8 DEF C

----------------------------------------------------------------------------
\* Only events that were created are anywhere.

Known ==
    /\ Stored \subseteq Created
    /\ \A d \in Device : log[d] \subseteq Created
    /\ \A d \in Device, s \in Slot : push[d][s].batch \subseteq Created
    /\ \A r \in stray : r.batch \subseteq Created

\* an abandoned request is one that some push had sent
LEMMA StrayChanges ==
    ASSUME [Next]_vars, NEW r \in stray'
    PROVE  r \in stray \/ \E d \in Device, s \in Slot : r = Request(d, push[d][s])
PROOF
  <1> DEFINE G == r \in stray \/ \E d \in Device, s \in Slot : r = Request(d, push[d][s])
  <1>1. ASSUME NEW d \in Device, Crash(d) \/ LocalReset(d) PROVE G
    <2>1. stray' = stray \cup Orphans(d)
      BY <1>1 DEF Crash, LocalReset
    <2> QED  BY <2>1 DEF Orphans, Unanswered
  <1>2. ASSUME NEW d \in Device, NEW s \in Slot, PushStep(d, s) PROVE G
    <2>1. PushTimeout(d, s) => stray' \subseteq stray \cup {Request(d, push[d][s])}
      BY DEF PushTimeout
    <2>2. ~PushTimeout(d, s) => stray' = stray
      BY <1>2 DEF PushStep, ReadOutbox, ServerPush, HandleResponse
    <2> QED  BY <2>1, <2>2
  <1>3. ASSUME NEW d \in Device, NEW q \in Drain, PullStep(d, q) PROVE G
    BY <1>3 DEF PullStep, OpenDrain, FetchPage, CloseDrain, IngestRow, AdvanceCursor
  <1>4. ASSUME NEW d \in Device, NEW to \in Device, MeshDeliver(d, to) PROVE G
    BY <1>4 DEF MeshDeliver
  <1>5. ASSUME NEW d \in Device, AppendEvent(d) \/ BackoffElapsed(d) PROVE G
    BY <1>5 DEF AppendEvent, BackoffElapsed
  <1>6. Tick \/ ServerPushStray \/ UNCHANGED vars => G
    BY DEF Tick, ServerPushStray, vars
  <1> HIDE DEF G
  <1>7. G
    BY <1>1, <1>2, <1>3, <1>4, <1>5, <1>6 DEF Next
  <1> QED  BY <1>7 DEF G

\* what the server adds, some request has brought
LEMMA StoredChanges ==
    ASSUME TypeOK, [Next]_vars
    PROVE  \A e \in Stored' \ Stored :
             \/ \E d \in Device, s \in Slot : e \in push[d][s].batch
             \/ \E r \in stray : e \in r.batch
PROOF
  <1> SUFFICES ASSUME NEW e \in Stored', e \notin Stored
               PROVE  \/ \E d \in Device, s \in Slot : e \in push[d][s].batch
                      \/ \E r \in stray : e \in r.batch
    OBVIOUS
  <1>1. CASE UNCHANGED serverVars
    BY <1>1 DEF serverVars, Stored
  <1>2. ASSUME NEW d \in Device, NEW s \in Slot, ServerPush(d, s)
        PROVE  e \in push[d][s].batch
    <2>1. push[d][s].batch \in SUBSET Event
      BY DEF TypeOK, PushRecord
    <2> QED  BY <1>2, <2>1, CommitStores DEF ServerPush
  <1>3. ASSUME ServerPushStray PROVE \E r \in stray : e \in r.batch
    <2>1. PICK r \in stray : \E v : Commit(r, v)
      BY <1>3 DEF ServerPushStray
    <2>2. r.batch \in SUBSET Event
      BY DEF TypeOK, StrayRecord
    <2> QED  BY <2>1, <2>2, CommitStores
  <1> QED  BY <1>1, <1>2, <1>3, ServerChanges

\* Every page and row stays an event that was written.
LEMMA NextKnown == TypeOK /\ AckInv /\ Known /\ [Next]_vars => Known'
PROOF
  <1> SUFFICES ASSUME TypeOK, AckInv, Known, [Next]_vars PROVE Known'
    OBVIOUS
  <1>1. Created \subseteq Created'
    BY EnvelopeKept
  <1>2. Stored' \subseteq Created'
    BY <1>1, StoredChanges DEF Known
  <1>3. ASSUME NEW c \in Device PROVE log'[c] \subseteq Created'
    <2>0. log[c] \subseteq Created' /\ log \in [Device -> SUBSET Event]
      BY <1>1 DEF Known, TypeOK
    <2>1. ASSUME AppendEvent(c) PROVE log'[c] \subseteq Created'
      <3>1. PICK e : log' = [log EXCEPT ![c] = @ \cup {e}] /\ Created' = Created \cup {e}
        BY <2>1, AppendCreates
      <3> QED  BY <2>0, <3>1
    <2>2. ASSUME LocalReset(c) PROVE log'[c] = {}
      BY <2>0, <2>2 DEF LocalReset
    <2>3. ASSUME NEW q \in Drain, IngestRow(c, q) PROVE log'[c] \subseteq Created'
      <3>1. log'[c] \subseteq log[c] \cup pull[c][q].rows
        BY <2>0, <2>3 DEF IngestRow
      <3> QED  BY <1>1, <2>0, <3>1 DEF Known, AckInv, PagesHold
    <2>4. ASSUME NEW from \in Device, MeshDeliver(from, c) PROVE log'[c] \subseteq Created'
      <3>1. log'[c] \subseteq log[c] \cup log[from]
        BY <2>0, <2>4 DEF MeshDeliver
      <3> QED  BY <1>1, <2>0, <3>1 DEF Known
    <2> QED  BY <2>0, <2>1, <2>2, <2>3, <2>4, RowChanges
  <1>4. ASSUME NEW c \in Device, NEW t \in Slot PROVE push'[c][t].batch \subseteq Created'
    <2>0. push[c][t].batch \subseteq Created' /\ push \in [Device -> [Slot -> PushRecord]]
      BY <1>1 DEF Known, TypeOK
    <2>1. IdlePush.batch = {}
      BY DEF IdlePush
    <2>2. ASSUME ReadOutbox(c, t) PROVE push'[c][t].batch \subseteq log[c]
      <3>1. push'[c][t].batch = Earliest(Outbox(c), MaxBatch)
        BY <2>0, <2>2 DEF ReadOutbox, IdlePush
      <3> QED  BY <3>1 DEF Earliest, Outbox, Pending
    <2>3. ASSUME ServerPush(c, t) PROVE push'[c][t].batch = push[c][t].batch
      BY <2>0, <2>3 DEF ServerPush
    <2> QED  BY <1>1, <2>0, <2>1, <2>2, <2>3, PushChanges DEF Known
  <1>5. ASSUME NEW r \in stray' PROVE r.batch \subseteq Created'
    BY <1>1, StrayChanges DEF Known, Request
  <1> QED  BY <1>2, <1>3, <1>4, <1>5 DEF Known

----------------------------------------------------------------------------
\* No frontier, and so no event, is dated further ahead than the drift.

InTime ==
    /\ \A d \in Device : frontier[d] <= Clock(d) + Drift
    /\ \A e \in Created : Author(e) \in Device /\ Pms(e) <= Clock(Author(e)) + Drift

\* time does not run backwards
LEMMA ClockAdvances ==
    ASSUME TypeOK, [Next]_vars
    PROVE  now \in Nat /\ now' \in Nat /\ now <= now'
PROOF
  <1>1. TypeOK'
    BY NextType
  <1>2. CASE Tick
    BY <1>2 DEF Tick, TypeOK
  <1>3. CASE ~Tick
    <2>1. ASSUME NEW d \in Device, AppendEvent(d) \/ BackoffElapsed(d) \/ Crash(d) \/ LocalReset(d)
          PROVE  now' = now
      BY <2>1 DEF AppendEvent, BackoffElapsed, Crash, LocalReset
    <2>2. ASSUME NEW d \in Device, NEW s \in Slot, PushStep(d, s) PROVE now' = now
      BY <2>2 DEF PushStep, ReadOutbox, ServerPush, HandleResponse, PushTimeout
    <2>3. ASSUME NEW d \in Device, NEW q \in Drain, PullStep(d, q) PROVE now' = now
      BY <2>3 DEF PullStep, OpenDrain, FetchPage, CloseDrain, IngestRow, AdvanceCursor
    <2>4. ASSUME NEW d \in Device, NEW to \in Device, MeshDeliver(d, to) PROVE now' = now
      BY <2>4 DEF MeshDeliver
    <2>5. ServerPushStray \/ UNCHANGED vars => now' = now
      BY DEF ServerPushStray, vars
    <2>6. now' = now
      BY <1>3, <2>1, <2>2, <2>3, <2>4, <2>5 DEF Next
    <2> QED  BY <2>6 DEF TypeOK
  <1> QED  BY <1>1, <1>2, <1>3 DEF TypeOK

\* merging a peer's stamp moves a frontier by the drift at most
LEMMA MergedInTime ==
    ASSUME TypeOK, NEW d \in Device, NEW e \in Event, frontier[d] <= Clock(d) + Drift
    PROVE  Merged(d, e) <= Clock(d) + Drift
PROOF
  <1>1. /\ frontier[d] \in Nat /\ Clock(d) \in Nat /\ Pms(e) \in Nat /\ Drift \in Nat
    BY RowValues, ClockAssumption DEF TypeOK
  <1> QED  BY <1>1 DEF Merged, Larger

\* No event is dated later than its author's clock and the drift allow.
LEMMA NextInTime == TypeOK /\ InTime /\ [Next]_vars => InTime'
PROOF
  <1> SUFFICES ASSUME TypeOK, InTime, [Next]_vars PROVE InTime'
    OBVIOUS
  <1>1. \A d \in Device : Clock(d) \in Int /\ Clock(d)' \in Int /\ Clock(d) <= Clock(d)'
    BY ClockAdvances, ClockAssumption DEF Clock
  <1>2. ASSUME NEW c \in Device PROVE frontier'[c] <= Clock(c)' + Drift
    <2>0. /\ frontier \in [Device -> Nat] /\ frontier[c] \in Nat /\ Drift \in Nat
          /\ Clock(c) \in Nat /\ Clock(c)' \in Int /\ Clock(c) <= Clock(c)'
          /\ frontier[c] <= Clock(c) + Drift
      BY <1>1, ClockAssumption, RowValues, ClockAdvances DEF TypeOK, InTime, Clock
    <2>1. ASSUME AppendEvent(c) PROVE frontier'[c] <= Clock(c) + Drift
      BY <2>0, <2>1 DEF AppendEvent, Larger
    <2>2. ASSUME LocalReset(c) PROVE frontier'[c] = 0
      BY <2>0, <2>2 DEF LocalReset
    <2>3. ASSUME NEW q \in Drain, IngestRow(c, q) PROVE frontier'[c] <= Clock(c) + Drift
      <3>1. PICK e \in pull[c][q].rows :
              frontier' = [frontier EXCEPT ![c] = IF Admissible(c, e) THEN Merged(c, e) ELSE @]
        BY <2>3 DEF IngestRow
      <3>2. e \in Event
        BY DEF TypeOK, PullRecord
      <3> QED  BY <2>0, <3>1, <3>2, MergedInTime
    <2>4. ASSUME NEW from \in Device, MeshDeliver(from, c) PROVE frontier'[c] <= Clock(c) + Drift
      <3>1. PICK e \in log[from] : frontier' = [frontier EXCEPT ![c] = Merged(c, e)]
        BY <2>4 DEF MeshDeliver
      <3>2. e \in Event
        BY DEF TypeOK
      <3> QED  BY <2>0, <3>1, <3>2, MergedInTime
    <2>5. frontier'[c] \in Nat
      BY NextType DEF TypeOK
    <2> QED  BY <2>0, <2>1, <2>2, <2>3, <2>4, <2>5, FrontierChanges
  <1>3. ASSUME NEW e \in Created' PROVE Author(e)' \in Device /\ Pms(e)' <= Clock(Author(e))' + Drift
    <2>1. CASE e \in Created
      <3>1. Author(e)' = Author(e) /\ Pms(e)' = Pms(e)
        BY <2>1, EnvelopeKept DEF Author, Pms
      <3>2. Author(e) \in Device /\ Pms(e) <= Clock(Author(e)) + Drift /\ Pms(e) \in Nat
        BY <2>1, RowValues DEF InTime, Created
      <3>3. PICK a \in Device : a = Author(e)
        BY <3>2
      <3>4. Clock(Author(e))' = Clock(a)'
        BY <3>1, <3>3 DEF Clock
      <3> QED  BY <1>1, <3>1, <3>2, <3>3, <3>4, ClockAssumption
    <2>2. CASE e \notin Created
      <3>1. PICK d \in Device : AppendEvent(d)
        BY <2>2, EnvelopeChanges DEF Created
      <3>2. envelope'[e] = [author |-> d, pms |-> Larger(Clock(d), frontier[d])]
        <4>1. PICK f \in Event \ Created :
                /\ envelope' = [envelope EXCEPT ![f] = [author |-> d, pms |-> Larger(Clock(d), frontier[d])]]
                /\ Created' = Created \cup {f}
          BY <3>1, AppendCreates
        <4>2. e = f
          BY <2>2, <4>1
        <4> QED  BY <4>1, <4>2 DEF TypeOK
      <3>3. Author(e)' = d /\ Pms(e)' = Larger(Clock(d), frontier[d])
        BY <3>2 DEF Author, Pms
      <3>4. now' = now
        BY <3>1 DEF AppendEvent
      <3>5. Clock(Author(e))' = Clock(d)
        BY <3>3, <3>4 DEF Clock
      <3>6. Clock(d) \in Int /\ frontier[d] \in Nat /\ frontier[d] <= Clock(d) + Drift /\ Drift \in Nat
        BY <1>1, ClockAssumption DEF TypeOK, InTime
      <3> QED  BY <3>3, <3>5, <3>6 DEF Larger
    <2> QED  BY <2>1, <2>2
  <1> QED  BY <1>2, <1>3 DEF InTime

----------------------------------------------------------------------------
\* No position, cursor or page lies beyond the server's head.

WithinHead ==
    /\ \A e \in Event : serverSeq[e] <= head
    /\ \A d \in Device : cursor[d] <= head
    /\ \A d \in Device, q \in Drain : pull[d][q].at <= head /\ pull[d][q].next <= head

\* a commit accepts only what is new, puts it beyond the old head and up to
\* the new one, and moves nothing
LEMMA CommitPlaces ==
    ASSUME TypeOK, NEW r, r.batch \in SUBSET Event, NEW held, NEW barred,
           Commit(r, JudgeBatch(r, held, barred))
    PROVE  /\ head <= head'
           /\ \A e \in Stored : serverSeq'[e] = serverSeq[e]
           /\ \A e \in Event \ Stored :
                serverSeq'[e] = serverSeq[e] \/ (serverSeq'[e] > head /\ serverSeq'[e] <= head')
PROOF
  <1> DEFINE v == JudgeBatch(r, held, barred)
             fresh == {e \in r.batch : v[e] = "accepted"}
  <1>1. fresh \cap Stored = {}
    BY DEF JudgeBatch, VerdictOf
  <1>2. fresh \in SUBSET Event
    OBVIOUS
  <1>3. /\ \A e \in Event : serverSeq'[e] = IF e \in fresh THEN Place(e, fresh) ELSE serverSeq[e]
        /\ head' = head + Cardinality(fresh)
    BY DEF Commit
  <1> HIDE DEF v, fresh
  <1>4. head \in Nat /\ Cardinality(fresh) \in Nat
    BY <1>2, CountType DEF TypeOK
  <1>5. ASSUME NEW e \in fresh
        PROVE  Place(e, fresh) > head /\ Place(e, fresh) <= head + Cardinality(fresh)
    <2> DEFINE prior == {f \in fresh : Before(f, e)}
    <2>1. ~Before(e, e)
      <3>1. e \in Event
        BY <1>2
      <3>2. e \in Int
        BY <3>1, CountsAssumption DEF Event
      <3>3. Pms(e) \in Nat
        BY <3>1 DEF TypeOK, Pms, Envelope, NoEvent
      <3> QED  BY <3>2, <3>3 DEF Before
    <2>2. prior \in SUBSET fresh /\ prior # fresh
      BY <2>1
    <2>3. Place(e, fresh) = head + 1 + Cardinality(prior)
      BY DEF Place
    <2> HIDE DEF prior
    <2>4. Cardinality(prior) \in Nat /\ Cardinality(prior) < Cardinality(fresh)
      BY <1>2, <2>2, PartSmaller
    <2> QED  BY <1>4, <2>3, <2>4
  <1>6. \A e \in Stored : e \in Event
    BY DEF Stored
  <1> QED  BY <1>1, <1>3, <1>4, <1>5, <1>6

\* the same of a step
LEMMA ServerPlaces ==
    ASSUME TypeOK, [Next]_vars
    PROVE  /\ head <= head'
           /\ \A e \in Stored : serverSeq'[e] = serverSeq[e]
           /\ \A e \in Event \ Stored :
                serverSeq'[e] = serverSeq[e] \/ (serverSeq'[e] > head /\ serverSeq'[e] <= head')
PROOF
  <1> DEFINE G == /\ head <= head'
                  /\ \A e \in Stored : serverSeq'[e] = serverSeq[e]
                  /\ \A e \in Event \ Stored :
                       serverSeq'[e] = serverSeq[e] \/ (serverSeq'[e] > head /\ serverSeq'[e] <= head')
  <1>1. CASE UNCHANGED serverVars
    BY <1>1 DEF serverVars, TypeOK
  <1>2. ASSUME NEW d \in Device, NEW s \in Slot, ServerPush(d, s) PROVE G
    <2>1. PICK held, barred : Commit(push[d][s], JudgeBatch(push[d][s], held, barred))
      BY <1>2 DEF ServerPush
    <2>2. push[d][s].batch \in SUBSET Event
      BY DEF TypeOK, PushRecord
    <2> HIDE DEF G
    <2>3. G
      BY <2>1, <2>2, CommitPlaces DEF G
    <2> QED  BY <2>3
  <1>3. CASE ServerPushStray
    <2>1. PICK r \in stray : \E held, barred : Commit(r, JudgeBatch(r, held, barred))
      BY <1>3 DEF ServerPushStray
    <2>2. r.batch \in SUBSET Event
      BY DEF TypeOK, StrayRecord
    <2> QED  BY <2>1, <2>2, CommitPlaces
  <1> HIDE DEF G
  <1>4. G
    BY <1>1, <1>2, <1>3, ServerChanges DEF G
  <1> QED  BY <1>4 DEF G

\* Positions, cursors and pages stay within the log.
LEMMA NextWithinHead == TypeOK /\ WithinHead /\ [Next]_vars => WithinHead'
PROOF
  <1> SUFFICES ASSUME TypeOK, WithinHead, [Next]_vars PROVE WithinHead'
    OBVIOUS
  <1>1. head \in Nat /\ head' \in Nat /\ head <= head' /\ serverSeq' \in [Event -> Nat]
    BY ServerPlaces, NextType DEF TypeOK
  <1>2. ASSUME NEW e \in Event PROVE serverSeq'[e] <= head'
    <2>1. serverSeq[e] \in Nat /\ serverSeq[e] <= head /\ serverSeq'[e] \in Nat
      BY <1>1 DEF TypeOK, WithinHead
    <2> QED  BY <1>1, <2>1, ServerPlaces
  <1>3. ASSUME NEW c \in Device PROVE cursor'[c] <= head'
    <2>0. cursor \in [Device -> Nat] /\ cursor[c] \in Nat /\ cursor[c] <= head
      BY DEF TypeOK, WithinHead
    <2>1. LocalReset(c) => cursor'[c] = 0
      BY <2>0 DEF LocalReset
    <2>2. ASSUME NEW q \in Drain, AdvanceCursor(c, q)
          PROVE  cursor'[c] \in {cursor[c], pull[c][q].next}
      BY <2>0, <2>2 DEF AdvanceCursor, NewCursor
    <2>3. \A q \in Drain : pull[c][q].next \in Nat /\ pull[c][q].next <= head
      BY DEF TypeOK, PullRecord, WithinHead
    <2> QED  BY <1>1, <2>0, <2>1, <2>2, <2>3, CursorChanges
  <1>4. ASSUME NEW c \in Device, NEW x \in Drain
        PROVE  pull'[c][x].at <= head' /\ pull'[c][x].next <= head'
    <2> DEFINE p == pull[c][x]
    <2>0. /\ p \in PullRecord /\ p.at \in Nat /\ p.next \in Nat /\ p.at <= head /\ p.next <= head
          /\ pull \in [Device -> [Drain -> PullRecord]]
          /\ cursor[c] \in Nat /\ cursor[c] <= head
      BY DEF TypeOK, PullRecord, WithinHead
    <2>1. IdlePull.at = 0 /\ IdlePull.next = 0
          /\ \A n \in Nat : [IdlePull EXCEPT !.phase = "open", !.at = n].at = n
                         /\ [IdlePull EXCEPT !.phase = "open", !.at = n].next = 0
      BY DEF IdlePull
    <2>2. OpenDrain(c, x) => pull'[c][x].at = cursor[c] /\ pull'[c][x].next = 0
      BY <2>0, <2>1 DEF OpenDrain
    <2>3. ASSUME FetchPage(c, x)
          PROVE  pull'[c][x].at = p.at /\ pull'[c][x].next \in Nat /\ pull'[c][x].next <= head
      <3> DEFINE rows == PageAfter(p.at)
      <3>1. rows \in SUBSET Event
        BY DEF PageAfter, After, Stored
      <3>2. pull'[c][x].at = p.at /\ pull'[c][x].next = PageEnd(rows)
        BY <2>0, <2>3 DEF FetchPage
      <3> HIDE DEF rows
      <3>3. PageEnd(rows) \in Nat /\ PageEnd(rows) <= head
        BY <1>1, <3>1, PageEndBounds DEF WithinHead
      <3> QED  BY <3>2, <3>3
    <2>4. IngestRow(c, x) => pull'[c][x].at = p.at /\ pull'[c][x].next = p.next
      BY <2>0 DEF IngestRow
    <2>5. AdvanceCursor(c, x) => pull'[c][x].at \in {0, p.next} /\ pull'[c][x].next = 0
      BY <2>0, <2>1 DEF AdvanceCursor
    <2> HIDE DEF p
    <2>6. pull'[c][x] = pull[c][x] => pull'[c][x].at = p.at /\ pull'[c][x].next = p.next
      BY DEF p
    <2> QED  BY <1>1, <2>0, <2>1, <2>2, <2>3, <2>4, <2>5, <2>6, PullChanges
  <1> QED  BY <1>2, <1>3, <1>4 DEF WithinHead

\* what is new at the server lies beyond the old head
LEMMA NewBeyondHead ==
    ASSUME TypeOK, [Next]_vars, NEW e \in Stored', e \notin Stored
    PROVE  serverSeq'[e] \in Nat /\ serverSeq'[e] > head
PROOF
  <1>1. e \in Event /\ serverSeq'[e] # 0
    BY DEF Stored
  <1>2. serverSeq[e] = 0
    BY <1>1 DEF Stored
  <1>3. serverSeq'[e] \in Nat
    BY <1>1, NextType DEF TypeOK
  <1> QED  BY <1>1, <1>2, <1>3, ServerPlaces DEF Stored

\* The log is empty at the start.
LEMMA InitWithinHead == Init => WithinHead
  BY DEF Init, WithinHead, IdlePull

(* The server appends beyond every cursor and every page in hand, on every  *)
(* device: no event is ever committed where a replica has read already      *)
(* (service.go, the server_seq allotted under the vault row's lock).        *)
THEOREM AppendsBeyondCursors == Spec => CommitsBeyondCursors
PROOF
  <1> DEFINE Step == \A e \in Stored' \ Stored, d \in Device :
                       /\ serverSeq'[e] > cursor[d]
                       /\ \A q \in Drain : serverSeq'[e] > pull[d][q].next
  <1>1. TypeOK /\ WithinHead /\ [Next]_vars => [Step]_vars
    <2> SUFFICES ASSUME TypeOK, WithinHead, [Next]_vars, NEW e \in Stored', e \notin Stored,
                        NEW d \in Device
                 PROVE  serverSeq'[e] > cursor[d] /\ \A q \in Drain : serverSeq'[e] > pull[d][q].next
      OBVIOUS
    <2>1. serverSeq'[e] \in Nat /\ serverSeq'[e] > head
      BY NewBeyondHead
    <2>2. head \in Nat /\ cursor[d] \in Nat /\ cursor[d] <= head
      BY DEF TypeOK, WithinHead
    <2>3. \A q \in Drain : pull[d][q].next \in Nat /\ pull[d][q].next <= head
      BY DEF TypeOK, PullRecord, WithinHead
    <2> QED  BY <2>1, <2>2, <2>3
  <1> QED
    BY <1>1, InitWithinHead, NextWithinHead, TypeCorrect, PTL DEF Spec, CommitsBeyondCursors

----------------------------------------------------------------------------
\* Whatever a cursor has passed is on disk.

\* of the events up to position n that a replica may ingest, none is missing
\* from its log but those in rows
Reached(d, n, rows) ==
    \A e \in Stored : serverSeq[e] <= n /\ Tolerated(Author(e), d) => e \in log[d] \cup rows

\* every drain keeps that promise for where it started and for where it will
\* move the cursor
DrainsSound ==
    \A d \in Device, q \in Drain :
        LET p == pull[d][q] IN
        /\ Reached(d, p.at, {})
        /\ Reached(d, p.next, p.rows)
        /\ p.phase = "done" => p.rows = {}

CursorInv == AckInv /\ Known /\ InTime /\ WithinHead /\ CursorComplete /\ DrainsSound

\* CursorComplete in the form the drains' invariant uses.
LEMMA CompleteIsReached == CursorComplete <=> \A d \in Device : Reached(d, cursor[d], {})
  BY DEF CursorComplete, Reached

\* nothing has been reached at position 0
LEMMA ReachedNothing ==
    ASSUME TypeOK, NEW d, NEW rows
    PROVE  Reached(d, 0, rows)
PROOF
  <1>1. \A e \in Stored : serverSeq[e] \in Nat /\ serverSeq[e] # 0
    BY DEF Stored, TypeOK
  <1> QED  BY <1>1 DEF Reached

\* what is reached, up to today's position n, in the next state
ReachedNext(d, n, rows) ==
    \A e \in Stored' : serverSeq'[e] <= n /\ Tolerated(Author(e), d)' => e \in log'[d] \cup rows

\* as long as a replica drops no row, a step keeps what was reached: events
\* already there do not move and new ones come beyond the head
LEMMA ReachedStays ==
    ASSUME TypeOK, Known, WithinHead, [Next]_vars, NEW d \in Device,
           NEW n \in Nat, n <= head, NEW rows, Reached(d, n, rows),
           log[d] \subseteq log'[d]
    PROVE  ReachedNext(d, n, rows)
PROOF
  <1> SUFFICES ASSUME NEW e \in Stored', serverSeq'[e] <= n, Tolerated(Author(e), d)'
               PROVE  e \in log'[d] \cup rows
    BY DEF ReachedNext
  <1>1. e \in Stored
    <2>1. head \in Nat
      BY DEF TypeOK
    <2> QED  BY <2>1, NewBeyondHead
  <1>2. serverSeq'[e] = serverSeq[e]
    BY <1>1, ServerPlaces
  <1>3. Author(e)' = Author(e)
    BY <1>1, EnvelopeKept DEF Known, Author
  <1>4. Tolerated(Author(e), d)
    BY <1>3 DEF Tolerated
  <1> QED  BY <1>1, <1>2, <1>4 DEF Reached

\* a page is the first events after a position: with it, all up to its end are reached
LEMMA PageReaches ==
    ASSUME TypeOK, NEW d \in Device, NEW n \in Nat, Reached(d, n, {})
    PROVE  Reached(d, PageEnd(PageAfter(n)), PageAfter(n))
PROOF
  <1> DEFINE rows == PageAfter(n)
  <1>1. After(n) \in SUBSET Event /\ rows \in SUBSET Event /\ rows \subseteq After(n)
    BY DEF PageAfter, After, Stored
  <1>2. \A e \in Event : serverSeq[e] \in Nat
    BY DEF TypeOK
  <1> SUFFICES ASSUME NEW e \in Stored, serverSeq[e] <= PageEnd(rows), Tolerated(Author(e), d)
               PROVE  e \in log[d] \cup rows
    BY DEF Reached
  <1>3. e \in Event /\ serverSeq[e] # 0
    BY DEF Stored
  <1>4. CASE serverSeq[e] <= n
    BY <1>4 DEF Reached
  <1>5. CASE ~(serverSeq[e] <= n)
    <2>1. e \in After(n)
      BY <1>2, <1>3, <1>5 DEF After
    <2>2. PageEnd(rows) # 0
      BY <1>2, <1>3
    <2>3. PICK g \in rows : PageEnd(rows) = serverSeq[g]
      <3> HIDE DEF rows
      <3> QED  BY <1>1, <2>2, PageEndBounds
    <2> DEFINE Below(x) == {f \in After(n) : serverSeq[f] < serverSeq[x]}
    <2>4. Cardinality(Below(g)) < PageSize
      BY <2>3 DEF PageAfter
    <2>5. Below(e) \in SUBSET Below(g) /\ Below(g) \in SUBSET Event
      BY <1>1, <1>2, <1>3, <2>3
    <2>6. Cardinality(Below(e)) < PageSize
      <3>1. /\ Cardinality(Below(e)) \in Nat /\ Cardinality(Below(g)) \in Nat
            /\ Cardinality(Below(e)) <= Cardinality(Below(g))
        <4> HIDE DEF Below
        <4> QED  BY <2>5, PartSmaller
      <3>2. PageSize \in Nat
        BY CountsAssumption
      <3> HIDE DEF Below
      <3> QED  BY <2>4, <3>1, <3>2
    <2>7. e \in rows
      BY <2>1, <2>6 DEF PageAfter
    <2> QED  BY <2>7
  <1> QED  BY <1>4, <1>5

\* a replica takes in every event of an author whose clock it tolerates
LEMMA ToleratedAdmissible ==
    ASSUME TypeOK, InTime, NEW d \in Device, NEW e \in Created, Tolerated(Author(e), d)
    PROVE  Admissible(d, e)
PROOF
  <1>1. Author(e) \in Device /\ Pms(e) <= Clock(Author(e)) + Drift
    BY DEF InTime
  <1>2. e \in Event
    BY DEF Created
  <1>3. PICK a \in Device : a = Author(e)
    BY <1>1
  <1>4. /\ Pms(e) \in Nat /\ now \in Nat /\ Skew[a] \in Nat /\ Skew[d] \in Nat
        /\ Drift \in Nat /\ IngestCap \in Nat
    BY <1>2, RowValues, ClockAssumption DEF TypeOK
  <1>5. Skew[a] + Drift <= Skew[d] + IngestCap /\ Pms(e) <= now + Skew[a] + Drift
    BY <1>1, <1>3 DEF Tolerated, Clock
  <1> QED  BY <1>4, <1>5 DEF Admissible, Clock

\* the steps of a drain and of the cursor, for a replica that keeps its rows
LEMMA CursorStays ==
    ASSUME TypeOK, CursorInv, [Next]_vars, NEW c \in Device, log[c] \subseteq log'[c],
           ~LocalReset(c)
    PROVE  ReachedNext(c, cursor'[c], {})
PROOF
  <1>1. cursor \in [Device -> Nat] /\ cursor[c] \in Nat /\ cursor[c] <= head /\ Reached(c, cursor[c], {})
    BY CompleteIsReached DEF TypeOK, CursorInv, WithinHead
  <1>2. ReachedNext(c, cursor[c], {})
    BY <1>1, ReachedStays DEF CursorInv
  <1>3. ASSUME NEW q \in Drain, AdvanceCursor(c, q) PROVE ReachedNext(c, cursor'[c], {})
    <2> DEFINE n == pull[c][q].next
    <2>1. n \in Nat /\ n <= head
      BY DEF TypeOK, PullRecord, CursorInv, WithinHead
    <2>2. pull[c][q].rows = {} /\ Reached(c, n, pull[c][q].rows)
      BY <1>3 DEF AdvanceCursor, CursorInv, DrainsSound
    <2>3. cursor'[c] = n \/ cursor'[c] = cursor[c]
      BY <1>1, <1>3 DEF AdvanceCursor, NewCursor
    <2> HIDE DEF n
    <2>4. ReachedNext(c, n, {})
      BY <2>1, <2>2, ReachedStays DEF CursorInv
    <2> QED  BY <1>2, <2>3, <2>4
  <1> QED  BY <1>2, <1>3, CursorChanges

\* A step of another actor leaves a drain's promise true.
LEMMA DrainStays ==
    ASSUME TypeOK, CursorInv, [Next]_vars, NEW c \in Device, NEW x \in Drain,
           log[c] \subseteq log'[c]
    PROVE  /\ ReachedNext(c, pull'[c][x].at, {})
           /\ ReachedNext(c, pull'[c][x].next, pull'[c][x].rows)
           /\ pull'[c][x].phase = "done" => pull'[c][x].rows = {}
PROOF
  <1> DEFINE p == pull[c][x]
             z == pull'[c][x]
             G == /\ ReachedNext(c, z.at, {}) /\ ReachedNext(c, z.next, z.rows)
                  /\ z.phase = "done" => z.rows = {}
  <1>1. /\ pull \in [Device -> [Drain -> PullRecord]] /\ p \in PullRecord
        /\ p.at \in Nat /\ p.next \in Nat /\ p.at <= head /\ p.next <= head
        /\ cursor[c] \in Nat /\ cursor[c] <= head
    BY DEF TypeOK, PullRecord, CursorInv, WithinHead
  <1>2. /\ Reached(c, p.at, {}) /\ Reached(c, p.next, p.rows) /\ Reached(c, cursor[c], {})
        /\ p.phase = "done" => p.rows = {}
    BY CompleteIsReached DEF CursorInv, DrainsSound
  <1>3. ReachedNext(c, p.at, {}) /\ ReachedNext(c, p.next, p.rows) /\ ReachedNext(c, cursor[c], {})
    <2> HIDE DEF p
    <2> QED  BY <1>1, <1>2, ReachedStays DEF CursorInv
  <1>4. ReachedNext(c, 0, {})
    <2>1. \A e \in Stored' : serverSeq'[e] \in Nat /\ serverSeq'[e] # 0
      BY NextType DEF Stored, TypeOK
    <2> QED  BY <2>1 DEF ReachedNext
  <1>5. IdlePull.at = 0 /\ IdlePull.next = 0 /\ IdlePull.rows = {} /\ IdlePull.phase = "idle"
    BY DEF IdlePull
  <1>6. \A n \in Nat : LET o == [IdlePull EXCEPT !.phase = "open", !.at = n]
                      IN  o.at = n /\ o.next = 0 /\ o.rows = {} /\ o.phase = "open"
    BY DEF IdlePull
  <1>7. CASE z = p
    BY <1>2, <1>3, <1>7
  <1>8. CASE z = IdlePull
    BY <1>4, <1>5, <1>8
  <1>9. ASSUME OpenDrain(c, x) PROVE G
    <2>1. z = [IdlePull EXCEPT !.phase = "open", !.at = cursor[c]]
      BY <1>1, <1>9 DEF OpenDrain
    <2>2. z.at = cursor[c] /\ z.next = 0 /\ z.rows = {} /\ z.phase = "open"
      BY <1>1, <1>6, <2>1
    <2> QED  BY <1>3, <1>4, <2>2
  <1>10. ASSUME FetchPage(c, x) PROVE G
    <2> DEFINE rows == PageAfter(p.at)
    <2>1. z.at = p.at /\ z.next = PageEnd(rows) /\ z.rows = rows /\ z.phase = "page"
      BY <1>1, <1>10 DEF FetchPage
    <2>2. Reached(c, PageEnd(rows), rows)
      BY <1>1, <1>2, PageReaches
    <2>3. PageEnd(rows) \in Nat /\ PageEnd(rows) <= head
      <3>1. rows \in SUBSET Event
        BY DEF PageAfter, After, Stored
      <3>2. head \in Nat
        BY DEF TypeOK
      <3> HIDE DEF rows
      <3> QED  BY <3>1, <3>2, PageEndBounds DEF CursorInv, WithinHead
    <2>4. ReachedNext(c, PageEnd(rows), rows)
      <3> HIDE DEF rows
      <3> QED  BY <2>2, <2>3, ReachedStays DEF CursorInv
    <2> QED  BY <1>3, <2>1, <2>4
  <1>11. ASSUME IngestRow(c, x) PROVE G
    <2>1. PICK e \in p.rows :
            /\ log' = [log EXCEPT ![c] = IF Admissible(c, e) THEN @ \cup {e} ELSE @]
            /\ pull' = [pull EXCEPT ![c][x] =
                  [phase |-> IF p.rows = {e} THEN "done" ELSE "ingest", at |-> p.at,
                   next |-> p.next, more |-> p.more, rows |-> p.rows \ {e}, seq |-> p.seq]]
            /\ envelope' = envelope
      BY <1>11 DEF IngestRow
    <2>2. /\ z.at = p.at /\ z.next = p.next /\ z.rows = p.rows \ {e}
          /\ z.phase = "done" => p.rows = {e}
      BY <1>1, <2>1
    <2>3. e \in Created
      BY DEF CursorInv, AckInv, PagesHold, Known
    <2>4. Tolerated(Author(e), c)' => e \in log'[c]
      <3>1. Author(e)' = Author(e)
        BY <2>1 DEF Author
      <3>2. Tolerated(Author(e), c)' => Tolerated(Author(e), c)
        BY <3>1 DEF Tolerated
      <3>3. Tolerated(Author(e), c) => Admissible(c, e)
        BY <2>3, ToleratedAdmissible DEF CursorInv
      <3>4. Admissible(c, e) => e \in log'[c]
        BY <2>1 DEF TypeOK
      <3> QED  BY <3>2, <3>3, <3>4
    <2>5. ReachedNext(c, p.next, p.rows \ {e})
      <3> SUFFICES ASSUME NEW f \in Stored', serverSeq'[f] <= p.next, Tolerated(Author(f), c)'
                   PROVE  f \in log'[c] \cup (p.rows \ {e})
        BY DEF ReachedNext
      <3>1. f \in log'[c] \cup p.rows
        BY <1>3 DEF ReachedNext
      <3> QED  BY <2>4, <3>1
    <2> QED  BY <1>3, <2>2, <2>5
  <1>12. ASSUME AdvanceCursor(c, x) PROVE G
    <2>1. p.rows = {}
      BY <1>2, <1>12 DEF AdvanceCursor
    <2>2. z = IdlePull \/ z = [IdlePull EXCEPT !.phase = "open", !.at = p.next]
      BY <1>1, <1>12 DEF AdvanceCursor
    <2>3. z.at \in {0, p.next} /\ z.next = 0 /\ z.rows = {}
      <3> DEFINE o == [IdlePull EXCEPT !.phase = "open", !.at = p.next]
      <3>1. o.at = p.next /\ o.next = 0 /\ o.rows = {}
        BY <1>1, <1>6
      <3> HIDE DEF o
      <3>2. z = IdlePull \/ z = o
        BY <2>2 DEF o
      <3> QED  BY <1>5, <3>1, <3>2
    <2> QED  BY <1>3, <1>4, <2>1, <2>3
  <1>13. G
    <2> HIDE DEF G
    <2>1. z = p => G
      BY <1>7 DEF G
    <2>2. z = IdlePull => G
      BY <1>8 DEF G
    <2> QED  BY <2>1, <2>2, <1>9, <1>10, <1>11, <1>12, PullChanges
  <1> QED  BY <1>13

\* Every step keeps every drain's promise.
LEMMA NextCursorInv == TypeOK /\ CursorInv /\ [Next]_vars => CursorInv'
PROOF
  <1> SUFFICES ASSUME TypeOK, CursorInv, [Next]_vars PROVE CursorInv'
    OBVIOUS
  <1>1. AckInv' /\ Known' /\ InTime' /\ WithinHead'
    BY NextAcked, NextKnown, NextInTime, NextWithinHead DEF CursorInv
  <1>2. ASSUME NEW c \in Device
        PROVE  /\ ReachedNext(c, cursor'[c], {})
               /\ \A x \in Drain : /\ ReachedNext(c, pull'[c][x].at, {})
                                   /\ ReachedNext(c, pull'[c][x].next, pull'[c][x].rows)
                                   /\ pull'[c][x].phase = "done" => pull'[c][x].rows = {}
    <2>1. CASE LocalReset(c)
      <3>1. cursor'[c] = 0 /\ \A x \in Drain : pull'[c][x] = IdlePull
        BY <2>1 DEF LocalReset, TypeOK
      <3>2. \A rows : ReachedNext(c, 0, rows)
        <4>1. \A e \in Stored' : serverSeq'[e] \in Nat /\ serverSeq'[e] # 0
          BY NextType DEF Stored, TypeOK
        <4> QED  BY <4>1 DEF ReachedNext
      <3>3. IdlePull.at = 0 /\ IdlePull.next = 0 /\ IdlePull.rows = {}
        BY DEF IdlePull
      <3> QED  BY <3>1, <3>2, <3>3
    <2>2. CASE ~LocalReset(c)
      <3>1. log[c] \subseteq log'[c]
        BY <2>2, RowsStay
      <3> QED  BY <2>2, <3>1, CursorStays, DrainStays
    <2> QED  BY <2>1, <2>2
  <1>3. CursorComplete'
    BY <1>2 DEF CursorComplete, ReachedNext
  <1>4. DrainsSound'
    BY <1>2 DEF DrainsSound, Reached, ReachedNext
  <1> QED  BY <1>1, <1>3, <1>4 DEF CursorInv

\* At the start nothing is promised.
LEMMA InitCursorInv == Init => CursorInv
PROOF
  <1> SUFFICES ASSUME Init PROVE CursorInv
    OBVIOUS
  <1>1. Stored = {} /\ Created = {}
    BY DEF Init, Stored, Created
  <1>2. AckInv /\ WithinHead
    BY InitAcked, InitWithinHead
  <1>3. Known
    BY <1>1 DEF Init, Known, IdlePush
  <1>4. InTime
    BY <1>1, ClockAssumption DEF Init, InTime, Clock
  <1>5. CursorComplete
    BY <1>1 DEF CursorComplete
  <1>6. DrainsSound
    BY <1>1 DEF Init, DrainsSound, Reached, IdlePull
  <1> QED  BY <1>2, <1>3, <1>4, <1>5, <1>6 DEF CursorInv

(* "The cursor can never skip an event that isn't on disk" (pull.ts), with  *)
(* overlapping drains that overwrite each other's cursor, pages cut short   *)
(* by a crash and events that commit while a page is being read: true of    *)
(* every author whose clock the replica's ingest cap tolerates.             *)
THEOREM CursorSkipsNothing == Spec => []CursorComplete
PROOF
  <1>1. Spec => []CursorInv
    BY InitCursorInv, NextCursorInv, TypeCorrect, PTL DEF Spec
  <1>2. CursorInv => CursorComplete
    BY DEF CursorInv
  <1> QED  BY <1>1, <1>2, PTL

----------------------------------------------------------------------------
\* The places a commit hands out.

(* Before is a strict total order on events.                                *)
LEMMA BeforeOrders ==
    ASSUME TypeOK, NEW e \in Event, NEW f \in Event, NEW g \in Event
    PROVE  /\ ~Before(e, e)
           /\ e # f => Before(e, f) \/ Before(f, e)
           /\ Before(e, f) /\ Before(f, g) => Before(e, g)
PROOF
  <1>1. e \in Int /\ f \in Int /\ g \in Int
    BY CountsAssumption DEF Event
  <1>2. Pms(e) \in Nat /\ Pms(f) \in Nat /\ Pms(g) \in Nat
    BY DEF TypeOK, Pms, Envelope, NoEvent
  <1> QED  BY <1>1, <1>2 DEF Before

(* A commit's fresh events get the places behind the head, each one its own *)
(* and none left free: a rank that is injective into as many is onto.       *)
LEMMA PlacesFill ==
    ASSUME TypeOK, NEW fresh \in SUBSET Event
    PROVE  /\ \A e, f \in fresh : e # f => Place(e, fresh) # Place(f, fresh)
           /\ \A n \in head + 1 .. head + Cardinality(fresh) :
                \E e \in fresh : Place(e, fresh) = n
PROOF
  <1> DEFINE prior(e) == {f \in fresh : Before(f, e)}
             k == Cardinality(fresh)
             rank == [e \in fresh |-> Cardinality(prior(e)) + 1]
  <1>0. /\ head \in Nat /\ k \in Nat /\ IsFiniteSet(fresh)
        /\ \A e \in fresh : e \in Event
        /\ \A e \in fresh : Cardinality(prior(e)) \in Nat
    <2>1. \A e \in fresh : prior(e) \in SUBSET Event
      OBVIOUS
    <2> QED  BY <2>1, CountType, EventFinite DEF TypeOK
  <1>1. ASSUME NEW e \in fresh PROVE Cardinality(prior(e)) < k
    <2>1. prior(e) \in SUBSET fresh /\ prior(e) # fresh
      BY <1>0, BeforeOrders
    <2> HIDE DEF prior
    <2> QED  BY <2>1, PartSmaller
  <1>2. ASSUME NEW e \in fresh, NEW f \in fresh, Before(e, f)
        PROVE  Cardinality(prior(e)) < Cardinality(prior(f))
    <2>1. prior(e) \in SUBSET prior(f) /\ prior(e) # prior(f) /\ prior(f) \in SUBSET Event
      <3>1. ASSUME NEW d \in prior(e) PROVE d \in prior(f)
        BY <1>0, <1>2, BeforeOrders
      <3>2. e \in prior(f) /\ e \notin prior(e)
        BY <1>0, <1>2, BeforeOrders
      <3>3. prior(f) \in SUBSET Event
        OBVIOUS
      <3> HIDE DEF prior
      <3> QED  BY <3>1, <3>2, <3>3
    <2> HIDE DEF prior
    <2> QED  BY <2>1, PartSmaller
  <1>3. ASSUME NEW e \in fresh, NEW f \in fresh, e # f
        PROVE  Cardinality(prior(e)) # Cardinality(prior(f))
    <2>1. Before(e, f) \/ Before(f, e)
      BY <1>0, <1>3, BeforeOrders
    <2> HIDE DEF prior
    <2> QED  BY <1>0, <1>2, <2>1
  <1>4. \A e \in fresh : Place(e, fresh) = head + 1 + Cardinality(prior(e))
    BY DEF Place
  <1>5. rank \in Surjection(fresh, 1..k)
    <2>1. rank \in Injection(fresh, 1..k)
      <3>1. rank \in [fresh -> 1..k]
        <4> HIDE DEF prior, k
        <4> QED  BY <1>0, <1>1
      <3>2. \A e, f \in fresh : rank[e] = rank[f] => e = f
        <4> HIDE DEF prior, k
        <4> QED  BY <1>0, <1>3
      <3> HIDE DEF rank
      <3> QED  BY <3>1, <3>2 DEF Injection, IsInjective
    <2>2. IsFiniteSet(1..k) /\ Cardinality(1..k) = k
      BY <1>0, FS_Interval
    <2> HIDE DEF rank
    <2> QED  BY <1>0, <2>1, <2>2, FS_Injection DEF k
  <1>6. ASSUME NEW n \in head + 1 .. head + k
        PROVE  \E e \in fresh : Place(e, fresh) = n
    <2>1. n - head \in 1..k
      BY <1>0
    <2>2. PICK e \in fresh : rank[e] = n - head
      <3> HIDE DEF rank, k
      <3> QED  BY <1>5, <2>1 DEF Surjection
    <2> HIDE DEF prior, k
    <2>3. Cardinality(prior(e)) + 1 = n - head
      BY <2>2
    <2> QED  BY <1>0, <1>4, <2>3
  <1> HIDE DEF prior, rank
  <1> QED  BY <1>0, <1>3, <1>4, <1>6

----------------------------------------------------------------------------
\* One history.

Chained ==
    /\ \A e, f \in Stored : e # f => serverSeq[e] # serverSeq[f]
    /\ \A n \in 1..head : \E e \in Stored : serverSeq[e] = n

\* A commit extends the history without a gap.
LEMMA CommitChains ==
    ASSUME TypeOK, WithinHead, Chained, NEW r, r.batch \in SUBSET Event, NEW held, NEW barred,
           Commit(r, JudgeBatch(r, held, barred))
    PROVE  Chained'
PROOF
  <1> DEFINE v == JudgeBatch(r, held, barred)
             fresh == {e \in r.batch : v[e] = "accepted"}
  <1>1. fresh \cap Stored = {}
    BY DEF JudgeBatch, VerdictOf
  <1>2. fresh \in SUBSET Event
    OBVIOUS
  <1>3. /\ \A e \in Event : serverSeq'[e] = IF e \in fresh THEN Place(e, fresh) ELSE serverSeq[e]
        /\ head' = head + Cardinality(fresh)
    BY DEF Commit
  <1>4. Stored' = Stored \cup fresh
    BY CommitStores
  <1> HIDE DEF v, fresh
  <1>5. head \in Nat /\ Cardinality(fresh) \in Nat
    BY <1>2, CountType DEF TypeOK
  <1>6. \A e \in Stored : serverSeq'[e] = serverSeq[e] /\ serverSeq[e] \in Nat /\ serverSeq[e] <= head
    BY <1>1, <1>3 DEF Stored, TypeOK, WithinHead
  <1>7. \A e \in fresh : serverSeq'[e] = Place(e, fresh)
    BY <1>2, <1>3
  <1>8. \A e \in fresh : Place(e, fresh) \in Nat /\ Place(e, fresh) > head
    <2> TAKE e \in fresh
    <2>1. {f \in fresh : Before(f, e)} \in SUBSET Event
      BY <1>2
    <2>2. Cardinality({f \in fresh : Before(f, e)}) \in Nat
      BY <2>1, CountType
    <2> QED  BY <1>5, <2>2 DEF Place
  <1>9. ASSUME NEW e \in Stored', NEW f \in Stored', e # f
        PROVE  serverSeq'[e] # serverSeq'[f]
    <2>1. CASE e \in Stored /\ f \in Stored
      BY <1>6, <1>9, <2>1 DEF Chained
    <2>2. CASE e \in fresh /\ f \in fresh
      BY <1>2, <1>7, <1>9, <2>2, PlacesFill
    <2>3. CASE (e \in Stored /\ f \in fresh) \/ (e \in fresh /\ f \in Stored)
      BY <1>5, <1>6, <1>7, <1>8, <2>3
    <2> QED  BY <1>4, <2>1, <2>2, <2>3
  <1>10. ASSUME NEW n \in 1..head' PROVE \E e \in Stored' : serverSeq'[e] = n
    <2>1. CASE n <= head
      <3>1. n \in 1..head
        BY <1>3, <1>5, <2>1
      <3> QED  BY <1>4, <1>6, <3>1 DEF Chained
    <2>2. CASE n > head
      <3>1. n \in head + 1 .. head + Cardinality(fresh)
        BY <1>3, <1>5, <2>2
      <3> QED  BY <1>2, <1>4, <1>7, <3>1, PlacesFill
    <2> QED  BY <1>3, <1>5, <2>1, <2>2
  <1> QED  BY <1>9, <1>10 DEF Chained

\* The positions of the log have no gap after any step.
LEMMA NextChained == TypeOK /\ WithinHead /\ Chained /\ [Next]_vars => Chained'
PROOF
  <1> SUFFICES ASSUME TypeOK, WithinHead, Chained, [Next]_vars PROVE Chained'
    OBVIOUS
  <1>1. CASE UNCHANGED serverVars
    BY <1>1 DEF serverVars, Stored, Chained
  <1>2. ASSUME NEW d \in Device, NEW s \in Slot, ServerPush(d, s) PROVE Chained'
    <2>1. PICK held, barred : Commit(push[d][s], JudgeBatch(push[d][s], held, barred))
      BY <1>2 DEF ServerPush
    <2>2. push[d][s].batch \in SUBSET Event
      BY DEF TypeOK, PushRecord
    <2> QED  BY <2>1, <2>2, CommitChains
  <1>3. CASE ServerPushStray
    <2>1. PICK r \in stray : \E held, barred : Commit(r, JudgeBatch(r, held, barred))
      BY <1>3 DEF ServerPushStray
    <2>2. r.batch \in SUBSET Event
      BY DEF TypeOK, StrayRecord
    <2> QED  BY <2>1, <2>2, CommitChains
  <1> QED  BY <1>1, <1>2, <1>3, ServerChanges

(* The server's log is one history, without holes and without ties          *)
(* (PushEvents allots MAX(server_seq) + 1 and up under the vault row's lock *)
(* to the fresh events of a batch, in HLC order).                           *)
THEOREM HistoryIsOne == Spec => []OneHistory
PROOF
  <1>1. Init => Chained
    BY DEF Init, Chained, Stored
  <1>2. Spec => [](TypeOK /\ WithinHead)
    BY InitWithinHead, NextWithinHead, TypeCorrect, PTL DEF Spec
  <1>3. Spec => []Chained
    BY <1>1, <1>2, NextChained, PTL DEF Spec
  <1>4. Chained => OneHistory
    BY DEF Chained, OneHistory
  <1> QED  BY <1>3, <1>4, PTL

----------------------------------------------------------------------------
\* No number is used twice.

\* the events of S carry distinct numbers, author by author; 0 is no number
Numbered(S, seq) ==
    \A e, f \in S : e # f /\ Author(e) = Author(f) /\ seq[e] # 0 => seq[e] # seq[f]

\* so do the rows of every replica, those of the server, and the events of
\* every request on its way
NumbersInv ==
    /\ \A d \in Device : Numbered(log[d], authorSeq[d])
    /\ \A d \in Device, s \in Slot : Numbered(push[d][s].batch, push[d][s].seq)
    /\ \A r \in stray : Numbered(r.batch, r.seq)
    /\ Numbered(Stored, slotSeq)

\* a step that leaves a set of known events and their numbers leaves them distinct
LEMMA NumberedStays ==
    ASSUME TypeOK, [Next]_vars, NEW S, S \subseteq Created, NEW seq, Numbered(S, seq)
    PROVE  \A e, f \in S : e # f /\ Author(e)' = Author(f)' /\ seq[e] # 0 => seq[e] # seq[f]
PROOF
  <1>1. \A e \in S : Author(e)' = Author(e)
    BY EnvelopeKept DEF Author
  <1> QED  BY <1>1 DEF Numbered

\* Which steps write a replica's numbers.
LEMMA SeqChanges ==
    ASSUME TypeOK, [Next]_vars, NEW c \in Device
    PROVE  \/ authorSeq'[c] = authorSeq[c] /\ log'[c] = log[c]
           \/ AppendEvent(c) \/ LocalReset(c)
           \/ \E s \in Slot : HandleResponse(c, s)
           \/ \E q \in Drain : IngestRow(c, q)
           \/ \E from \in Device : MeshDeliver(from, c)
PROOF
  <1> DEFINE Same == authorSeq'[c] = authorSeq[c] /\ log'[c] = log[c]
             G == \/ Same \/ AppendEvent(c) \/ LocalReset(c)
                  \/ \E s \in Slot : HandleResponse(c, s)
                  \/ \E q \in Drain : IngestRow(c, q)
                  \/ \E from \in Device : MeshDeliver(from, c)
  <1>1. log \in [Device -> SUBSET Event] /\ authorSeq \in [Device -> [Event -> Nat]]
    BY DEF TypeOK
  <1>2. ASSUME NEW d \in Device, AppendEvent(d) PROVE G
    <2>1. c # d => Same
      BY <1>1, <1>2 DEF AppendEvent
    <2> QED  BY <1>2, <2>1
  <1>3. ASSUME NEW d \in Device, LocalReset(d) PROVE G
    <2>1. c # d => Same
      BY <1>1, <1>3 DEF LocalReset
    <2> QED  BY <1>3, <2>1
  <1>4. ASSUME NEW d \in Device, BackoffElapsed(d) \/ Crash(d) PROVE Same
    BY <1>4 DEF BackoffElapsed, Crash, replicaVars
  <1>5. ASSUME NEW d \in Device, NEW s \in Slot, PushStep(d, s) PROVE G
    <2>1. CASE HandleResponse(d, s)
      <3>1. c # d => Same
        BY <1>1, <2>1 DEF HandleResponse
      <3> QED  BY <2>1, <3>1
    <2>2. CASE ~HandleResponse(d, s)
      BY <1>5, <2>2 DEF PushStep, ReadOutbox, ServerPush, PushTimeout, replicaVars
    <2> QED  BY <2>1, <2>2
  <1>6. ASSUME NEW d \in Device, NEW q \in Drain, PullStep(d, q) PROVE G
    <2>1. CASE IngestRow(d, q)
      <3>1. c # d => Same
        BY <1>1, <2>1 DEF IngestRow
      <3> QED  BY <2>1, <3>1
    <2>2. CASE ~IngestRow(d, q)
      BY <1>6, <2>2 DEF PullStep, OpenDrain, FetchPage, CloseDrain, AdvanceCursor, replicaVars
    <2> QED  BY <2>1, <2>2
  <1>7. ASSUME NEW d \in Device, NEW to \in Device, MeshDeliver(d, to) PROVE G
    <2>1. c # to => Same
      BY <1>1, <1>7 DEF MeshDeliver
    <2> QED  BY <1>7, <2>1
  <1>8. Tick \/ ServerPushStray \/ UNCHANGED vars => Same
    BY DEF Tick, ServerPushStray, vars, replicaVars
  <1> HIDE DEF G
  <1>9. G
    BY <1>2, <1>3, <1>4, <1>5, <1>6, <1>7, <1>8 DEF Next, G
  <1> QED  BY <1>9 DEF G

\* An append writes one row, with a number above all of the author's own.
LEMMA AppendNumbers ==
    ASSUME TypeOK, Known, NEW d \in Device, AppendEvent(d)
    PROVE  \E e \in Event \ Created, n \in Nat :
             /\ log'[d] = log[d] \cup {e} /\ Author(e)' = d
             /\ authorSeq'[d] = [authorSeq[d] EXCEPT ![e] = n]
             /\ n # 0 /\ \A f \in log[d] : Author(f) = d => authorSeq[d][f] < n
PROOF
  <1>1. PICK e \in Event :
          /\ Created = 1..(e - 1)
          /\ envelope' = [envelope EXCEPT ![e] = [author |-> d, pms |-> Larger(Clock(d), frontier[d])]]
          /\ log' = [log EXCEPT ![d] = @ \cup {e}]
          /\ authorSeq' = [authorSeq EXCEPT ![d][e] = NextAuthorSeq(d)]
    BY DEF AppendEvent
  <1>2. e \notin Created
    BY <1>1 DEF Event
  <1>3. log'[d] = log[d] \cup {e} /\ Author(e)' = d
    BY <1>1 DEF TypeOK, Author
  <1>4. PICK n \in Nat : n = NextAuthorSeq(d) /\ \A m \in OwnSeqs(d) : m < n
    BY NextAuthorSeqType
  <1>5. authorSeq'[d] = [authorSeq[d] EXCEPT ![e] = n]
    BY <1>1, <1>4 DEF TypeOK
  <1>6. \A f \in log[d] : Author(f) = d => authorSeq[d][f] < n
    BY <1>4 DEF OwnSeqs
  <1>7. n # 0
    <2>1. Upto(OwnSeqs(d)) \in Nat
      <3>1. authorSeq[d] \in [Event -> Nat] /\ {f \in log[d] : Author(f) = d} \in SUBSET Event
        BY DEF TypeOK
      <3>2. IsFiniteSet(OwnSeqs(d)) /\ OwnSeqs(d) \in SUBSET Nat
        <4> DEFINE own == {f \in log[d] : Author(f) = d}
                   g == authorSeq[d]
        <4>1. OwnSeqs(d) = {g[f] : f \in own}
          BY DEF OwnSeqs
        <4>2. g \in [Event -> Nat] /\ own \in SUBSET Event
          BY <3>1
        <4> HIDE DEF own, g
        <4> QED  BY <4>1, <4>2, ValuesFinite
      <3> QED  BY <3>2, UptoBounds
    <2>2. floor[d] \in Nat
      BY DEF TypeOK
    <2> QED  BY <1>4, <2>1, <2>2 DEF NextAuthorSeq, Larger
  <1> QED  BY <1>2, <1>3, <1>5, <1>6, <1>7

\* the number a row is given is not that of another row of the author
LEMMA ResolvedFree ==
    ASSUME TypeOK, NEW d \in Device, Numbered(log[d], authorSeq[d]), NEW e \in Event, NEW n \in Nat,
           NEW m, m = ResolvedSeq(d, e, n), m # 0,
           NEW f \in log[d], f # e, Author(f) = Author(e)
    PROVE  authorSeq[d][f] # m
PROOF
  <1>1. CASE e \in log[d] /\ authorSeq[d][e] # 0
    BY <1>1 DEF ResolvedSeq, Numbered
  <1>2. CASE ~(e \in log[d] /\ authorSeq[d][e] # 0)
    <2>1. m = n /\ RowAt(d, Author(e), n) \ {e} = {}
      BY <1>2 DEF ResolvedSeq
    <2> QED  BY <2>1 DEF RowAt
  <1> QED  BY <1>1, <1>2

\* A pulled or relayed row is inserted or back-filled with the number resolved
\* for it, or leaves the replica as it is.
LEMMA RowNumbers ==
    ASSUME TypeOK, AckInv, Known, NEW d \in Device,
           (\E q \in Drain : IngestRow(d, q)) \/ (\E from \in Device : MeshDeliver(from, d))
    PROVE  \/ log'[d] = log[d] /\ authorSeq'[d] = authorSeq[d]
           \/ \E e \in Event, n \in Nat :
                /\ e \in Created
                /\ \/ \E q \in Drain : e \in pull[d][q].rows /\ n = pull[d][q].seq[e]
                   \/ \E from \in Device : e \in log[from] /\ n = authorSeq[from][e]
                /\ log'[d] = log[d] \cup {e}
                /\ authorSeq'[d] = [authorSeq[d] EXCEPT ![e] = ResolvedSeq(d, e, n)]
PROOF
  <1>0. log \in [Device -> SUBSET Event] /\ authorSeq \in [Device -> [Event -> Nat]]
    BY DEF TypeOK
  <1>1. ASSUME NEW q \in Drain, IngestRow(d, q)
        PROVE  \/ log'[d] = log[d] /\ authorSeq'[d] = authorSeq[d]
               \/ \E e \in Event, n \in Nat :
                    /\ e \in Created
                    /\ e \in pull[d][q].rows /\ n = pull[d][q].seq[e]
                    /\ log'[d] = log[d] \cup {e}
                    /\ authorSeq'[d] = [authorSeq[d] EXCEPT ![e] = ResolvedSeq(d, e, n)]
    <2>1. PICK e \in pull[d][q].rows :
            /\ log' = [log EXCEPT ![d] = IF Admissible(d, e) THEN @ \cup {e} ELSE @]
            /\ authorSeq' = [authorSeq EXCEPT ![d][e] =
                               IF e \in log'[d] THEN ResolvedSeq(d, e, pull[d][q].seq[e]) ELSE @]
      BY <1>1 DEF IngestRow
    <2>2. e \in Event /\ pull[d][q].seq[e] \in Nat
      BY DEF TypeOK, PullRecord
    <2>3. e \in Created
      BY DEF AckInv, PagesHold, Known
    <2>4. PICK n \in Nat : n = pull[d][q].seq[e]
      BY <2>2
    <2>5. CASE e \in log'[d]
      <3>1. log'[d] = log[d] \cup {e}
        BY <1>0, <2>1, <2>5
      <3>2. authorSeq'[d] = [authorSeq[d] EXCEPT ![e] = ResolvedSeq(d, e, n)]
        BY <1>0, <2>1, <2>2, <2>4, <2>5
      <3> QED  BY <2>2, <2>3, <2>4, <3>1, <3>2
    <2>6. CASE e \notin log'[d]
      <3>1. log'[d] = log[d]
        BY <1>0, <2>1, <2>6
      <3>2. authorSeq'[d] = authorSeq[d]
        BY <1>0, <2>1, <2>6
      <3> QED  BY <3>1, <3>2
    <2> QED  BY <2>5, <2>6
  <1>2. ASSUME NEW from \in Device, MeshDeliver(from, d)
        PROVE  \E e \in Event, n \in Nat :
                 /\ e \in Created
                 /\ e \in log[from] /\ n = authorSeq[from][e]
                 /\ log'[d] = log[d] \cup {e}
                 /\ authorSeq'[d] = [authorSeq[d] EXCEPT ![e] = ResolvedSeq(d, e, n)]
    <2>1. PICK e \in log[from] :
            /\ log' = [log EXCEPT ![d] = @ \cup {e}]
            /\ authorSeq' = [authorSeq EXCEPT ![d][e] = ResolvedSeq(d, e, authorSeq[from][e])]
      BY <1>2 DEF MeshDeliver
    <2>2. e \in Event /\ e \in Created
      BY <1>0 DEF Known
    <2>3. PICK n \in Nat : n = authorSeq[from][e]
      BY <1>0, <2>2
    <2>4. log'[d] = log[d] \cup {e} /\ authorSeq'[d] = [authorSeq[d] EXCEPT ![e] = ResolvedSeq(d, e, n)]
      BY <1>0, <2>1, <2>2, <2>3
    <2> QED  BY <2>2, <2>3, <2>4
  <1> QED  BY <1>1, <1>2

\* An answer takes numbers away and changes none.
LEMMA ResponseNumbers ==
    ASSUME TypeOK, NEW d \in Device, NEW s \in Slot, HandleResponse(d, s)
    PROVE  /\ log'[d] = log[d]
           /\ \A e \in Event : authorSeq'[d][e] =
                IF e \in Judged(push[d][s], "conflict") /\ e \in log[d] THEN 0 ELSE authorSeq[d][e]
PROOF
  <1>1. authorSeq' = [authorSeq EXCEPT ![d] =
          [e \in Event |-> IF e \in Judged(push[d][s], "conflict") \cap log[d] THEN 0 ELSE @[e]]]
    BY DEF HandleResponse
  <1>2. log' = log
    BY DEF HandleResponse
  <1> QED  BY <1>1, <1>2 DEF TypeOK

\* Every replica keeps its rows' numbers distinct.
LEMMA NextReplicaNumbered ==
    ASSUME TypeOK, AckInv, Known, [Next]_vars, NEW c \in Device, Numbered(log[c], authorSeq[c])
    PROVE  \A e, f \in log'[c] :
             e # f /\ Author(e)' = Author(f)' /\ authorSeq'[c][e] # 0
             => authorSeq'[c][e] # authorSeq'[c][f]
PROOF
  <1> DEFINE Goal == \A e, f \in log'[c] :
                       e # f /\ Author(e)' = Author(f)' /\ authorSeq'[c][e] # 0
                       => authorSeq'[c][e] # authorSeq'[c][f]
             rows == log[c]
             num == authorSeq[c]
             row == log'[c]
             new == authorSeq'[c]
  <1>0. /\ rows \subseteq Created /\ rows \subseteq Event /\ num \in [Event -> Nat]
        /\ \A e \in Created : Author(e)' = Author(e)
    BY EnvelopeKept DEF Known, TypeOK, Author
  <1>1. Numbered(rows, num)
    OBVIOUS
  <1>2. CASE row = rows /\ new = num
    BY <1>0, <1>1, <1>2 DEF Numbered
  <1>3. ASSUME AppendEvent(c) PROVE Goal
    <2>1. PICK e \in Event \ Created, n \in Nat :
            /\ row = rows \cup {e} /\ Author(e)' = c
            /\ new = [num EXCEPT ![e] = n]
            /\ n # 0 /\ \A f \in rows : Author(f) = c => num[f] < n
      BY <1>3, AppendNumbers
    <2> HIDE DEF row, new, rows, num
    <2>2. new[e] = n /\ \A f \in rows : new[f] = num[f] /\ num[f] \in Nat /\ f # e
      BY <1>0, <2>1
    <2>3. \A f \in rows : Author(f)' = c => num[f] < n
      BY <1>0, <2>1
    <2>4. \A f, g \in rows : f # g /\ Author(f)' = Author(g)' /\ new[f] # 0 => new[f] # new[g]
      BY <1>0, <1>1, <2>2 DEF Numbered
    <2>5. \A f \in rows : Author(f)' = c => new[f] # n
      BY <2>2, <2>3
    <2>6. \A f, g \in row : f # g /\ Author(f)' = Author(g)' /\ new[f] # 0 => new[f] # new[g]
      BY <2>1, <2>2, <2>4, <2>5
    <2> QED  BY <2>6 DEF row, new
  <1>4. ASSUME LocalReset(c) PROVE Goal
    <2>1. row = {}
      BY <1>4 DEF LocalReset, TypeOK
    <2> QED  BY <2>1
  <1>5. ASSUME NEW s \in Slot, HandleResponse(c, s) PROVE Goal
    <2>1. row = rows /\ \A e \in Event : new[e] \in {0, num[e]}
      BY <1>5, ResponseNumbers
    <2> HIDE DEF row, new, rows, num
    <2>2. \A f, g \in row : f # g /\ Author(f)' = Author(g)' /\ new[f] # 0 => new[f] # new[g]
      BY <1>0, <1>1, <2>1 DEF Numbered
    <2> QED  BY <2>2 DEF row, new
  <1>6. ASSUME (\E q \in Drain : IngestRow(c, q)) \/ (\E from \in Device : MeshDeliver(from, c))
        PROVE  Goal
    <2>1. CASE row = rows /\ new = num
      BY <1>0, <1>1, <2>1 DEF Numbered
    <2>2. CASE ~(row = rows /\ new = num)
      <3>1. PICK e \in Event, n \in Nat :
              /\ e \in Created
              /\ row = rows \cup {e}
              /\ new = [num EXCEPT ![e] = ResolvedSeq(c, e, n)]
        BY <1>6, <2>2, RowNumbers
      <3>2. PICK m : m = ResolvedSeq(c, e, n)
        OBVIOUS
      <3>3. m # 0 => \A f \in rows : f # e /\ Author(f) = Author(e) => num[f] # m
        BY <1>1, <3>2, ResolvedFree
      <3> HIDE DEF row, new, rows, num
      <3>4. new[e] = m /\ \A f \in rows : f # e => new[f] = num[f]
        BY <1>0, <3>1, <3>2
      <3>5. \A f \in rows : f # e /\ Author(f)' = Author(e)' /\ m # 0 => new[f] # m
        BY <1>0, <3>1, <3>3, <3>4
      <3>6. \A f, g \in rows : f # e /\ g # e /\ f # g /\ Author(f)' = Author(g)' /\ new[f] # 0
                               => new[f] # new[g]
        BY <1>0, <1>1, <3>4 DEF Numbered
      <3>7. \A f, g \in row : f # g /\ Author(f)' = Author(g)' /\ new[f] # 0 => new[f] # new[g]
        BY <3>1, <3>4, <3>5, <3>6
      <3> QED  BY <3>7 DEF row, new
    <2> QED  BY <2>1, <2>2
  <1> HIDE DEF Goal
  <1>7. row = rows /\ new = num => Goal
    BY <1>2 DEF Goal
  <1>8. Goal
    BY <1>3, <1>4, <1>5, <1>6, <1>7, SeqChanges
  <1> QED  BY <1>8 DEF Goal

\* A commit uses no number twice: what it accepts or adopts is not contested,
\* and the request brings each number once.
LEMMA CommitNumbers ==
    ASSUME TypeOK, Numbered(Stored, slotSeq), NEW r, r.batch \in SUBSET Event,
           r.seq \in [Event -> Nat], Numbered(r.batch, r.seq), NEW held, NEW barred,
           Commit(r, JudgeBatch(r, held, barred))
    PROVE  \A e, f \in Stored' : e # f /\ Author(e) = Author(f) /\ slotSeq'[e] # 0
                                 => slotSeq'[e] # slotSeq'[f]
PROOF
  <1> DEFINE v == JudgeBatch(r, held, barred)
             fresh == {e \in r.batch : v[e] = "accepted"}
             adopt == {e \in r.batch : /\ v[e] = "duplicate"
                                       /\ slotSeq[e] = 0 /\ ~Contested(e, r.seq)}
             seq == r.seq
  <1>1. \A e \in fresh : ~Contested(e, seq)
    BY DEF JudgeBatch, VerdictOf
  <1>2. \A e \in fresh \cup adopt : e \in r.batch /\ ~Contested(e, seq)
    BY <1>1
  <1>3. slotSeq' = [e \in Event |-> IF e \in fresh \cup adopt THEN seq[e] ELSE slotSeq[e]]
    BY DEF Commit
  <1>4. Stored' = Stored \cup fresh
    BY CommitStores
  <1> HIDE DEF v, fresh, adopt, seq
  <1>5. fresh \cup adopt \subseteq Event /\ Stored \subseteq Event
    BY <1>2 DEF Stored
  <1> SUFFICES ASSUME NEW e \in Stored', NEW f \in Stored', e # f, Author(e) = Author(f),
                      slotSeq'[e] # 0
               PROVE  slotSeq'[e] # slotSeq'[f]
    OBVIOUS
  <1>6. /\ slotSeq'[e] = IF e \in fresh \cup adopt THEN seq[e] ELSE slotSeq[e]
        /\ slotSeq'[f] = IF f \in fresh \cup adopt THEN seq[f] ELSE slotSeq[f]
    BY <1>3, <1>4, <1>5
  <1>7. CASE e \in fresh \cup adopt /\ f \in fresh \cup adopt
    BY <1>2, <1>6, <1>7 DEF Numbered, seq
  <1>8. CASE e \in fresh \cup adopt /\ f \notin fresh \cup adopt
    <2>1. f \in Stored
      BY <1>4, <1>8
    <2> QED  BY <1>2, <1>6, <1>8, <2>1 DEF Contested
  <1>9. CASE e \notin fresh \cup adopt /\ f \in fresh \cup adopt
    <2>1. e \in Stored
      BY <1>4, <1>9
    <2> QED  BY <1>2, <1>6, <1>9, <2>1 DEF Contested
  <1>10. CASE e \notin fresh \cup adopt /\ f \notin fresh \cup adopt
    BY <1>4, <1>6, <1>10 DEF Numbered
  <1> QED  BY <1>7, <1>8, <1>9, <1>10

\* Every step keeps every number used once.
LEMMA NextNumbers == TypeOK /\ AckInv /\ Known /\ NumbersInv /\ [Next]_vars => NumbersInv'
PROOF
  <1> SUFFICES ASSUME TypeOK, AckInv, Known, NumbersInv, [Next]_vars PROVE NumbersInv'
    OBVIOUS
  <1>0. \A e \in Created : Author(e)' = Author(e)
    BY EnvelopeKept DEF Author
  <1>1. ASSUME NEW c \in Device PROVE Numbered(log[c], authorSeq[c])'
    BY NextReplicaNumbered DEF NumbersInv, Numbered
  <1>2. ASSUME NEW c \in Device, NEW t \in Slot
        PROVE  Numbered(push[c][t].batch, push[c][t].seq)'
    <2> DEFINE p == push[c][t]
    <2>0. push \in [Device -> [Slot -> PushRecord]] /\ p.batch \subseteq Created
          /\ Numbered(p.batch, p.seq)
      BY DEF TypeOK, Known, NumbersInv
    <2>1. CASE push'[c][t].batch = p.batch /\ push'[c][t].seq = p.seq
      BY <1>0, <2>0, <2>1 DEF Numbered
    <2>2. CASE push'[c][t] = IdlePush
      BY <2>2 DEF IdlePush, Numbered
    <2>3. CASE ReadOutbox(c, t)
      <3> DEFINE batch == Earliest(Outbox(c), MaxBatch)
                 num == authorSeq[c]
      <3>1. /\ push'[c][t].batch = batch
            /\ push'[c][t].seq = [e \in Event |-> IF e \in batch /\ Author(e) = c
                                                  THEN num[e] ELSE 0]
        BY <2>0, <2>3 DEF ReadOutbox, IdlePush
      <3>2. batch \subseteq log[c]
        BY DEF Earliest, Outbox, Pending
      <3>3. Numbered(log[c], num) /\ log[c] \subseteq Created /\ log[c] \subseteq Event
        BY DEF NumbersInv, Known, TypeOK
      <3> HIDE DEF batch, num
      <3> QED  BY <1>0, <3>1, <3>2, <3>3 DEF Numbered
    <2>4. CASE ServerPush(c, t)
      <3>1. push'[c][t].batch = p.batch /\ push'[c][t].seq = p.seq
        BY <2>0, <2>4 DEF ServerPush
      <3> QED  BY <2>1, <3>1
    <2> QED  BY <2>1, <2>2, <2>3, <2>4, PushChanges
  <1>3. ASSUME NEW r \in stray' PROVE Numbered(r.batch, r.seq)'
    <2>1. r.batch \subseteq Created /\ Numbered(r.batch, r.seq)
      <3>1. CASE r \in stray
        BY <3>1 DEF Known, NumbersInv
      <3>2. ASSUME NEW d \in Device, NEW s \in Slot, r = Request(d, push[d][s])
            PROVE  r.batch \subseteq Created /\ Numbered(r.batch, r.seq)
        BY <3>2 DEF Known, NumbersInv, Request
      <3> QED  BY <3>1, <3>2, StrayChanges
    <2> QED  BY <1>0, <2>1 DEF Numbered
  <1>4. Numbered(Stored, slotSeq)'
    <2>0. Stored \subseteq Created /\ Stored' \subseteq Created
      <3>1. \A e \in Stored' \ Stored : e \in Created
        BY StoredChanges DEF Known
      <3> QED  BY <3>1 DEF Known
    <2>1. CASE UNCHANGED serverVars
      BY <1>0, <2>0, <2>1 DEF serverVars, Stored, NumbersInv, Numbered
    <2>2. ASSUME NEW r, r.batch \in SUBSET Event, r.seq \in [Event -> Nat], Numbered(r.batch, r.seq),
                 \E held, barred : Commit(r, JudgeBatch(r, held, barred))
          PROVE  Numbered(Stored, slotSeq)'
      <3>1. \A e, f \in Stored' : e # f /\ Author(e) = Author(f) /\ slotSeq'[e] # 0
                                  => slotSeq'[e] # slotSeq'[f]
        BY <2>2, CommitNumbers DEF NumbersInv
      <3> QED  BY <1>0, <2>0, <3>1 DEF Numbered
    <2>3. ASSUME NEW d \in Device, NEW s \in Slot, ServerPush(d, s)
          PROVE  Numbered(Stored, slotSeq)'
      <3>1. \E held, barred : Commit(push[d][s], JudgeBatch(push[d][s], held, barred))
        BY <2>3 DEF ServerPush
      <3>2. push[d][s].batch \in SUBSET Event /\ push[d][s].seq \in [Event -> Nat]
        BY DEF TypeOK, PushRecord
      <3> QED  BY <2>2, <3>1, <3>2 DEF NumbersInv
    <2>4. CASE ServerPushStray
      <3>1. PICK r \in stray : \E held, barred : Commit(r, JudgeBatch(r, held, barred))
        BY <2>4 DEF ServerPushStray
      <3>2. r.batch \in SUBSET Event /\ r.seq \in [Event -> Nat]
        BY DEF TypeOK, StrayRecord
      <3> QED  BY <2>2, <3>1, <3>2 DEF NumbersInv
    <2> QED  BY <2>1, <2>3, <2>4, ServerChanges
  <1> QED  BY <1>1, <1>2, <1>3, <1>4 DEF NumbersInv

\* There is nothing to number at the start.
LEMMA InitNumbers == Init => NumbersInv
  BY DEF Init, NumbersInv, Numbered, IdlePush, Stored

(* No position of the server's log and no sequence number of an author is   *)
(* ever used twice, at the server or on a replica: the unique indexes that  *)
(* would abort a batch (service.go) or make a replica drop an event as a    *)
(* duplicate (resolveAuthorSeqSlot, nextAuthorSeqInTx) are never hit, with  *)
(* any number of overlapping and late pushes and of lost databases.         *)
THEOREM NumbersAreUnique == Spec => []NumbersUnique
PROOF
  <1> DEFINE Inv == TypeOK /\ CursorInv /\ NumbersInv
  <1>1. Init => Inv
    BY InitType, InitCursorInv, InitNumbers
  <1>2. Inv /\ [Next]_vars => Inv'
    BY NextType, NextCursorInv, NextNumbers DEF CursorInv
  <1>3. Inv => ServerSlotUnique /\ ReplicaSlotUnique
    BY DEF NumbersInv, Numbered, ServerSlotUnique, ReplicaSlotUnique
  <1> QED  BY <1>1, <1>2, <1>3, HistoryIsOne, PTL DEF Spec, NumbersUnique

----------------------------------------------------------------------------
\* A vector promises what is held.

\* the number an event's author gave it
Own(e) == authorSeq[Author(e)][e]

\* the events of S carry that number or none
Echoes(S, seq) == \A e \in S : seq[e] \in {0, Own(e)}

\* Without a lost database, every event is on its author's device with a number,
\* nobody knows it by another one, and no number is contested.
Kept == \A e \in Created : Author(e) \in Device /\ e \in log[Author(e)] /\ Own(e) # 0
Echoed ==
    /\ \A d \in Device : Echoes(log[d], authorSeq[d])
    /\ \A d \in Device, s \in Slot : Echoes(push[d][s].batch, push[d][s].seq)
    /\ \A r \in stray : Echoes(r.batch, r.seq)
    /\ \A d \in Device, q \in Drain : Echoes(pull[d][q].rows, pull[d][q].seq)
    /\ Echoes(Stored, slotSeq)
Uncontested == \A d \in Device, s \in Slot : Judged(push[d][s], "conflict") = {}
NothingWiped == wiped = {} => Kept /\ Echoed /\ Uncontested
NoContest == wiped = {} => Uncontested

\* Without a lost database an event keeps the number its author gave it.
LEMMA OwnStays ==
    ASSUME TypeOK, AckInv, Known, Kept, Uncontested, [Next]_vars, wiped' = {}, NEW e \in Created
    PROVE  Author(e)' = Author(e) /\ Own(e)' = Own(e) /\ e \in log'[Author(e)]
PROOF
  <1>1. Author(e)' = Author(e)
    BY EnvelopeKept DEF Author
  <1>2. PICK a \in Device : a = Author(e) /\ e \in log[a] /\ authorSeq[a][e] # 0
    BY DEF Kept, Own
  <1>3. ~LocalReset(a)
    BY DEF LocalReset
  <1>4. e \in log'[a]
    BY <1>2, <1>3, RowsStay
  <1> DEFINE num == authorSeq[a]
             new == authorSeq'[a]
             rows == log[a]
  <1>0. num \in [Event -> Nat] /\ e \in Event
    BY DEF TypeOK, Created
  <1>5. AppendEvent(a) => new[e] = num[e]
    <2> SUFFICES ASSUME AppendEvent(a) PROVE new[e] = num[e]
      OBVIOUS
    <2>1. PICK f \in Event \ Created, n \in Nat : new = [num EXCEPT ![f] = n]
      BY AppendNumbers
    <2> HIDE DEF num, new
    <2> QED  BY <1>0, <2>1
  <1>6. ASSUME NEW s \in Slot, HandleResponse(a, s) PROVE new[e] = num[e]
    BY <1>0, <1>6, ResponseNumbers DEF Uncontested
  <1>7. ASSUME (\E q \in Drain : IngestRow(a, q)) \/ (\E from \in Device : MeshDeliver(from, a))
        PROVE  new[e] = num[e]
    <2>1. CASE new = num
      BY <2>1
    <2>2. CASE new # num
      <3>1. PICK f \in Event, n \in Nat : new = [num EXCEPT ![f] = ResolvedSeq(a, f, n)]
        BY <1>7, <2>2, RowNumbers
      <3>2. ResolvedSeq(a, e, n) = num[e]
        BY <1>2 DEF ResolvedSeq
      <3> HIDE DEF num, new
      <3> QED  BY <1>0, <3>1, <3>2
    <2> QED  BY <2>1, <2>2
  <1>8. new[e] = num[e]
    <2>1. new = num => new[e] = num[e]
      OBVIOUS
    <2> HIDE DEF num, new
    <2>2. authorSeq'[a] = authorSeq[a] => new[e] = num[e]
      BY <2>1 DEF num, new
    <2> QED  BY <1>3, <1>5, <1>6, <1>7, <2>2, SeqChanges
  <1> QED  BY <1>1, <1>2, <1>4, <1>8 DEF Own

\* An event is written on its author's device, with a number.
LEMMA NextKept ==
    ASSUME TypeOK, AckInv, Known, Kept, Uncontested, [Next]_vars, wiped' = {}
    PROVE  Kept'
PROOF
  <1> SUFFICES ASSUME NEW e \in Created'
               PROVE  Author(e)' \in Device /\ e \in log'[Author(e)'] /\ Own(e)' # 0
    BY DEF Kept
  <1>1. CASE e \in Created
    <2>1. Author(e) \in Device /\ Own(e) # 0
      BY <1>1 DEF Kept
    <2> QED  BY <1>1, <2>1, OwnStays
  <1>2. CASE e \notin Created
    <2>1. PICK d \in Device : AppendEvent(d)
      BY <1>2, EnvelopeChanges DEF Created
    <2>2. PICK f \in Event \ Created, n \in Nat :
            /\ log'[d] = log[d] \cup {f} /\ Author(f)' = d
            /\ authorSeq'[d] = [authorSeq[d] EXCEPT ![f] = n] /\ n # 0
      BY <2>1, AppendNumbers
    <2>3. e = f
      <3>1. PICK g \in Event \ Created :
              /\ log' = [log EXCEPT ![d] = @ \cup {g}]
              /\ Created' = Created \cup {g}
        BY <2>1, AppendCreates
      <3>2. e = g /\ e \in log'[d] /\ e \notin log[d]
        BY <1>2, <3>1 DEF TypeOK, Known
      <3> QED  BY <2>2, <3>2
    <2>4. authorSeq[d] \in [Event -> Nat]
      BY DEF TypeOK
    <2>5. authorSeq'[d][f] = n
      BY <2>2, <2>4
    <2> QED  BY <2>2, <2>3, <2>5 DEF Own
  <1> QED  BY <1>1, <1>2

\* Nobody learns an event under another number than its author's.
LEMMA NextEchoed ==
    ASSUME TypeOK, AckInv, Known, Kept, Echoed, Uncontested, [Next]_vars, wiped' = {}
    PROVE  Echoed'
PROOF
  <1>1. \A e \in Created : Author(e)' = Author(e) /\ Own(e)' = Own(e)
    BY OwnStays
  <1>2. ASSUME NEW c \in Device, NEW e \in log'[c]
        PROVE  authorSeq'[c][e] \in {0, Own(e)'}
    <2> DEFINE num == authorSeq[c]
               new == authorSeq'[c]
    <2>0. num \in [Event -> Nat] /\ log[c] \subseteq Created /\ log[c] \subseteq Event
      BY DEF TypeOK, Known
    <2>1. e \in log[c] => num[e] \in {0, Own(e)'}
      BY <1>1, <2>0 DEF Echoed, Echoes
    <2>2. CASE AppendEvent(c)
      <3>1. PICK f \in Event \ Created, n \in Nat :
              log'[c] = log[c] \cup {f} /\ Author(f)' = c /\ new = [num EXCEPT ![f] = n]
        BY <2>2, AppendNumbers
      <3>2. CASE e = f
        BY <3>1, <3>2 DEF Own
      <3>3. CASE e # f
        BY <1>2, <2>0, <2>1, <3>1, <3>3
      <3> QED  BY <3>2, <3>3
    <2>3. ~LocalReset(c)
      BY DEF LocalReset
    <2>4. ASSUME NEW s \in Slot, HandleResponse(c, s)
          PROVE  new[e] \in {0, Own(e)'}
      <3>1. e \in log[c] /\ e \in Event /\ new[e] \in {0, num[e]}
        BY <1>2, <2>0, <2>4, ResponseNumbers
      <3> QED  BY <2>1, <3>1
    <2>5. CASE (\E q \in Drain : IngestRow(c, q)) \/ (\E from \in Device : MeshDeliver(from, c))
      <3>1. CASE log'[c] = log[c] /\ new = num
        BY <1>2, <2>1, <3>1
      <3>2. CASE ~(log'[c] = log[c] /\ new = num)
        <4>1. PICK f \in Event, n \in Nat :
                /\ f \in Created
                /\ \/ \E q \in Drain : f \in pull[c][q].rows /\ n = pull[c][q].seq[f]
                   \/ \E from \in Device : f \in log[from] /\ n = authorSeq[from][f]
                /\ log'[c] = log[c] \cup {f}
                /\ new = [num EXCEPT ![f] = ResolvedSeq(c, f, n)]
          BY <2>5, <3>2, RowNumbers
        <4>2. n \in {0, Own(f)}
          BY <4>1 DEF Echoed, Echoes
        <4>3. ResolvedSeq(c, f, n) \in {0, Own(f)}
          BY <4>2 DEF ResolvedSeq, Echoed, Echoes
        <4>4. CASE e = f
          <5>1. new[e] = ResolvedSeq(c, f, n)
            BY <2>0, <4>1, <4>4
          <5> QED  BY <1>1, <4>1, <4>3, <4>4, <5>1
        <4>5. CASE e # f
          <5>1. new[e] = num[e] /\ e \in log[c]
            BY <1>2, <2>0, <4>1, <4>5
          <5> QED  BY <2>1, <5>1
        <4> QED  BY <4>4, <4>5
      <3> QED  BY <3>1, <3>2
    <2>6. CASE new = num /\ log'[c] = log[c]
      BY <1>2, <2>1, <2>6
    <2> HIDE DEF num, new
    <2>7. authorSeq'[c] = authorSeq[c] => new = num
      BY DEF num, new
    <2>8. new[e] \in {0, Own(e)'}
      BY <2>2, <2>3, <2>4, <2>5, <2>6, <2>7, SeqChanges DEF new
    <2> QED  BY <2>8 DEF new
  <1>3. ASSUME NEW c \in Device, NEW t \in Slot
        PROVE  \A e \in push'[c][t].batch : push'[c][t].seq[e] \in {0, Own(e)'}
    <2> DEFINE p == push[c][t]
    <2>0. push \in [Device -> [Slot -> PushRecord]] /\ p.batch \subseteq Created
          /\ Echoes(p.batch, p.seq)
      BY DEF TypeOK, Known, Echoed
    <2>1. CASE push'[c][t].batch = p.batch /\ push'[c][t].seq = p.seq
      BY <1>1, <2>0, <2>1 DEF Echoes
    <2>2. CASE push'[c][t] = IdlePush
      BY <2>2 DEF IdlePush
    <2>3. CASE ReadOutbox(c, t)
      <3> DEFINE batch == Earliest(Outbox(c), MaxBatch)
                 num == authorSeq[c]
      <3>1. /\ push'[c][t].batch = batch
            /\ push'[c][t].seq = [e \in Event |-> IF e \in batch /\ Author(e) = c
                                                  THEN num[e] ELSE 0]
        BY <2>0, <2>3 DEF ReadOutbox, IdlePush
      <3>2. batch \subseteq log[c]
        BY DEF Earliest, Outbox, Pending
      <3>3. log[c] \subseteq Created /\ log[c] \subseteq Event
        BY DEF Known, TypeOK
      <3>4. \A e \in Created : Author(e) = c => Own(e)' = num[e]
        BY <1>1 DEF Own
      <3> HIDE DEF batch, num
      <3> QED  BY <3>1, <3>2, <3>3, <3>4
    <2>4. CASE ServerPush(c, t)
      <3>1. push'[c][t].batch = p.batch /\ push'[c][t].seq = p.seq
        BY <2>0, <2>4 DEF ServerPush
      <3> QED  BY <2>1, <3>1
    <2> QED  BY <2>1, <2>2, <2>3, <2>4, PushChanges
  <1>4. ASSUME NEW r \in stray', NEW e \in r.batch PROVE r.seq[e] \in {0, Own(e)'}
    <2>1. r.batch \subseteq Created /\ Echoes(r.batch, r.seq)
      <3>1. CASE r \in stray
        BY <3>1 DEF Known, Echoed
      <3>2. ASSUME NEW d \in Device, NEW s \in Slot, r = Request(d, push[d][s])
            PROVE  r.batch \subseteq Created /\ Echoes(r.batch, r.seq)
        BY <3>2 DEF Known, Echoed, Request
      <3> QED  BY <3>1, <3>2, StrayChanges
    <2> QED  BY <1>1, <2>1 DEF Echoes
  <1>5. ASSUME NEW c \in Device, NEW x \in Drain
        PROVE  \A e \in pull'[c][x].rows : pull'[c][x].seq[e] \in {0, Own(e)'}
    <2> DEFINE p == pull[c][x]
    <2>0. pull \in [Device -> [Drain -> PullRecord]] /\ p.rows \subseteq Created
          /\ Echoes(p.rows, p.seq)
      BY DEF TypeOK, AckInv, PagesHold, Known, Echoed
    <2>1. CASE pull'[c][x].rows \subseteq p.rows /\ pull'[c][x].seq = p.seq
      BY <1>1, <2>0, <2>1 DEF Echoes
    <2>2. IdlePull.rows = {} /\ [IdlePull EXCEPT !.phase = "open", !.at = cursor[c]].rows = {}
          /\ [IdlePull EXCEPT !.phase = "open", !.at = p.next].rows = {}
      BY DEF IdlePull
    <2>3. /\ pull'[c][x] = IdlePull => pull'[c][x].rows = {}
          /\ OpenDrain(c, x) => pull'[c][x].rows = {}
          /\ AdvanceCursor(c, x) => pull'[c][x].rows = {}
      <3>1. OpenDrain(c, x) => pull'[c][x].rows = {}
        BY <2>0, <2>2 DEF OpenDrain
      <3>2. AdvanceCursor(c, x) => pull'[c][x].rows = {}
        BY <2>0, <2>2 DEF AdvanceCursor
      <3> QED  BY <2>2, <3>1, <3>2
    <2>4. CASE FetchPage(c, x)
      <3> DEFINE rows == PageAfter(p.at)
      <3>1. pull'[c][x].rows = rows
            /\ pull'[c][x].seq = [e \in Event |-> IF e \in rows THEN slotSeq[e] ELSE 0]
        BY <2>0, <2>4 DEF FetchPage
      <3>2. rows \subseteq Stored /\ Stored \subseteq Created /\ Stored \subseteq Event
        BY DEF PageAfter, After, Known, Stored
      <3> HIDE DEF rows
      <3> QED  BY <1>1, <3>1, <3>2 DEF Echoed, Echoes
    <2>5. CASE IngestRow(c, x)
      <3>1. pull'[c][x].rows \subseteq p.rows /\ pull'[c][x].seq = p.seq
        BY <2>0, <2>5 DEF IngestRow
      <3> QED  BY <2>1, <3>1
    <2> QED  BY <2>1, <2>3, <2>4, <2>5, PullChanges
  <1>6. ASSUME NEW e \in Stored' PROVE slotSeq'[e] \in {0, Own(e)'}
    <2>0. e \in Created /\ (e \in Stored => slotSeq[e] \in {0, Own(e)})
      BY StoredChanges DEF Known, Echoed, Echoes
    <2>1. CASE UNCHANGED serverVars
      BY <1>1, <2>0, <2>1 DEF serverVars, Stored
    <2>2. ASSUME NEW r, NEW v, r.batch \in SUBSET Event, Echoes(r.batch, r.seq), Commit(r, v)
          PROVE  slotSeq'[e] \in {0, Own(e)}
      <3>1. Stored' = Stored \cup {f \in r.batch : v[f] = "accepted"}
        BY <2>2, CommitStores
      <3>2. e \in Event
        BY DEF Stored
      <3>3. slotSeq'[e] = slotSeq[e] \/ (e \in r.batch /\ slotSeq'[e] = r.seq[e])
        BY <2>2, <3>2 DEF Commit
      <3>4. e \in Stored \/ (e \in r.batch /\ slotSeq'[e] = r.seq[e])
        BY <2>2, <3>1, <3>2 DEF Commit
      <3>5. CASE slotSeq'[e] = slotSeq[e] /\ e \in Stored
        BY <2>0, <3>5
      <3>6. CASE e \in r.batch /\ slotSeq'[e] = r.seq[e]
        BY <2>2, <3>6 DEF Echoes
      <3> QED  BY <3>3, <3>4, <3>5, <3>6
    <2>3. ASSUME NEW d \in Device, NEW s \in Slot, ServerPush(d, s)
          PROVE  slotSeq'[e] \in {0, Own(e)}
      <3>1. PICK held, barred : Commit(push[d][s], JudgeBatch(push[d][s], held, barred))
        BY <2>3 DEF ServerPush
      <3>2. push[d][s].batch \in SUBSET Event
        BY DEF TypeOK, PushRecord
      <3> QED  BY <2>2, <3>1, <3>2 DEF Echoed
    <2>4. CASE ServerPushStray
      <3>1. PICK r \in stray : \E v : Commit(r, v)
        BY <2>4 DEF ServerPushStray
      <3>2. r.batch \in SUBSET Event
        BY DEF TypeOK, StrayRecord
      <3>3. slotSeq'[e] \in {0, Own(e)}
        BY <2>2, <3>1, <3>2 DEF Echoed
      <3> QED  BY <1>1, <2>0, <3>3
    <2> QED  BY <1>1, <2>0, <2>1, <2>3, <2>4, ServerChanges
  <1> QED  BY <1>2, <1>3, <1>4, <1>5, <1>6 DEF Echoed, Echoes

\* The server contests no number: whoever else had it would share it with the
\* event on the author's own device.
LEMMA NextUncontested ==
    ASSUME TypeOK, Known, NumbersInv, Kept, Echoed, Uncontested, [Next]_vars
    PROVE  Uncontested'
PROOF
  <1> SUFFICES ASSUME NEW c \in Device, NEW t \in Slot
               PROVE  Judged(push'[c][t], "conflict") = {}
    BY DEF Uncontested
  <1>0. push \in [Device -> [Slot -> PushRecord]]
    BY DEF TypeOK
  <1>1. push'[c][t] = push[c][t] => Judged(push'[c][t], "conflict") = {}
    BY DEF Uncontested
  <1>2. Judged(IdlePush, "conflict") = {}
    BY DEF Judged, IdlePush
  <1>3. ASSUME ReadOutbox(c, t) PROVE Judged(push'[c][t], "conflict") = {}
    <2>1. push'[c][t].verdict = [f \in Event |-> "none"] /\ push'[c][t].batch \subseteq Event
      BY <1>0, <1>3 DEF ReadOutbox, IdlePush, TypeOK, Earliest, Outbox, Pending
    <2> QED  BY <2>1 DEF Judged
  <1>4. ASSUME ServerPush(c, t) PROVE Judged(push'[c][t], "conflict") = {}
    <2> DEFINE p == push[c][t]
    <2>1. PICK held, barred :
            push' = [push EXCEPT ![c][t] =
                      [phase |-> "answered", batch |-> p.batch, seq |-> p.seq,
                       verdict |-> JudgeBatch(p, held, barred)]]
      BY <1>4 DEF ServerPush
    <2>2. push'[c][t].verdict = JudgeBatch(p, held, barred) /\ push'[c][t].batch = p.batch
      BY <1>0, <2>1
    <2>3. p.batch \subseteq Created /\ p.batch \subseteq Event /\ Echoes(p.batch, p.seq)
      BY <1>0 DEF PushRecord, Known, Echoed
    <2> SUFFICES ASSUME NEW e \in p.batch, VerdictOf(e, p, held, barred) = "conflict" PROVE FALSE
      BY <2>2, <2>3 DEF Judged, JudgeBatch
    <2>4. Contested(e, p.seq)
      BY DEF VerdictOf
    <2>5. PICK f \in Stored \ {e} : Author(f) = Author(e) /\ slotSeq[f] = p.seq[e] /\ p.seq[e] # 0
      BY <2>4 DEF Contested
    <2>6. e \in Created /\ f \in Created
      BY <2>3 DEF Known
    <2>7. Own(e) = p.seq[e] /\ Own(f) = p.seq[e]
      BY <2>3, <2>5 DEF Echoed, Echoes
    <2>8. PICK a \in Device : a = Author(e) /\ e \in log[a] /\ f \in log[a]
      BY <2>5, <2>6 DEF Kept
    <2>9. authorSeq[a][e] = authorSeq[a][f] /\ authorSeq[a][e] # 0
      BY <2>5, <2>7, <2>8 DEF Own
    <2> QED  BY <2>5, <2>8, <2>9 DEF NumbersInv, Numbered
  <1> QED  BY <1>1, <1>2, <1>3, <1>4, PushChanges

\* As long as no database is lost, every step keeps all of that.
LEMMA NextNothingWiped ==
    TypeOK /\ CursorInv /\ NumbersInv /\ NothingWiped /\ [Next]_vars => NothingWiped'
PROOF
  <1> SUFFICES ASSUME TypeOK, AckInv, Known, NumbersInv, NothingWiped, [Next]_vars, wiped' = {}
               PROVE  Kept' /\ Echoed' /\ Uncontested'
    BY DEF CursorInv, NothingWiped
  <1>1. Kept /\ Echoed /\ Uncontested
    <2>1. wiped = {} \/ Device = {}
      BY RefusedChanges
    <2>2. wiped = {}
      BY <2>1 DEF TypeOK
    <2> QED  BY <2>2 DEF NothingWiped
  <1> QED  BY <1>1, NextKept, NextEchoed, NextUncontested

\* There is nothing to keep at the start.
LEMMA InitNothingWiped == Init => NothingWiped
  BY DEF Init, NothingWiped, Kept, Echoed, Echoes, Uncontested, Created, Stored, Judged,
         IdlePush, IdlePull

\* The numbers and what they say, in every state.
LEMMA AlwaysNumbered == Spec => [](TypeOK /\ CursorInv /\ NumbersInv /\ NothingWiped)
PROOF
  <1> DEFINE Inv == TypeOK /\ CursorInv /\ NumbersInv /\ NothingWiped
  <1>1. Init => Inv
    BY InitType, InitCursorInv, InitNumbers, InitNothingWiped
  <1>2. Inv /\ [Next]_vars => Inv'
    BY NextType, NextCursorInv, NextNumbers, NextNothingWiped DEF CursorInv
  <1> QED  BY <1>1, <1>2, PTL DEF Spec

(* As long as no device loses its database, a vector entry n for an author  *)
(* promises what is held: the replica has the author's events 1..n, in      *)
(* whatever order rows came from the server and from peers, with or without *)
(* their numbers (resolveAuthorSeqSlot, anti-entropy.ts).                   *)
THEOREM VectorsAreHonest == Spec => []VectorHonest
PROOF
  <1>1. TypeOK /\ Known /\ NumbersInv /\ NothingWiped => VectorHonest
    <2> SUFFICES ASSUME TypeOK, Known, NumbersInv, Kept, Echoed, NEW d \in Device, NEW e \in Created,
                        Own(e) # 0, Covers(d, Author(e), Own(e))
                 PROVE  e \in log[d]
      BY DEF VectorHonest, NothingWiped, Own
    <2>1. Own(e) \in Nat
      BY DEF Kept, Own, TypeOK, Created
    <2>2. PICK n \in Nat : n = Own(e) /\ n \in 1..n
      BY <2>1
    <2>3. n \in RelaySeqs(d, Author(e))
      BY <2>2 DEF Covers
    <2>4. PICK f \in log[d] : Author(f) = Author(e) /\ authorSeq[d][f] = n
      BY <2>3 DEF RelaySeqs
    <2>5. Own(f) = n
      BY <2>2, <2>4 DEF Echoed, Echoes
    <2>6. PICK a \in Device : a = Author(e) /\ e \in log[a] /\ f \in log[a]
      BY <2>4 DEF Kept, Known
    <2>7. authorSeq[a][e] = n /\ authorSeq[a][f] = n
      BY <2>2, <2>4, <2>5, <2>6 DEF Own
    <2>8. e = f
      BY <2>2, <2>6, <2>7, <2>4 DEF NumbersInv, Numbered
    <2> QED  BY <2>4, <2>8
  <1> QED  BY <1>1, AlwaysNumbered, PTL DEF CursorInv

(* A number is only ever contested after a device has lost its database     *)
(* (push.ts, the seq_conflict branch and its local reset): overlapping and  *)
(* late pushes of one event, or rows taken from peers, never cause it.      *)
THEOREM ContestsFollowALoss == Spec => []NoContest
PROOF
  <1>1. NothingWiped => NoContest
    BY DEF NothingWiped, NoContest
  <1> QED  BY <1>1, AlwaysNumbered, PTL

----------------------------------------------------------------------------
\* The mapping.

LedgerInv == TypeOK /\ CursorInv /\ Chained

(* The sequence that stands for the server's log has each stored event at   *)
(* its place.                                                              *)
HistoryFacts ==
    /\ History \in Seq(Event) /\ Len(History) = head /\ head \in Nat
    /\ \A e \in Stored : serverSeq[e] \in 1..head /\ History[serverSeq[e]] = e
    /\ \A n \in 1..head : History[n] \in Stored /\ serverSeq[History[n]] = n
    /\ Ledger!Published = Stored

\* History is a sequence of the stored events, each once.
LEMMA HistoryIs == LedgerInv => HistoryFacts
PROOF
  <1> SUFFICES ASSUME LedgerInv PROVE HistoryFacts
    OBVIOUS
  <1>1. head \in Nat /\ serverSeq \in [Event -> Nat] /\ Stored \subseteq Event
    BY DEF LedgerInv, TypeOK, Stored
  <1>2. ASSUME NEW n \in 1..head
        PROVE  History[n] \in Stored /\ serverSeq[History[n]] = n
    <2>1. \E e \in Stored : serverSeq[e] = n
      BY DEF LedgerInv, Chained
    <2>2. History[n] = CHOOSE e \in Stored : serverSeq[e] = n
      BY DEF History
    <2> QED  BY <2>1, <2>2
  <1>3. ASSUME NEW e \in Stored
        PROVE  serverSeq[e] \in 1..head /\ History[serverSeq[e]] = e
    <2>1. serverSeq[e] \in 1..head
      BY <1>1 DEF LedgerInv, CursorInv, WithinHead, Stored
    <2> QED  BY <1>2, <2>1 DEF LedgerInv, Chained
  <1>4. History \in [1..head -> Event] /\ DOMAIN History = 1..head
    BY <1>1, <1>2 DEF History
  <1>5. History \in Seq(Event) /\ Len(History) = head
    BY <1>1, <1>4
  <1>6. Ledger!Published = Stored
    <2>1. Ledger!Published = {History[n] : n \in 1..head}
      BY <1>4 DEF Ledger!Published, Ledger!Range
    <2> QED  BY <1>2, <1>3, <2>1
  <1> QED  BY <1>1, <1>2, <1>3, <1>5, <1>6 DEF HistoryFacts

(* The library's cardinality is the instance's.                             *)
LEMMA SameCardinality == \A S : Ledger!Cardinality(S) = Cardinality(S)
PROOF
  <1> QED  BY DEF Ledger!Cardinality, Cardinality, Ledger!IsFiniteSet, IsFiniteSet

\* A step that leaves the server alone leaves the history alone.
LEMMA SameHistory == UNCHANGED serverVars => History' = History
PROOF
  <1> QED  BY DEF serverVars, History, Stored

Authors == [e \in Event |-> Author(e)]

\* A step that writes no event leaves the authors alone.
LEMMA SameAuthors == envelope' = envelope => Authors' = Authors
PROOF
  <1> QED  BY DEF Authors, Author

(* What a mapped event is: created, with its author's name.                 *)
LEMMA AuthorIs ==
    ASSUME TypeOK, NEW e \in Event
    PROVE  /\ Authors[e] = Author(e)
           /\ e \in Created => Author(e) \in Device /\ Author(e) # "none"
           /\ e \notin Created => Author(e) = "none"
PROOF
  <1>1. envelope[e] \in Envelope \cup {NoEvent}
    BY DEF TypeOK
  <1> QED  BY <1>1, DeviceAssumption DEF Authors, Author, Created, Envelope, NoEvent

Simulated == Ledger!LedgerNext \/ UNCHANGED Ledger!ledgerVars

(* An append is a write.                                                    *)
LEMMA AppendWrites ==
    ASSUME LedgerInv, NEW d \in Device, AppendEvent(d)
    PROVE  Simulated
PROOF
  <1>0. TypeOK
    BY DEF LedgerInv
  <1>1. PICK e \in Event \ Created :
          /\ envelope' = [envelope EXCEPT ![e] = [author |-> d, pms |-> Larger(Clock(d), frontier[d])]]
          /\ log' = [log EXCEPT ![d] = @ \cup {e}]
    BY <1>0, AppendCreates
  <1>2. UNCHANGED <<serverVars, acked, cursor>>
    BY DEF AppendEvent
  <1>3. Authors' = [Authors EXCEPT ![e] = d]
    <2>1. \A f \in Event : Author(f)' = IF f = e THEN d ELSE Author(f)
      BY <1>0, <1>1 DEF TypeOK, Author
    <2> QED  BY <2>1 DEF Authors
  <1>4. Authors[e] = "none"
    BY <1>0, <1>1, AuthorIs
  <1>5. Ledger!Write(d, e)
    BY <1>1, <1>2, <1>3, <1>4, SameHistory DEF Ledger!Write, Authors
  <1> QED  BY <1>5 DEF Simulated, Ledger!LedgerNext

\* A larger number is a smaller one plus something.
LEMMA Distance == \A a, b \in Nat : a <= b => \E k \in Nat : b = a + k
PROOF
  <1> QED  OBVIOUS

\* The numbers up to n are finite, and n in number.
LEMMA UptoCount == \A n \in Nat : IsFiniteSet(1..n) /\ Cardinality(1..n) = n
PROOF
  <1> QED  BY FS_Interval

\* Positions behind a shorter history.
LEMMA Behind ==
    ASSUME NEW n \in Nat, NEW k \in Nat, NEW i \in 1..(n + k), i > n
    PROVE  i - n \in 1..k /\ n + (i - n) = i /\ ~(i <= n)
PROOF
  <1> QED  OBVIOUS

(* A request the server runs publishes what it accepts, or changes nothing. *)
LEMMA PushPublishes ==
    ASSUME LedgerInv, LedgerInv', [Next]_vars, UNCHANGED <<envelope, log, acked, cursor>>
    PROVE  Simulated
PROOF
  <1>0. HistoryFacts /\ HistoryFacts'
    BY HistoryIs, PTL
  <1>1. /\ head \in Nat /\ head' \in Nat /\ head <= head'
        /\ History \in Seq(Event) /\ Len(History) = head
        /\ History' \in Seq(Event) /\ Len(History') = head'
    BY <1>0, ServerPlaces DEF HistoryFacts, LedgerInv
  <1>k. \E k \in Nat : head' = head + k
    BY <1>1, Distance
  <1> PICK k \in Nat : head' = head + k
    BY <1>k
  <1> DEFINE line == [i \in 1..k |-> History'[head + i]]
             New == Ledger!Unpublished
  <1>2. /\ \A n \in 1..head : History[n] \in Stored /\ serverSeq[History[n]] = n
        /\ \A e \in Stored : serverSeq[e] \in 1..head /\ serverSeq'[e] = serverSeq[e]
        /\ \A e \in Stored' : serverSeq'[e] \in 1..head' /\ History'[serverSeq'[e]] = e
        /\ \A n \in 1..head' : History'[n] \in Stored' /\ serverSeq'[History'[n]] = n
    BY <1>0, ServerPlaces DEF HistoryFacts, LedgerInv
  <1>3. Stored \subseteq Stored' /\ Ledger!Published = Stored
    BY <1>0, StoredGrows DEF HistoryFacts, LedgerInv
  <1>4. ASSUME NEW n \in 1..head PROVE History'[n] = History[n]
    <2>1. History[n] \in Stored' /\ serverSeq'[History[n]] = n
      BY <1>2, <1>3
    <2> QED  BY <1>2, <2>1
  <1>5. ASSUME NEW n \in head + 1 .. head' PROVE History'[n] \in New
    <2>1. n \in 1..head'
      BY <1>1
    <2>2. History'[n] \in Stored' /\ serverSeq'[History'[n]] = n
      BY <1>2, <2>1
    <2>3. History'[n] \notin Stored
      BY <1>1, <1>2, <2>2
    <2>4. History'[n] \in Created' /\ Created' = Created
      BY <2>2 DEF LedgerInv, CursorInv, Known, Created
    <2>5. History'[n] \in Event
      BY <2>2 DEF Stored
    <2>6. Authors[History'[n]] # "none"
      BY <2>4, <2>5, AuthorIs DEF LedgerInv
    <2> QED  BY <1>3, <2>3, <2>5, <2>6 DEF Ledger!Unpublished, Authors
  <1>6. Authors' = Authors
    BY SameAuthors
  <1>7. CASE k = 0
    <2>1. History' = History
      <3>1. head' = head
        BY <1>1, <1>7
      <3> QED  BY <1>1, <1>4, <3>1, SeqEqual
    <2> QED  BY <1>6, <2>1 DEF Simulated, Ledger!ledgerVars, Authors
  <1>8. CASE k # 0
    <2>1. line \in Injection(1..k, New)
      <3>1. \A i \in 1..k : head + i \in head + 1 .. head' /\ head + i \in 1..head'
        BY <1>1
      <3>2. line \in [1..k -> New]
        BY <1>5, <3>1
      <3>3. \A i, j \in 1..k : line[i] = line[j] => i = j
        <4> TAKE i, j \in 1..k
        <4>1. line[i] = History'[head + i] /\ line[j] = History'[head + j]
          OBVIOUS
        <4> HIDE DEF line
        <4>2. line[i] = line[j] => head + i = head + j
          BY <1>2, <3>1, <4>1
        <4> QED  BY <1>1, <4>2
      <3> HIDE DEF line, New
      <3> QED  BY <3>2, <3>3 DEF Injection, IsInjective
    <2>2. line \in Ledger!Lines(New)
      <3>1. IsFiniteSet(New) /\ New \in SUBSET Event
        <4>1. New \in SUBSET Event
          BY DEF Ledger!Unpublished
        <4> QED  BY <4>1, EventFinite
      <3>2. IsFiniteSet(1..k) /\ Cardinality(1..k) = k
        BY UptoCount
      <3> HIDE DEF line, New
      <3>3. Cardinality(1..k) <= Cardinality(New) /\ Cardinality(New) \in Nat
        BY <2>1, <3>1, FS_Injection, FS_CardinalityType
      <3>4. k \in 1..Cardinality(New)
        BY <1>8, <3>2, <3>3
      <3>5. line \in Ledger!Injection(1..k, New)
        BY <2>1 DEF Ledger!Injection, Ledger!IsInjective, Injection, IsInjective
      <3> QED  BY <3>4, <3>5, SameCardinality DEF Ledger!Lines
    <2>3. History' = History \o line
      <3>1. line \in Seq(Event) /\ Len(line) = k
        <4>1. \A i \in 1..k : History'[head + i] \in Event
          <5>1. \A i \in 1..k : head + i \in head + 1 .. head'
            BY <1>1
          <5> QED  BY <1>5, <5>1 DEF Ledger!Unpublished
        <4>2. line \in [1..k -> Event]
          BY <4>1
        <4> HIDE DEF line
        <4> QED  BY <4>2, LenProperties
      <3>2. /\ History \o line \in Seq(Event) /\ Len(History \o line) = head + k
            /\ \A i \in 1 .. head + k :
                 (History \o line)[i] = IF i <= head THEN History[i] ELSE line[i - head]
        <4> HIDE DEF line
        <4> QED  BY <1>1, <3>1, ConcatProperties
      <3>3. \A i \in 1..head' : History'[i] = (History \o line)[i]
        <4> TAKE i \in 1..head'
        <4>1. CASE i <= head
          BY <1>1, <1>4, <3>2, <4>1
        <4>2. CASE i > head
          <5>1. i - head \in 1..k /\ head + (i - head) = i /\ ~(i <= head)
            BY <1>1, <4>2, Behind
          <5>2. line[i - head] = History'[i]
            BY <5>1
          <5>3. i \in 1 .. head + k
            BY <1>1
          <5> HIDE DEF line
          <5> QED  BY <3>2, <5>1, <5>2, <5>3
        <4> QED  BY <1>1, <4>1, <4>2
      <3> HIDE DEF line
      <3> QED  BY <1>1, <3>2, <3>3, SeqEqual
    <2> HIDE DEF line
    <2>4. Ledger!Publish
      BY <1>6, <2>2, <2>3 DEF Ledger!Publish, Authors
    <2> QED  BY <2>4 DEF Simulated, Ledger!LedgerNext
  <1> QED  BY <1>7, <1>8

(* A response confirms: rows the device has, events the history has.        *)
LEMMA ResponseConfirms ==
    ASSUME LedgerInv, NEW d \in Device, NEW s \in Slot, HandleResponse(d, s)
    PROVE  Simulated
PROOF
  <1> DEFINE S == Confirmed(push[d][s]) \cap log[d]
  <1>1. S \subseteq Stored /\ S \subseteq log[d] /\ S \in SUBSET Event
    BY DEF LedgerInv, CursorInv, AckInv, AnswersHold, TypeOK
  <1>2. acked' = [acked EXCEPT ![d] = @ \cup S] /\ UNCHANGED <<envelope, log, cursor, serverVars>>
    BY DEF HandleResponse
  <1>3. Ledger!Published = Stored
    BY HistoryIs DEF HistoryFacts
  <1> HIDE DEF S
  <1>4. Ledger!Confirm(d, S)
    BY <1>1, <1>2, <1>3, SameHistory, SameAuthors DEF Ledger!Confirm, Authors
  <1> QED  BY <1>1, <1>4 DEF Simulated, Ledger!LedgerNext

(* A pulled row is fetched, or only confirmed, or refused.                  *)
LEMMA RowIsFetched ==
    ASSUME LedgerInv, NEW d \in Device, NEW q \in Drain, IngestRow(d, q)
    PROVE  Simulated
PROOF
  <1>0. log \in [Device -> SUBSET Event] /\ acked \in [Device -> SUBSET Event]
    BY DEF LedgerInv, TypeOK
  <1>1. PICK e \in pull[d][q].rows :
          /\ log' = [log EXCEPT ![d] = IF Admissible(d, e) THEN @ \cup {e} ELSE @]
          /\ acked' = [acked EXCEPT ![d] = IF e \in log'[d] THEN @ \cup {e} ELSE @]
    BY DEF IngestRow
  <1>2. e \in Stored /\ e \in Event
    BY DEF LedgerInv, CursorInv, AckInv, PagesHold, Stored
  <1>3. UNCHANGED <<envelope, cursor, serverVars>> /\ Authors' = Authors /\ History' = History
    BY SameAuthors, SameHistory DEF IngestRow
  <1>4. Ledger!Published = Stored
    BY HistoryIs DEF HistoryFacts
  <1>5. CASE Admissible(d, e)
    <2>1. log' = [log EXCEPT ![d] = @ \cup {e}] /\ acked' = [acked EXCEPT ![d] = @ \cup {e}]
      BY <1>0, <1>1, <1>5
    <2>2. Ledger!Fetch(d, e)
      BY <1>2, <1>3, <1>4, <2>1 DEF Ledger!Fetch, Authors
    <2> QED  BY <1>2, <2>2 DEF Simulated, Ledger!LedgerNext
  <1>6. CASE ~Admissible(d, e)
    <2>1. log' = log
      BY <1>0, <1>1, <1>6
    <2>2. CASE e \in log[d]
      <3>1. acked' = [acked EXCEPT ![d] = @ \cup {e}] /\ {e} \in SUBSET Event
        BY <1>0, <1>1, <1>2, <2>1, <2>2
      <3>2. Ledger!Confirm(d, {e})
        BY <1>2, <1>3, <1>4, <2>1, <2>2, <3>1 DEF Ledger!Confirm, Authors
      <3> QED  BY <3>1, <3>2 DEF Simulated, Ledger!LedgerNext
    <2>3. CASE e \notin log[d]
      <3>1. acked' = acked
        BY <1>0, <1>1, <2>1, <2>3
      <3> QED  BY <1>3, <2>1, <3>1 DEF Simulated, Ledger!ledgerVars, Authors
    <2> QED  BY <2>2, <2>3
  <1> QED  BY <1>5, <1>6

(* A cursor that moves has read what it passes.                             *)
LEMMA CursorReads ==
    ASSUME LedgerInv, LedgerInv', NEW d \in Device, NEW q \in Drain, AdvanceCursor(d, q)
    PROVE  Simulated
PROOF
  <1> DEFINE n == cursor'[d]
  <1>0. HistoryFacts
    BY HistoryIs
  <1>1. /\ UNCHANGED <<envelope, log, acked, serverVars>> /\ Authors' = Authors /\ History' = History
        /\ Stored' = Stored /\ UNCHANGED <<serverSeq, head>>
    BY SameAuthors, SameHistory DEF AdvanceCursor, replicaVars, serverVars, Stored
  <1>2. cursor \in [Device -> Nat] /\ cursor' \in [Device -> Nat] /\ cursor'[d] <= head'
    BY DEF LedgerInv, TypeOK, CursorInv, WithinHead
  <1>3. cursor' = [cursor EXCEPT ![d] = n]
    BY <1>2 DEF AdvanceCursor
  <1>4. n \in 0..Len(History) /\ n \in Nat /\ Len(History) = head /\ n <= head /\ head \in Nat
    BY <1>0, <1>1, <1>2 DEF HistoryFacts
  <1> HIDE DEF n
  <1>5. ASSUME NEW i \in 1..n, Tolerated(Author(History[i]), d)
        PROVE  History[i] \in log[d]
    <2>1. i \in 1..head /\ i <= n
      BY <1>4
    <2>2. History[i] \in Stored /\ serverSeq[History[i]] = i
      BY <1>0, <2>1 DEF HistoryFacts
    <2>3. Author(History[i])' = Author(History[i])
      BY <1>1 DEF Author
    <2>4. \A e \in Stored' : serverSeq'[e] <= cursor'[d] /\ Tolerated(Author(e)', d) => e \in log'[d]
      BY DEF LedgerInv, CursorInv, CursorComplete
    <2>5. serverSeq'[History[i]] <= cursor'[d] /\ History[i] \in Stored'
      BY <1>1, <2>1, <2>2 DEF n
    <2>6. log'[d] = log[d]
      BY <1>1
    <2> QED  BY <1>1, <1>5, <2>3, <2>4, <2>5, <2>6 DEF Author
  <1>6. \A i \in 1..n : Authors[History[i]] = Author(History[i])
    <2> TAKE i \in 1..n
    <2>1. i \in 1..head
      BY <1>4
    <2>2. History[i] \in Event
      BY <1>0, <2>1 DEF HistoryFacts, Stored
    <2> QED  BY <2>2 DEF Authors
  <1>7. \A a : <<a, d>> \in {p \in Device \X Device : Tolerated(p[1], p[2])} => Tolerated(a, d)
    OBVIOUS
  <1>8. Ledger!Read(d, n)
    BY <1>1, <1>3, <1>5, <1>6, <1>7 DEF Ledger!Read, Authors
  <1> QED  BY <1>4, <1>8 DEF Simulated, Ledger!LedgerNext

(* A peer's event is relayed.                                               *)
LEMMA DeliveryRelays ==
    ASSUME LedgerInv, NEW from \in Device, NEW to \in Device, MeshDeliver(from, to)
    PROVE  Simulated
PROOF
  <1>1. PICK e \in log[from] : log' = [log EXCEPT ![to] = @ \cup {e}]
    BY DEF MeshDeliver
  <1>2. e \in Event
    BY DEF LedgerInv, TypeOK
  <1>3. UNCHANGED <<envelope, acked, cursor, serverVars>>
    BY DEF MeshDeliver
  <1>4. Ledger!Relay(from, to, e)
    BY <1>1, <1>3, SameAuthors, SameHistory DEF Ledger!Relay, Authors
  <1> QED  BY <1>2, <1>4 DEF Simulated, Ledger!LedgerNext

(* A lost database forgets.                                                 *)
LEMMA ResetForgets ==
    ASSUME LedgerInv, NEW d \in Device, LocalReset(d)
    PROVE  Simulated
PROOF
  <1>1. /\ log' = [log EXCEPT ![d] = {}] /\ acked' = [acked EXCEPT ![d] = {}]
        /\ cursor' = [cursor EXCEPT ![d] = 0] /\ UNCHANGED <<envelope, serverVars>>
    BY DEF LocalReset, Cleared
  <1>2. Ledger!Forget(d)
    BY <1>1, SameAuthors, SameHistory DEF Ledger!Forget, Authors
  <1> QED  BY <1>2 DEF Simulated, Ledger!LedgerNext

(* Every step of a device, the server, the mesh or time is one of the       *)
(* ledger, or none.                                                        *)
LEMMA EveryStepSimulated ==
    LedgerInv /\ LedgerInv' /\ [Next]_vars => [Ledger!LedgerNext]_(Ledger!ledgerVars)
PROOF
  <1> SUFFICES ASSUME LedgerInv, LedgerInv', [Next]_vars PROVE Simulated
    BY DEF Simulated
  <1>1. CASE UNCHANGED <<envelope, log, acked, cursor, serverVars>>
    BY <1>1, SameAuthors, SameHistory DEF Simulated, Ledger!ledgerVars, Authors
  <1>2. ASSUME NEW d \in Device, BackoffElapsed(d) \/ Crash(d) PROVE Simulated
    BY <1>1, <1>2 DEF BackoffElapsed, Crash, replicaVars
  <1>3. ASSUME NEW d \in Device, NEW s \in Slot, PushStep(d, s) PROVE Simulated
    <2>1. CASE ReadOutbox(d, s) \/ PushTimeout(d, s)
      BY <1>1, <2>1 DEF ReadOutbox, PushTimeout, replicaVars
    <2>2. CASE ServerPush(d, s)
      BY <2>2, PushPublishes DEF ServerPush, replicaVars
    <2> QED  BY <1>3, <2>1, <2>2, ResponseConfirms DEF PushStep
  <1>4. ASSUME NEW d \in Device, NEW q \in Drain, PullStep(d, q) PROVE Simulated
    <2>1. CASE OpenDrain(d, q) \/ FetchPage(d, q) \/ CloseDrain(d, q)
      BY <1>1, <2>1 DEF OpenDrain, FetchPage, CloseDrain, replicaVars
    <2> QED  BY <1>4, <2>1, RowIsFetched, CursorReads DEF PullStep
  <1>5. CASE ServerPushStray
    BY <1>5, PushPublishes DEF ServerPushStray, replicaVars
  <1>6. CASE Tick \/ UNCHANGED vars
    BY <1>1, <1>6 DEF Tick, vars, replicaVars
  <1> QED
    BY <1>2, <1>3, <1>4, <1>5, <1>6, AppendWrites, DeliveryRelays, ResetForgets DEF Next

\* The initial states map to initial states of the ledger.
LEMMA InitLedger == Init => Ledger!LedgerInit
PROOF
  <1> SUFFICES ASSUME Init PROVE Ledger!LedgerInit
    OBVIOUS
  <1>1. \A e \in Event : Author(e) = "none"
    BY DEF Init, Author, NoEvent
  <1>2. History = <<>>
    <2>1. head = 0
      BY DEF Init
    <2>2. History = [n \in 1..0 |-> CHOOSE e \in Stored : serverSeq[e] = n]
      BY <2>1 DEF History
    <2>3. History \in [1..0 -> Event] /\ 1..0 = {}
      BY <2>2
    <2>4. History \in Seq(Event) /\ Len(History) = 0
      BY <2>3, LenProperties
    <2> QED  BY <2>4, EmptySeq
  <1> QED  BY <1>1, <1>2 DEF Init, Ledger!LedgerInit

(* Devices, server and mesh are one replicated ledger: published history    *)
(* only grows at its end, a device holds what somebody could have sent it, *)
(* confirms what is published and reads past nothing it could accept, for  *)
(* any number of devices, events, overlapping pushes and drains, abandoned *)
(* requests and lost databases.                                            *)
THEOREM SyncIsALedger == Spec => ImplementsLedger
PROOF
  <1>1. Init => CursorInv /\ Chained
    BY InitCursorInv DEF Init, Chained, Stored
  <1>2. LedgerInv /\ [Next]_vars => LedgerInv'
    BY NextType, NextCursorInv, NextChained DEF LedgerInv, CursorInv
  <1>3. Init => LedgerInv
    BY <1>1, InitType DEF LedgerInv
  <1> QED  BY <1>2, <1>3, InitLedger, EveryStepSimulated, PTL DEF Spec, ImplementsLedger, Ledger!LedgerSpec
=============================================================================
