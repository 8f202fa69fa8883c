----------------------------- MODULE EventSync -----------------------------
(***************************************************************************)
(* One kaata (vault): the event logs of its devices, the outbox that       *)
(* pushes them to the server, the pages pulled back from it and the mesh   *)
(* that carries events between devices directly.                           *)
(*                                                                         *)
(* Translated from apps/mobile/lib/sync/{push,pull,cursor,scheduler}.ts,   *)
(* lib/projection/{index,ingest-row}.ts, lib/mesh/anti-entropy.ts and      *)
(* apps/backend/internal/sync/service.go.                                  *)
(*                                                                         *)
(* Abstractions.  An event is its id: ids are numbers handed out in the    *)
(* order events are created and stand for the logical part of the hybrid   *)
(* clock, of which only the physical part (pms) is kept.  Whether an event *)
(* has been applied to the projection is the subject of other modules.     *)
(* Time is counted in units of the largest lag that matters (a day).       *)
(***************************************************************************)
EXTENDS Integers, FiniteSets

CONSTANTS
    Device,      \* the installs that share the kaata
    Writer,      \* bound: the devices that create events
    MaxEvents,   \* bound: how many events are ever created
    Governance,  \* the events that are not user-ledger events (membership)
    Skew,        \* Skew[d]: how far d's wall clock is ahead of the server's
    Drift,       \* MAX_FORWARD_DRIFT_MS, the tickReceive clamp
    IngestCap,   \* FUTURE_HLC_CAP_MS, what a replica refuses to ingest
    ServerCap,   \* maxFutureHLCSkewMS, what the server refuses to accept
    MaxBatch,    \* MAX_BATCH_SIZE of one push
    PageSize,    \* DEFAULT_BATCH_LIMIT of one pull page
    Slot,        \* the pushes that may overlap: the tick's and pushVaultNow's
    Drain,       \* the pulls that may overlap: the sweep's and a poke's
    Vetoes,      \* the authorization refusals the run lets the server give
    MaxNow,      \* bound: the server clock
    MaxStray,    \* bound: abandoned requests still on their way
    MaxResets    \* bound: devices that lose their database

Event == 1..MaxEvents

ASSUME CountsAssumption ==
    /\ MaxEvents \in Nat /\ MaxNow \in Nat /\ MaxStray \in Nat /\ MaxResets \in Nat
    /\ MaxBatch \in Nat \ {0} /\ PageSize \in Nat \ {0}

ASSUME ClockAssumption ==
    /\ Drift \in Nat /\ IngestCap \in Nat /\ ServerCap \in Nat
    /\ Skew \in [Device -> Nat]

ASSUME KindAssumption ==
    /\ Governance \subseteq Event
    /\ Vetoes \subseteq {"held", "refused", "shared"}

ASSUME DeviceAssumption == Writer \subseteq Device /\ "none" \notin Device

VARIABLES
    now,        \* the server's clock
    envelope,   \* envelope[e]: the signed, immutable part of event e
    log,        \* log[d]: the events that have a row in d's event_log
    authorSeq,  \* authorSeq[d][e]: that row's author_seq, 0 for NULL
    acked,      \* acked[d]: rows with server_acked_at set
    refused,    \* refused[d]: rows with rejected_at set
    backoff,    \* backoff[d]: rows whose next_push_at lies in the future
    floor,      \* floor[d]: author_seq_floor of the kaata
    frontier,   \* frontier[d]: the physical part of hlc_last
    cursor,     \* cursor[d]: last_pulled_server_seq
    push,       \* push[d][s]: the push running in slot s
    pull,       \* pull[d][q]: the drain of pages running in q
    stray,      \* requests whose sender gave up; the server may still run them
    serverSeq,  \* serverSeq[e]: e's place in the server's log, 0 if absent
    slotSeq,    \* slotSeq[e]: the author_seq column of the server's row
    head,       \* MAX(server_seq) of the kaata
    wiped       \* the devices that lost their database once

replicaVars == <<log, authorSeq, acked, refused, backoff, floor, frontier>>
serverVars == <<serverSeq, slotSeq, head>>
vars == <<now, envelope, replicaVars, cursor, push, pull, stray,
          serverVars, wiped>>

NoEvent == [author |-> "none", pms |-> 0]
Envelope == [author : Device, pms : Nat]
Verdict == {"none", "accepted", "duplicate", "future", "held", "refused", "conflict"}
IdlePush == [phase |-> "idle", batch |-> {}, seq |-> [e \in Event |-> 0],
             verdict |-> [e \in Event |-> "none"]]
IdlePull == [phase |-> "idle", at |-> 0, next |-> 0, more |-> FALSE, rows |-> {},
             seq |-> [e \in Event |-> 0]]

Created == {e \in Event : envelope[e] # NoEvent}
Author(e) == envelope[e].author
Pms(e) == envelope[e].pms
Stored == {e \in Event : serverSeq[e] # 0}
Clock(d) == now + Skew[d]
Larger(a, b) == IF a >= b THEN a ELSE b
Upto(S) == CHOOSE n \in S \cup {0} : \A m \in S : m <= n

\* compareHLC: physical first, then what the id stands for
Before(e, f) == Pms(e) < Pms(f) \/ (Pms(e) = Pms(f) /\ e < f)

\* the first n members of S in HLC order
Earliest(S, n) == {e \in S : Cardinality({f \in S : Before(f, e)}) < n}

----------------------------------------------------------------------------
\* What a replica's event_log says.

\* rows still owed to the server: not acknowledged, not refused
Pending(d) == log[d] \ (acked[d] \cup refused[d])

\* ... of which the push SELECT skips those sitting out a backoff
Outbox(d) == Pending(d) \ backoff[d]

RowAt(d, a, n) == {e \in log[d] : Author(e) = a /\ authorSeq[d][e] = n}
OwnSeqs(d) == {authorSeq[d][e] : e \in {f \in log[d] : Author(f) = d}}

\* nextAuthorSeqInTx, raised to the conflict floor
NextAuthorSeq(d) == Larger(Upto(OwnSeqs(d)) + 1, floor[d])

\* author_seqs a replica can relay for author a; its vector entry is the
\* length of the hole-free run 1..n in this set
RelaySeqs(d, a) ==
    {authorSeq[d][e] : e \in {f \in log[d] \ refused[d] :
                                Author(f) = a /\ authorSeq[d][f] # 0}}
AboveMax(d, a, n) == \E m \in RelaySeqs(d, a) : n <= m  \* mutant: MAX, holes or not
Covers(d, a, n) == 1..n \subseteq RelaySeqs(d, a)

\* applyEventMutex: a page is ingested under one acquisition
MutexFree(d) == \A q \in Drain : pull[d][q].phase # "ingest"

----------------------------------------------------------------------------
\* A device writes to its own log.

(* applyEventInTransaction, local origin: tick the clock, number the event, *)
(* insert it unacknowledged.                                                *)
AppendEvent(d) ==
    \E e \in Event :
        LET pms == Larger(Clock(d), frontier[d]) IN
        /\ d \in Writer /\ MutexFree(d)
        /\ Created = 1..(e - 1)
        /\ envelope' = [envelope EXCEPT ![e] = [author |-> d, pms |-> pms]]
        /\ log' = [log EXCEPT ![d] = @ \cup {e}]
        /\ authorSeq' = [authorSeq EXCEPT ![d][e] = NextAuthorSeq(d)]
        /\ frontier' = [frontier EXCEPT ![d] = pms]
        /\ UNCHANGED <<now, acked, refused, backoff, floor, cursor, push,
                       pull, stray, serverVars, wiped>>

\* next_push_at passes
BackoffElapsed(d) ==
    \E e \in backoff[d] :
        /\ backoff' = [backoff EXCEPT ![d] = @ \ {e}]
        /\ UNCHANGED <<now, envelope, log, authorSeq, acked, refused, floor, frontier,
                       cursor, push, pull, stray, serverVars, wiped>>

----------------------------------------------------------------------------
\* Push, the client's half.

(* pushEvents reads its batch under the mutex and sends it.  Only the       *)
(* author's own rows carry their author_seq.                                *)
ReadOutbox(d, s) ==
    LET batch == Earliest(Outbox(d), MaxBatch) IN
    /\ push[d][s].phase = "idle"
    /\ MutexFree(d)
    /\ batch # {}
    /\ push' = [push EXCEPT ![d][s] =
          [IdlePush EXCEPT !.phase = "sent", !.batch = batch,
             !.seq = [e \in Event |-> IF e \in batch /\ Author(e) = d
                                      THEN authorSeq[d][e] ELSE 0]]]
    /\ UNCHANGED <<now, envelope, replicaVars, cursor, pull, stray,
                   serverVars, wiped>>

Judged(p, v) == {e \in p.batch : p.verdict[e] = v}
WholeBatch(p) == p.batch  \* mutant: an answer acknowledges whatever was sent
Confirmed(p) == Judged(p, "accepted") \cup Judged(p, "duplicate")
FutureToo(p) == Judged(p, "refused") \cup Judged(p, "future")  \* mutant: skew is final
Exiled(p) == Judged(p, "refused")

(* The response transaction.  A contested number is dropped, and the floor  *)
(* raised past it.                                                          *)
HandleResponse(d, s) ==
    LET p == push[d][s]
        strip == Judged(p, "conflict") \cap log[d]
    IN
    /\ p.phase = "answered"
    /\ MutexFree(d)
    /\ acked' = [acked EXCEPT ![d] = @ \cup (Confirmed(p) \cap log[d])]
    /\ refused' = [refused EXCEPT ![d] = @ \cup (Exiled(p) \cap log[d])]
    /\ backoff' = [backoff EXCEPT ![d] = @ \cup (Judged(p, "held") \cap log[d])]
    /\ authorSeq' = [authorSeq EXCEPT ![d] =
                        [e \in Event |-> IF e \in strip THEN 0 ELSE @[e]]]
    /\ floor' = [floor EXCEPT ![d] =
                    Larger(@, Upto({p.seq[e] + 1 : e \in {f \in Judged(p, "conflict") :
                                                            p.seq[f] # 0}}))]
    /\ push' = [push EXCEPT ![d][s] = IdlePush]
    /\ UNCHANGED <<now, envelope, log, frontier, cursor, pull, stray, serverVars, wiped>>

Request(d, p) == [device |-> d, batch |-> p.batch, seq |-> p.seq]

\* mutant: a request that timed out counts as delivered
TimeoutIsSuccess(d, s) ==
    /\ push[d][s].phase \in {"sent", "answered"}
    /\ acked' = [acked EXCEPT ![d] = @ \cup (push[d][s].batch \cap log[d])]
    /\ push' = [push EXCEPT ![d][s] = IdlePush]
    /\ UNCHANGED <<now, envelope, log, authorSeq, refused, backoff, floor, frontier,
                   cursor, pull, stray, serverVars, wiped>>

(* PUSH_TIMEOUT_MS or a lost connection: the client forgets the request; if *)
(* the server had not run it yet, it may still do so.                       *)
PushTimeout(d, s) ==
    LET p == push[d][s] IN
    /\ p.phase \in {"sent", "answered"}
    /\ stray' = IF p.phase = "sent" THEN stray \cup {Request(d, p)} ELSE stray
    /\ Cardinality(stray') <= MaxStray
    /\ push' = [push EXCEPT ![d][s] = IdlePush]
    /\ UNCHANGED <<now, envelope, replicaVars, cursor, pull,
                   serverVars, wiped>>

----------------------------------------------------------------------------
\* Push, the server's half.

Contested(e, seq) ==
    /\ seq[e] # 0
    /\ \E f \in Stored \ {e} : Author(f) = Author(e) /\ slotSeq[f] = seq[e]

(* PushEvents judges each event in turn.  held and barred are the events    *)
(* the authorization checks refuse on this request.                         *)
VerdictOf(e, r, held, barred) ==
    IF Pms(e) > now + ServerCap THEN "future"
    ELSE IF e \in held THEN "held"
    ELSE IF e \in barred THEN "refused"
    ELSE IF e \in Stored THEN "duplicate"
    ELSE IF Contested(e, r.seq) THEN "conflict"
    ELSE "accepted"

JudgeBatch(r, held, barred) ==
    [e \in Event |-> IF e \in r.batch THEN VerdictOf(e, r, held, barred) ELSE "none"]

\* Authorization is judged at the moment of the push, before anyone looks whether
\* the event is already stored.  A missing role or binding holds any event back
\* for a retry; other reasons refuse a governance event for good, and of the
\* ledger events only new ones (shared_tally_required).
Veto(v, S) == IF v \in Vetoes THEN S ELSE {}
Holdable(batch) == Veto("held", batch)
Refusable(batch) ==
    Veto("refused", batch \cap Governance) \cup Veto("shared", batch \ (Stored \cup Governance))

\* mutant: a counter per author
PlacePerAuthor(e, fresh) ==
    Upto({serverSeq[f] : f \in {g \in Stored : Author(g) = Author(e)}}) + 1

\* the next server_seq for each fresh event, in HLC order
Place(e, fresh) == head + 1 + Cardinality({f \in fresh : Before(f, e)})

\* mutant: server_seq follows HLC order, so a late event is inserted
SortedCommit(r, verdict) ==
    LET fresh == {e \in r.batch : verdict[e] = "accepted"}
        all == Stored \cup fresh
    IN
    /\ serverSeq' = [e \in Event |->
          IF e \in all THEN 1 + Cardinality({f \in all : Before(f, e)}) ELSE 0]
    /\ slotSeq' = [e \in Event |-> IF e \in fresh THEN r.seq[e] ELSE slotSeq[e]]
    /\ head' = Cardinality(all)

(* The transaction under the vault row's lock: fresh events are appended in *)
(* HLC order, a duplicate without a number adopts the one announced.        *)
Commit(r, verdict) ==
    LET fresh == {e \in r.batch : verdict[e] = "accepted"}
        adopt == {e \in r.batch : /\ verdict[e] = "duplicate"
                                  /\ slotSeq[e] = 0 /\ ~Contested(e, r.seq)}
    IN
    /\ serverSeq' = [e \in Event |->
          IF e \in fresh THEN Place(e, fresh) ELSE serverSeq[e]]
    /\ slotSeq' = [e \in Event |->
          IF e \in fresh \cup adopt THEN r.seq[e] ELSE slotSeq[e]]
    /\ head' = head + Cardinality(fresh)

ServerPush(d, s) ==
    LET p == push[d][s] IN
    /\ p.phase = "sent"
    /\ \E held \in SUBSET Holdable(p.batch), barred \in SUBSET Refusable(p.batch) :
         LET verdict == JudgeBatch(p, held, barred) IN
         /\ Commit(p, verdict)
         /\ push' = [push EXCEPT ![d][s] =
                        [phase |-> "answered", batch |-> p.batch, seq |-> p.seq,
                         verdict |-> verdict]]
    /\ UNCHANGED <<now, envelope, replicaVars, cursor, pull, stray, wiped>>

(* A request whose sender timed out or died reaches the server all the same *)
(* and nobody reads the answer.                                             *)
ServerPushStray ==
    \E r \in stray :
        /\ \E held \in SUBSET Holdable(r.batch), barred \in SUBSET Refusable(r.batch) :
             Commit(r, JudgeBatch(r, held, barred))
        /\ stray' = stray \ {r}
        /\ UNCHANGED <<now, envelope, replicaVars, cursor, push, pull, wiped>>

----------------------------------------------------------------------------
\* Pull: fetch a page, ingest it row by row, only then move the cursor.

After(n) == {e \in Stored : serverSeq[e] > n}
PageAfter(n) ==
    {e \in After(n) : Cardinality({f \in After(n) : serverSeq[f] < serverSeq[e]}) < PageSize}

HeadIsPageEnd(rows) == head  \* mutant: the server's head instead of the page's end
PageEnd(rows) == Upto({serverSeq[e] : e \in rows})

(* pullEvents reads the stored cursor once; the drain then keeps its own     *)
(* copy.  A drain with nothing to fetch changes nothing and is left out.    *)
OpenDrain(d, q) ==
    /\ pull[d][q].phase = "idle"
    /\ After(cursor[d]) # {}
    /\ pull' = [pull EXCEPT ![d][q] = [IdlePull EXCEPT !.phase = "open", !.at = cursor[d]]]
    /\ UNCHANGED <<now, envelope, replicaVars, cursor, push, stray, serverVars, wiped>>

\* Service.PullEvents answers fetchOnePage
FetchPage(d, q) ==
    LET p == pull[d][q]
        rows == PageAfter(p.at)
    IN
    /\ p.phase = "open"
    /\ rows # {}
    /\ pull' = [pull EXCEPT ![d][q] =
          [phase |-> "page", at |-> p.at, next |-> PageEnd(rows),
           more |-> Cardinality(rows) = PageSize, rows |-> rows,
           seq |-> [e \in Event |-> IF e \in rows THEN slotSeq[e] ELSE 0]]]
    /\ UNCHANGED <<now, envelope, replicaVars, cursor, push, stray, serverVars, wiped>>

\* the page is empty, the request fails, or a row's transaction throws
CloseDrain(d, q) ==
    /\ pull[d][q].phase \in {"open", "page", "ingest"}
    /\ pull' = [pull EXCEPT ![d][q] = IdlePull]
    /\ UNCHANGED <<now, envelope, replicaVars, cursor, push, stray, serverVars, wiped>>

\* ingestRowInTx refuses an event dated too far ahead of the replica's clock
Admissible(d, e) == Pms(e) <= Clock(d) + IngestCap

\* tickReceive, physical part: a peer too far ahead counts as "now"
Merged(d, e) ==
    Larger(Larger(Clock(d), frontier[d]),
           IF Pms(e) - Clock(d) > Drift THEN Clock(d) ELSE Pms(e))

AnnouncedSeq(d, e, n) ==  \* mutant: the slot is not looked up
    IF e \in log[d] /\ authorSeq[d][e] # 0 THEN authorSeq[d][e] ELSE n

\* resolveAuthorSeqSlot and the UPDATE OR IGNORE back-fill: keep the number the
\* row has, else take the announced one unless another row has it
ResolvedSeq(d, e, n) ==
    IF e \in log[d] /\ authorSeq[d][e] # 0 THEN authorSeq[d][e]
    ELSE IF n # 0 /\ RowAt(d, Author(e), n) \ {e} # {} THEN 0 ELSE n

\* one event of the page, in its own transaction (ingestPulledEvents)
IngestRow(d, q) ==
    LET p == pull[d][q] IN
    /\ p.phase = "ingest" \/ (p.phase = "page" /\ MutexFree(d))
    /\ \E e \in p.rows :
        /\ \A f \in p.rows : serverSeq[e] <= serverSeq[f]
        /\ log' = [log EXCEPT ![d] = IF Admissible(d, e) THEN @ \cup {e} ELSE @]
        /\ frontier' = [frontier EXCEPT ![d] = IF Admissible(d, e) THEN Merged(d, e) ELSE @]
        /\ acked' = [acked EXCEPT ![d] = IF e \in log'[d] THEN @ \cup {e} ELSE @]
        /\ authorSeq' = [authorSeq EXCEPT ![d][e] =
                            IF e \in log'[d] THEN ResolvedSeq(d, e, p.seq[e]) ELSE @]
        /\ pull' = [pull EXCEPT ![d][q] =
              [phase |-> IF p.rows = {e} THEN "done" ELSE "ingest", at |-> p.at,
               next |-> p.next, more |-> p.more, rows |-> p.rows \ {e}, seq |-> p.seq]]
    /\ UNCHANGED <<now, envelope, refused, backoff, floor, cursor, push,
                   stray, serverVars, wiped>>

AddPage(d, p) == cursor[d] + (p.next - p.at)  \* mutant: counts what others counted

(* setLastPulledServerSeq: the drain moves its own cursor forward and stores *)
(* it, whatever an overlapping drain has stored meanwhile.                   *)
NewCursor(d, p) == IF p.next > p.at THEN p.next ELSE cursor[d]

AdvanceCursor(d, q) ==
    LET p == pull[d][q] IN
    /\ p.phase = "done"
    /\ cursor' = [cursor EXCEPT ![d] = NewCursor(d, p)]
    /\ pull' = [pull EXCEPT ![d][q] =
          IF p.more THEN [IdlePull EXCEPT !.phase = "open", !.at = p.next] ELSE IdlePull]
    /\ UNCHANGED <<now, envelope, replicaVars, push, stray, serverVars, wiped>>

----------------------------------------------------------------------------
\* The mesh: one event of a planned range arrives at a peer that lacks it.

\* mutant: a relayed row is taken for a row pulled from the server
RelayedIsAcked(from, to) ==
    \E e \in log[from] \ (refused[from] \cup log[to]) :
        /\ authorSeq[from][e] # 0 /\ MutexFree(to) /\ Admissible(to, e)
        /\ log' = [log EXCEPT ![to] = @ \cup {e}]
        /\ acked' = [acked EXCEPT ![to] = @ \cup {e}]
        /\ authorSeq' = [authorSeq EXCEPT ![to][e] = ResolvedSeq(to, e, authorSeq[from][e])]
        /\ frontier' = [frontier EXCEPT ![to] = Merged(to, e)]
        /\ UNCHANGED <<now, envelope, refused, backoff, floor, cursor, push, pull,
                       stray, serverVars, wiped>>

(* The receiver's vector may be older than its log; a row it has already is *)
(* refused before the insert.  A relayed row is not known to the server, so *)
(* it is inserted unacknowledged.                                           *)
MeshDeliver(from, to) ==
    \E e \in log[from] \ (refused[from] \cup log[to]) :
        LET n == authorSeq[from][e] IN
        /\ n # 0 /\ Covers(from, Author(e), n) /\ ~Covers(to, Author(e), n)
        /\ MutexFree(to)
        /\ Admissible(to, e)
        /\ log' = [log EXCEPT ![to] = @ \cup {e}]
        /\ authorSeq' = [authorSeq EXCEPT ![to][e] = ResolvedSeq(to, e, n)]
        /\ frontier' = [frontier EXCEPT ![to] = Merged(to, e)]
        /\ UNCHANGED <<now, envelope, acked, refused, backoff, floor, cursor,
                       push, pull, stray, serverVars, wiped>>

----------------------------------------------------------------------------
\* Crashes, lost databases, time.

Unanswered(d) == {s \in Slot : push[d][s].phase = "sent"}
Orphans(d) == {Request(d, push[d][s]) : s \in Unanswered(d)}

\* the app is killed: the database stays, what was in flight does not
Crash(d) ==
    /\ \/ \E s \in Slot : push[d][s].phase # "idle"
       \/ \E q \in Drain : pull[d][q].phase # "idle"
    /\ stray' = stray \cup Orphans(d)
    /\ Cardinality(stray') <= MaxStray
    /\ push' = [push EXCEPT ![d] = [s \in Slot |-> IdlePush]]
    /\ pull' = [pull EXCEPT ![d] = [q \in Drain |-> IdlePull]]
    /\ UNCHANGED <<now, envelope, replicaVars, cursor, serverVars, wiped>>

FlagsSurvive(f, d) == f  \* mutant: the flags outlive the rows they are set on
Cleared(f, d) == [f EXCEPT ![d] = {}]

(* The "local reset" push.ts's seq_conflict branch is written for: the      *)
(* database is lost, the install id is not.                                 *)
LocalReset(d) ==
    /\ d \notin wiped /\ Cardinality(wiped) < MaxResets
    /\ wiped' = wiped \cup {d}
    /\ log' = [log EXCEPT ![d] = {}]
    /\ authorSeq' = [authorSeq EXCEPT ![d] = [e \in Event |-> 0]]
    /\ acked' = Cleared(acked, d)
    /\ refused' = Cleared(refused, d)
    /\ backoff' = Cleared(backoff, d)
    /\ floor' = [floor EXCEPT ![d] = 0]
    /\ frontier' = [frontier EXCEPT ![d] = 0]
    /\ cursor' = [cursor EXCEPT ![d] = 0]
    /\ stray' = stray \cup Orphans(d)
    /\ Cardinality(stray') <= MaxStray
    /\ push' = [push EXCEPT ![d] = [s \in Slot |-> IdlePush]]
    /\ pull' = [pull EXCEPT ![d] = [q \in Drain |-> IdlePull]]
    /\ UNCHANGED <<now, envelope, serverVars>>

Tick ==
    /\ now < MaxNow
    /\ now' = now + 1
    /\ UNCHANGED <<envelope, replicaVars, cursor, push, pull, stray,
                   serverVars, wiped>>

----------------------------------------------------------------------------
Init ==
    /\ now = 0 /\ head = 0 /\ stray = {} /\ wiped = {}
    /\ envelope = [e \in Event |-> NoEvent]
    /\ log = [d \in Device |-> {}]
    /\ authorSeq = [d \in Device |-> [e \in Event |-> 0]]
    /\ acked = [d \in Device |-> {}]
    /\ refused = [d \in Device |-> {}]
    /\ backoff = [d \in Device |-> {}]
    /\ floor = [d \in Device |-> 0]
    /\ frontier = [d \in Device |-> 0]
    /\ cursor = [d \in Device |-> 0]
    /\ push = [d \in Device |-> [s \in Slot |-> IdlePush]]
    /\ pull = [d \in Device |-> [q \in Drain |-> IdlePull]]
    /\ serverSeq = [e \in Event |-> 0]
    /\ slotSeq = [e \in Event |-> 0]

PushStep(d, s) ==
    \/ ReadOutbox(d, s)
    \/ ServerPush(d, s)
    \/ HandleResponse(d, s)
    \/ PushTimeout(d, s)

PullStep(d, q) ==
    \/ OpenDrain(d, q)
    \/ FetchPage(d, q)
    \/ CloseDrain(d, q)
    \/ IngestRow(d, q)
    \/ AdvanceCursor(d, q)

Next ==
    \/ \E d \in Device :
         \/ AppendEvent(d)
         \/ BackoffElapsed(d)
         \/ \E s \in Slot : PushStep(d, s)
         \/ \E q \in Drain : PullStep(d, q)
         \/ \E to \in Device \ {d} : MeshDeliver(d, to)
         \/ Crash(d)
         \/ LocalReset(d)
    \/ ServerPushStray
    \/ Tick

Spec == Init /\ [][Next]_vars

----------------------------------------------------------------------------
\* Correctness.

Bookkeeping(d) ==
    /\ acked[d] \subseteq log[d]
    /\ refused[d] \subseteq log[d]
    /\ backoff[d] \subseteq log[d]
    /\ \A e \in Event \ log[d] : authorSeq[d][e] = 0

PushRecord == [phase : {"idle", "sent", "answered"}, batch : SUBSET Event,
               seq : [Event -> Nat], verdict : [Event -> Verdict]]
PullRecord == [phase : {"idle", "open", "page", "ingest", "done"}, at : Nat, next : Nat,
               more : BOOLEAN, rows : SUBSET Event, seq : [Event -> Nat]]
StrayRecord == [device : Device, batch : SUBSET Event, seq : [Event -> Nat]]

\* Every variable keeps its shape, and flags are only ever set on rows that exist.
TypeOK ==
    /\ now \in Nat
    /\ envelope \in [Event -> Envelope \cup {NoEvent}]
    /\ log \in [Device -> SUBSET Event]
    /\ authorSeq \in [Device -> [Event -> Nat]]
    /\ acked \in [Device -> SUBSET Event]
    /\ refused \in [Device -> SUBSET Event]
    /\ backoff \in [Device -> SUBSET Event]
    /\ floor \in [Device -> Nat]
    /\ frontier \in [Device -> Nat]
    /\ cursor \in [Device -> Nat]
    /\ push \in [Device -> [Slot -> PushRecord]]
    /\ pull \in [Device -> [Drain -> PullRecord]]
    /\ \A r \in stray : r \in StrayRecord
    /\ serverSeq \in [Event -> Nat]
    /\ slotSeq \in [Event -> Nat]
    /\ head \in Nat
    /\ wiped \subseteq Device
    /\ \A d \in Device : Bookkeeping(d)

(* server_acked_at takes a row out of every outbox for good, so it may only *)
(* ever be set on an event the server has: whatever overlapping pushes,     *)
(* abandoned requests, pulled pages and mesh relays did in between          *)
(* (push.ts, ingest-row.ts).                                                *)
AckedIsStored == \A d \in Device : acked[d] \subseteq Stored

(* No event disappears: until the server has it, it is queued on the device *)
(* that created it.  Only the refusals meant to be final and the loss of    *)
(* the database end that (push.ts: skewed clocks, missing bindings and      *)
(* contested numbers delay an event and never drop it).                     *)
FinalVeto(e) == IF e \in Governance THEN "refused" ELSE "shared"
NothingLost ==
    \A e \in Created :
        \/ e \in Stored
        \/ e \in Pending(Author(e))
        \/ FinalVeto(e) \in Vetoes /\ e \in refused[Author(e)]
        \/ Author(e) \in wiped

(* The pull cursor "can never skip an event that isn't on disk" (pull.ts):  *)
(* true of every author whose clock the replica's ingest cap tolerates.     *)
Tolerated(a, d) == Skew[a] + Drift <= Skew[d] + IngestCap
CursorComplete ==
    \A d \in Device, e \in Stored :
        serverSeq[e] <= cursor[d] /\ Tolerated(Author(e), d) => e \in log[d]

(* The same without the tolerance: the comment as it stands.                *)
CursorNeverSkips ==
    \A d \in Device, e \in Stored : serverSeq[e] <= cursor[d] => e \in log[d]

(* The unique index on (vault, author device, author_seq) is never hit by   *)
(* the server's insert or adoption: a violation there aborts the whole      *)
(* batch (service.go, slot check).                                          *)
ServerSlotUnique ==
    \A e, f \in Stored :
        e # f /\ Author(e) = Author(f) /\ slotSeq[e] # 0 => slotSeq[e] # slotSeq[f]

(* The same index on a replica: hitting it would make INSERT OR IGNORE drop *)
(* an event as a duplicate (resolveAuthorSeqSlot, nextAuthorSeqInTx).       *)
ReplicaSlotUnique ==
    \A d \in Device : \A e, f \in log[d] :
        /\ e # f /\ Author(e) = Author(f) /\ authorSeq[d][e] # 0
        => authorSeq[d][e] # authorSeq[d][f]

(* A replica's vector entry n for an author is a promise that it holds the  *)
(* author's events 1..n; a peer never resends them.  Promised as long as no *)
(* device loses its database.                                               *)
VectorHonest ==
    wiped = {} =>
        \A d \in Device, e \in Created :
            LET n == authorSeq[Author(e)][e] IN
            n # 0 /\ Covers(d, Author(e), n) => e \in log[d]

(* The server's log is one totally ordered history: positions are distinct, *)
(* and every position up to the head is taken.                              *)
OneHistory ==
    \A n \in 1..head : \E e \in Stored : serverSeq[e] = n /\ \A f \in Stored \ {e} : serverSeq[f] # n

(* No number is used twice: no position of the history, and none of an      *)
(* author's sequence numbers, at the server or on a replica, whatever       *)
(* retries, late requests, adoptions and lost databases do.                 *)
NumbersUnique == OneHistory /\ ServerSlotUnique /\ ReplicaSlotUnique

(* Nothing is inserted into the part of the history a replica has read:     *)
(* what the server commits lies beyond every cursor and every page in hand. *)
CommitsBeyondCursors ==
    [][\A e \in Stored' \ Stored, d \in Device :
         /\ serverSeq'[e] > cursor[d]
         /\ \A q \in Drain : serverSeq'[e] > pull[d][q].next]_vars

----------------------------------------------------------------------------
\* The abstract specification.

History == [n \in 1..head |-> CHOOSE e \in Stored : serverSeq[e] = n]

Ledger == INSTANCE ReplicatedLedger WITH
    Nobody <- "none",
    Trusted <- {p \in Device \X Device : Tolerated(p[1], p[2])},
    author <- [e \in Event |-> Author(e)],
    history <- History, has <- log, confirmed <- acked, seen <- cursor

(* Devices, server and mesh together are one replicated ledger: no step of  *)
(* any of them inserts, drops or reorders published history, gives an event *)
(* to a device nobody could have sent it to, confirms what is not published *)
(* or what the device does not hold, or reads past what it could accept.    *)
ImplementsLedger == Ledger!LedgerSpec
=============================================================================
