------------------------------- MODULE LiveSync -------------------------------
(***************************************************************************)
(* An event on its way from the phone that writes it to a phone that only  *)
(* reads: pushVaultNow, the server's push handler and its poke, the live   *)
(* socket, and the scheduler that turns pokes, timers, sweeps and the      *)
(* return of the network into pulls (apps/mobile/lib/sync/scheduler.ts and *)
(* live.ts, apps/backend/internal/sync/live.go and service.go).            *)
(*                                                                         *)
(* Time is left out: a timer that is set may fire.  The kaata is either    *)
(* the reader's active one, which its tick pulls, or another, which pokes  *)
(* and sweeps pull.  A page is ingested whole; module EventSync has rows.  *)
(***************************************************************************)
EXTENDS PullCache, Sequences

CONSTANTS
    Buffer,      \* livePokeBuffer
    SweepEvery,  \* SWEEP_EVERY_N successful ticks
    MaxTurns     \* bound: events, redactions and faults, together

ASSUME LiveAssumption ==
    /\ Reader = {"main", "sweep"}
    /\ Buffer \in Nat \ {0} /\ SweepEvery \in Nat \ {0} /\ MaxTurns \in Nat

VARIABLES
    written, acked,  \* the writer's events, and those with server_acked_at
    flight,          \* its pushVaultNow
    failed,          \* history: its last push failed
    link,            \* the reader's socket: down, up, or mute (dead, unnoticed)
    queue,           \* the frames the broker holds for it
    lost,            \* history: a poke of this kaata came to nothing
    active,          \* this kaata is the one open on the reader
    front, online,   \* the app's state, the network's
    timers,          \* setTimeout: "tick", "poke"
    running,         \* inFlight, pokePullInFlight, sweepInFlight
    again,           \* pokePullDirty
    cycles,          \* cyclesSinceSweep
    at,              \* each drain's own cursor
    cursor, has,     \* last_pulled_server_seq and what is stored
    faults

writerVars == <<written, acked, flight, failed>>
socketVars == <<link, queue, lost>>
drainVars == <<at, cursor, has>>
phoneVars == <<active, front, online, timers, running, again, cycles>>
vars == <<cacheVars, writerVars, socketVars, drainVars, phoneVars, faults>>

Job == {"tick", "poke", "sweep"}

\* The request a job pulls this kaata with, and whether it does.
Client(j) == IF j = "sweep" THEN "sweep" ELSE "main"
Pulls(j) == (j = "tick") = active

Idle == [phase |-> "idle", upto |-> 0, again |-> FALSE]

NoTrailing == Idle  \* mutant: the dirty flag is not looked at

\* A push ends: a write that came meanwhile is pushed at once.
Finished == IF flight.again THEN [Idle EXCEPT !.phase = "reading"] ELSE Idle

\* What may still happen: an event, a redaction or a fault, which is a request
\* that fails, a socket that dies, a lost network, a restart, a trip to the
\* background or a poke of another kaata.
Turn == written + Cardinality(direct) + Cardinality(redacted) + faults < MaxTurns
NewEvent == Turn /\ written + Cardinality(direct) < MaxEvents
Fault == Turn /\ faults' = faults + 1

-----------------------------------------------------------------------------
(* The writer *)

\* onLedgerApplied, local: pushVaultNow, or its dirty flag.
Write ==
    /\ NewEvent
    /\ written' = written + 1
    /\ flight' = IF flight.phase = "idle" THEN [Idle EXCEPT !.phase = "reading"]
                 ELSE [flight EXCEPT !.again = TRUE]
    /\ UNCHANGED <<cacheVars, acked, failed, socketVars, drainVars, phoneVars, faults>>

ReadOutbox ==
    /\ flight.phase = "reading"
    /\ flight' = IF acked = written THEN Finished
                 ELSE [flight EXCEPT !.phase = "sent", !.upto = written]
    /\ UNCHANGED <<cacheVars, written, acked, failed, socketVars, drainVars, phoneVars, faults>>

\* PushEvents commits what is new of the batch; the rest are duplicates.
Land ==
    LET new == flight.upto - (head - Cardinality(direct)) IN
    /\ flight.phase = "sent"
    /\ IF new > 0 THEN Commit(new) ELSE UNCHANGED cacheVars
    /\ flight' = [flight EXCEPT !.phase = "landed"]
    /\ UNCHANGED <<written, acked, failed, socketVars, drainVars, phoneVars, faults>>

\* The answer leaves after the purge and the poke.
Answer ==
    /\ flight.phase = "landed" /\ owed = 0 /\ unsaid = 0
    /\ acked' = flight.upto /\ failed' = FALSE
    /\ flight' = Finished
    /\ UNCHANGED <<cacheVars, written, socketVars, drainVars, phoneVars, faults>>

\* Offline, a timeout, a refusal: before the commit or after it.
PushFails ==
    /\ flight.phase # "idle" /\ Fault
    /\ flight' = Finished /\ failed' = TRUE
    /\ UNCHANGED <<cacheVars, written, acked, socketVars, drainVars, phoneVars>>

\* The writer's own tick, sweep or drainAllOutboxes finds rows to push.
Retry ==
    /\ flight.phase = "idle" /\ acked < written
    /\ flight' = [Idle EXCEPT !.phase = "reading"]
    /\ UNCHANGED <<cacheVars, written, acked, failed, socketVars, drainVars, phoneVars, faults>>

-----------------------------------------------------------------------------
(* Pokes and the socket *)

\* A poke of this kaata waits in the broker's buffer.
Queued == \E i \in DOMAIN queue : queue[i] = "this"

\* NotifyLive: the frame is queued, or dropped when the buffer is full; with one
\* of this kaata before it nothing is lost.
PokeReader ==
    /\ Poke
    /\ IF link # "down" /\ Len(queue) < Buffer
       THEN queue' = Append(queue, "this") /\ UNCHANGED lost
       ELSE lost' = (lost \/ ~Queued) /\ UNCHANGED queue
    /\ UNCHANGED <<writerVars, link, drainVars, phoneVars, faults>>

\* A frame of another kaata, or of a shared tab, in the same buffer.
PokeOther ==
    /\ link # "down" /\ Len(queue) < Buffer /\ Fault
    /\ queue' = Append(queue, "other")
    /\ UNCHANGED <<cacheVars, writerVars, link, lost, drainVars, phoneVars>>

\* onPoke: one timer per kaata.
Deliver ==
    /\ link = "up" /\ queue # <<>>
    /\ queue' = Tail(queue)
    /\ timers' = IF Head(queue) = "this" THEN timers \cup {"poke"} ELSE timers
    /\ UNCHANGED <<cacheVars, writerVars, link, lost, drainVars, active, front, online,
                   running, again, cycles, faults>>

\* What was queued for a socket goes with it.
Cut(state) ==
    /\ link' = state
    /\ queue' = IF state = "down" THEN <<>> ELSE queue
    /\ lost' = (lost \/ (state = "down" /\ Queued))

\* requestTick: a tick in flight sets the timer when it ends.
TickRequested == IF "tick" \in running THEN timers ELSE timers \cup {"tick"}

\* A job reads the stored cursor as it starts.
Begin(jobs) ==
    /\ running' = running \cup jobs
    /\ at' = [r \in Reader |->
                IF \E j \in jobs \ running : Client(j) = r /\ Pulls(j) THEN cursor ELSE at[r]]

\* dial, onopen: a tick and a sweep make up for the pokes that were lost.
Dial ==
    /\ link = "down" /\ front /\ online
    /\ link' = "up"
    /\ timers' = TickRequested
    /\ Begin({"sweep"})
    /\ UNCHANGED <<cacheVars, writerVars, queue, lost, cursor, has, active, front, online,
                   again, cycles, faults>>

\* The connection closes, or dies unnoticed; the watchdog or the server's pings
\* find the dead one out.
SocketDies ==
    /\ link = "up" /\ Fault
    /\ \E state \in {"down", "mute"} : Cut(state)
    /\ UNCHANGED <<cacheVars, writerVars, drainVars, phoneVars>>

Watchdog ==
    /\ link = "mute"
    /\ Cut("down")
    /\ UNCHANGED <<cacheVars, writerVars, drainVars, phoneVars, faults>>

-----------------------------------------------------------------------------
(* The reader's scheduler *)

\* tick: a second one leaves a flag, and the first sets the timer as it ends.
FireTick ==
    /\ "tick" \in timers
    /\ timers' = timers \ {"tick"}
    /\ Begin({"tick"})
    /\ UNCHANGED <<cacheVars, writerVars, socketVars, cursor, has, active, front, online,
                   again, cycles, faults>>

Swallowed == again  \* mutant: a poke that lands mid-pull is dropped
Noted == "poke" \in running

\* The poke's debounce ends: the active kaata's tick, or a pull of its own.
FirePoke ==
    /\ "poke" \in timers
    /\ IF active
       THEN timers' = (timers \ {"poke"}) \cup {"tick"} /\ UNCHANGED <<running, at, again>>
       ELSE /\ timers' = timers \ {"poke"}
            /\ again' = Noted
            /\ Begin({"poke"})
    /\ UNCHANGED <<cacheVars, writerVars, socketVars, cursor, has, active, front, online,
                   cycles, faults>>

StopOnError(good) == IF good THEN timers \cup {"tick"} ELSE timers  \* mutant
Rescheduled(good) == timers \cup {"tick"}

\* How a job ends, with the cursor it leaves behind: a tick sets its timer,
\* whatever came of it, and every SweepEvery good ones start a sweep.
TickEnds(good) ==
    LET sweeps == good /\ cycles + 1 >= SweepEvery IN
    /\ timers' = Rescheduled(good)
    /\ running' = (running \ {"tick"}) \cup IF sweeps THEN {"sweep"} ELSE {}
    /\ at' = IF sweeps /\ "sweep" \notin running /\ Pulls("sweep")
             THEN [at EXCEPT !["sweep"] = cursor'] ELSE at
    /\ cycles' = IF good /\ cycles < SweepEvery THEN cycles + 1 ELSE cycles
    /\ UNCHANGED <<again, lost>>

\* A poke that came mid-pull starts another.
PokeEnds(good) ==
    /\ running' = IF again THEN running ELSE running \ {"poke"}
    /\ at' = IF again THEN [at EXCEPT !["main"] = cursor'] ELSE at
    /\ again' = FALSE
    /\ lost' = (lost \/ ~good)
    /\ UNCHANGED <<timers, cycles>>

SweepEnds ==
    /\ running' = running \ {"sweep"}
    /\ cycles' = 0
    /\ UNCHANGED <<timers, at, again, lost>>

End(j, good) ==
    \/ j = "tick" /\ TickEnds(good)
    \/ j = "poke" /\ PokeEnds(good)
    \/ j = "sweep" /\ SweepEnds

\* A tick of another kaata, a sweep that passes the active one over.
OtherKaata(j) ==
    /\ j \in running /\ ~Pulls(j)
    /\ UNCHANGED <<cursor, has>>
    /\ End(j, online)
    /\ UNCHANGED <<cacheVars, writerVars, link, queue, active, front, online, faults>>

\* fetchOnePage; without a network the drain is over before it starts.
AskPage(j) ==
    /\ j \in running /\ Pulls(j) /\ online
    /\ Ask(Client(j), at[Client(j)])
    /\ UNCHANGED <<writerVars, socketVars, drainVars, phoneVars, faults>>

CountedRows(r, page) == cursor + Cardinality(page.rows)  \* mutant: relative, not absolute
NewCursor(r, page) == IF page.next > at[r] THEN page.next ELSE cursor

\* The page is stored, then the cursor moves; a full page is not the last.
TakePage(j) ==
    LET r == Client(j)
        page == req[r].page
        next == IF page.next > at[r] THEN page.next ELSE at[r]
    IN
    /\ j \in running /\ Pulls(j)
    /\ req[r].phase = "reply" /\ page # NoPage
    /\ has' = has \cup page.rows
    /\ cursor' = NewCursor(r, page)
    /\ Leave(r)
    /\ IF page.more
       THEN at' = [at EXCEPT ![r] = next] /\ UNCHANGED <<timers, running, again, cycles, lost>>
       ELSE End(j, TRUE)
    /\ UNCHANGED <<writerVars, link, queue, active, front, online, faults>>

\* No network, or an error for an answer.
Hopeless(j) == ~online \/ Failed(Client(j))

\* The request fails, or there is no network to send it over: the drain is over,
\* and the pages it stored stay.
PullFails(j) ==
    LET r == Client(j) IN
    /\ j \in running /\ Pulls(j)
    /\ IF Hopeless(j) THEN UNCHANGED faults ELSE Fault
    /\ IF req[r].phase = "idle" THEN UNCHANGED cacheVars ELSE Leave(r)
    /\ UNCHANGED <<cursor, has>>
    /\ End(j, FALSE)
    /\ UNCHANGED <<writerVars, link, queue, active, front, online>>

-----------------------------------------------------------------------------
(* The app, the network, the server's process *)

Background ==
    /\ front /\ Fault
    /\ front' = FALSE
    /\ Cut("down")
    /\ UNCHANGED <<cacheVars, writerVars, drainVars, active, online, timers, running, again, cycles>>

Foreground ==
    /\ ~front /\ front' = TRUE
    /\ timers' = timers \cup {"tick"}
    /\ Begin({"sweep"})
    /\ UNCHANGED <<cacheVars, writerVars, socketVars, cursor, has, active, online, again, cycles, faults>>

NetworkLost ==
    /\ online /\ Fault
    /\ online' = FALSE
    /\ Cut(IF link = "up" THEN "mute" ELSE link)
    /\ UNCHANGED <<cacheVars, writerVars, drainVars, active, front, timers, running, again, cycles>>

NetworkBack ==
    /\ ~online /\ online' = TRUE
    /\ timers' = TickRequested
    /\ Begin({"sweep"})
    /\ UNCHANGED <<cacheVars, writerVars, socketVars, cursor, has, active, front, again, cycles, faults>>

\* The server restarts: the broker goes too, and pushes under way fail.
Restart ==
    /\ Fault
    /\ Crash
    /\ flight' = IF flight.phase \in {"sent", "landed"} THEN Finished ELSE flight
    /\ failed' = (failed \/ flight.phase \in {"sent", "landed"})
    /\ link' = "down" /\ queue' = <<>>
    /\ lost' = (lost \/ owed + unsaid > 0 \/ Queued)
    /\ UNCHANGED <<written, acked, drainVars, phoneVars>>

-----------------------------------------------------------------------------
\* startSyncScheduler: a tick, a sweep, and the socket is dialled.
Init ==
    /\ CacheInit
    /\ written = 0 /\ acked = 0 /\ flight = Idle /\ failed = FALSE
    /\ link = "down" /\ queue = <<>> /\ lost = FALSE
    /\ active \in BOOLEAN /\ front = TRUE /\ online = TRUE
    /\ timers = {"tick"} /\ running = {"sweep"} /\ again = FALSE /\ cycles = 0
    /\ at = [r \in Reader |-> 0] /\ cursor = 0 /\ has = {}
    /\ faults = 0

Writer == Write \/ ReadOutbox \/ Land \/ Answer \/ PushFails \/ Retry

Untouched == UNCHANGED <<writerVars, socketVars, drainVars, phoneVars, faults>>

Server ==
    \/ \E r \in Reader : (Enter(r) \/ PageQuery(r) \/ Fill(r)) /\ Untouched
    \/ Purge /\ Untouched
    \/ \E a \in Position : Expire(a) /\ Untouched
    \/ NewEvent /\ Transfer /\ Untouched
    \/ \E e \in 1..MaxEvents : Turn /\ Redact(e) /\ Untouched
    \/ PokeReader \/ PokeOther \/ Restart

Phone ==
    \/ Deliver \/ Dial \/ SocketDies \/ Watchdog
    \/ FireTick \/ FirePoke
    \/ \E j \in Job : OtherKaata(j) \/ AskPage(j) \/ TakePage(j) \/ PullFails(j)
    \/ Background \/ Foreground \/ NetworkLost \/ NetworkBack

Next == Writer \/ Server \/ Phone

Fairness ==
    /\ WF_vars(ReadOutbox) /\ WF_vars(Land) /\ WF_vars(Answer) /\ WF_vars(Retry)
    /\ SF_vars(Purge /\ Untouched) /\ WF_vars(PokeReader)
    /\ \A r \in Reader :
         SF_vars(Enter(r) /\ Untouched) /\ WF_vars((PageQuery(r) \/ Fill(r)) /\ Untouched)
    /\ \A a \in Position : WF_vars(Expire(a) /\ Untouched)
    /\ WF_vars(FireTick) /\ WF_vars(FirePoke) /\ WF_vars(NetworkBack)
    /\ \A j \in Job : WF_vars(OtherKaata(j) \/ AskPage(j) \/ TakePage(j)
                              \/ (Hopeless(j) /\ PullFails(j)))

Spec == Init /\ [][Next]_vars
FairSpec == Spec /\ Fairness

-----------------------------------------------------------------------------
(* Properties *)

(* Every variable keeps its shape, and the scheduler its loop: a tick is set *)
(* or runs, and the active kaata is never pulled by a poke as well.        *)
TypeOK ==
    /\ CacheTypeOK
    /\ written \in 0..MaxEvents /\ acked \in 0..written
    /\ flight.phase \in {"idle", "reading", "sent", "landed"} /\ flight.upto \in 0..written
    /\ link \in {"down", "up", "mute"} /\ Len(queue) <= Buffer
    /\ "tick" \in timers \cup running
    /\ running \subseteq Job /\ (active => "poke" \notin running)
    /\ cursor \in 0..head /\ has \subseteq 1..head

(* A write that comes while a push runs, even one that comes after the      *)
(* outbox was read, is not left for the next timer: unless the last push    *)
(* failed, the writer is idle only with everything acknowledged             *)
(* (pushVaultNow's dirty flag).                                             *)
WriteIsOnItsWay == acked < written /\ flight.phase = "idle" => failed

(* The cursor steps over nothing but redacted events and those on disk,     *)
(* whatever pages the cache serves, however old, and however two drains of  *)
(* the kaata, each with its own idea of the cursor, overwrite each other's  *)
(* (pullEvents, setLastPulledServerSeq, PullEvents' high-water query).      *)
CursorCovers == \A e \in 1..cursor : e \in has \cup redacted

Undelivered == Live \ (has \cup direct)

(* An event the reader lacks is announced: unless one of its pokes came to  *)
(* nothing, the purge, the poke, its frame, its timer or the pull is still  *)
(* to come, and a pull that began before the event counts only when the     *)
(* cache can no longer hide it (onPoke, pokePullDirty; service.go purges    *)
(* before it pokes).                                                        *)
PokesSuffice ==
    ~active /\ ~lost /\ Undelivered # {} =>
        \/ owed > 0 \/ unsaid > 0
        \/ Queued
        \/ "poke" \in timers \cup running

(* Every event reaches the server and then the reader, whatever pokes were  *)
(* dropped, sockets died unnoticed, pushes failed or pages were cached:     *)
(* the polls and the pages' lifetime make up for them ("polling continues   *)
(* to exist as the backstop", live.go).                                     *)
Arrives == <>[](acked = written /\ Live \subseteq has)
=============================================================================
