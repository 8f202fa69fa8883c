------------------------------ MODULE MutualTab ------------------------------
(***************************************************************************)
(* A mutual tab: one account two shops share.  The server keeps its        *)
(* entries under one revision counter (backend/internal/tabs/service.go);  *)
(* every phone of the two parties keeps a copy, shows its own changes      *)
(* before the server has seen them, and queues them in tab_outbox          *)
(* (mobile/lib/tabs/{link,db,sync}.ts).                                    *)
(*                                                                         *)
(* Abstractions.  The reversing row of a withdrawal shares its revision    *)
(* with the withdrawn entry and is left out; so are labels, settlements,   *)
(* joining, the reasons of rejections (all alike) and the notify-only      *)
(* recording modes: every account here is reviewed.                        *)
(***************************************************************************)
EXTENDS Naturals, FiniteSets

CONSTANTS
    Phone,      \* phones that hold the tab
    Other,      \* devices known by their requests only: phones, the web page
    Party,      \* Party[p]: the side device p is on
    Entry,      \* the tallies that may be written
    By,         \* By[e]: the device that writes e
    MaxOps,     \* bound: changes queued on one phone
    MaxFaults,  \* bound: requests timed out, pulls that fail, kills
    NoEntry     \* what a close is about

ASSUME TabAssumption ==
    /\ Phone \cap Other = {}
    /\ By \in [Entry -> Phone \cup Other]
    /\ MaxOps \in Nat /\ MaxFaults \in Nat
    /\ NoEntry \notin Entry

VARIABLES
    grouped,    \* the tab is one currency of a group of tabs
    limited,    \* phones of a kaata with a hard credit limit
    demotable,  \* phones whose member may lose the right to write
    rev,        \* tabs.rev
    closed,     \* tabs.closed_at is set
    row,        \* tab_entries of the server
    barred,     \* customer_credit_tab_refusals: appends refused once
    cache,      \* cache[p]: tab_entries of phone p
    cursor,     \* cursor[p]: tab_links.rev
    shut,       \* shut[p]: tab_links.closed_at is set
    outbox,     \* outbox[p]: tab_outbox
    waiting,    \* waiting[p]: its operations that sit out a backoff
    failed,     \* failed[p]: tab_failed_ops
    tapped,     \* tapped[p]: entries reviewed from their notification
    full,       \* full[p]: the tab is in needFullPull
    run,        \* run[p]: the run of syncTab
    view,       \* view[p]: a group response on its way to cacheGroup
    stray,      \* requests given up by their phone that may still arrive
    wrote,      \* history: wrote[p], every operation p has queued
    did,        \* history: the operations that changed the server
    faults

account == <<grouped, limited, demotable>>
server == <<rev, closed, row, barred>>
copy == <<cache, cursor, shut>>
queue == <<outbox, waiting, failed>>
intent == <<tapped, wrote>>
vars == <<account, server, copy, queue, intent, full, run, view, stray, did, faults>>

Status == {"pending", "accepted", "disputed"}
Row == [rev : Nat, status : Status, void : BOOLEAN]
NoRow == [rev |-> 0, status |-> "none", void |-> FALSE]
Copy(r) == [row |-> r, local |-> FALSE, mark |-> FALSE]

Kind == {"append", "accepted", "disputed", "void", "close"}
Op == {o \in [n : 1..MaxOps, kind : Kind, entry : Entry \cup {NoEntry}] :
          o.entry = NoEntry <=> o.kind = "close"}
NoOp == [n |-> 0, kind |-> "none", entry |-> NoEntry]

\* TabResponse
NoAnswer == [verdict |-> "none", rev |-> 0, closed |-> FALSE, full |-> FALSE,
             row |-> [e \in Entry |-> NoRow]]
Answer == [verdict : {"none", "ok", "refused"}, rev : Nat, closed : BOOLEAN,
           full : BOOLEAN, row : [Entry -> Row \cup {NoRow}]]

IdleRun == [phase |-> "idle", todo |-> {}, op |-> NoOp, after |-> 0, answer |-> NoAnswer]
Flushing(S) == [IdleRun EXCEPT !.phase = "flush", !.todo = S]

Init ==
    /\ grouped \in BOOLEAN /\ limited \in SUBSET Phone /\ demotable \in SUBSET Phone
    /\ rev = 0 /\ closed = FALSE /\ barred = {}
    /\ row = [e \in Entry |-> NoRow]
    /\ cache = [p \in Phone |-> [e \in Entry |-> Copy(NoRow)]]
    /\ cursor = [p \in Phone |-> 0]
    /\ shut = [p \in Phone |-> FALSE]
    /\ outbox = [p \in Phone |-> {}]
    /\ waiting = [p \in Phone |-> {}]
    /\ failed = [p \in Phone |-> {}]
    /\ tapped = [p \in Phone |-> {}]
    /\ full = [p \in Phone |-> FALSE]
    /\ run = [p \in Phone |-> IdleRun]
    /\ view = [p \in Phone |-> NoAnswer]
    /\ stray = {}
    /\ wrote = [p \in Phone |-> {}]
    /\ did = {}
    /\ faults = 0

Pending(r) == r.status = "pending" /\ ~r.void
Theirs(p, e) == Party[By[e]] # Party[p]

----------------------------------------------------------------------------
\* What a phone's user does: the visible change and its operation are one
\* transaction (queueTabMutation).  Behind a hard credit limit nothing is
\* shown before the server has confirmed it, and one change of an entry waits
\* at a time.

Queue(p, kind, e) ==
    LET o == [n |-> Cardinality(wrote[p]) + 1, kind |-> kind, entry |-> e]
    IN  /\ Cardinality(wrote[p]) < MaxOps
        /\ outbox' = [outbox EXCEPT ![p] = @ \cup {o}]
        /\ wrote' = [wrote EXCEPT ![p] = @ \cup {o}]
        /\ UNCHANGED <<account, server, cursor, waiting, failed, full, run, view,
                       stray, did, faults>>

Show(p, e, c) ==
    cache' = [cache EXCEPT ![p][e] = IF p \in limited THEN @ ELSE c]

\* One decision waits at a time where nothing of it is shown.
NoneWaits(p, e) ==
    p \in limited =>
        ~ \E o \in outbox[p] : o.entry = e /\ o.kind \in {"accepted", "disputed", "void"}

AddEntry(p, e) ==
    /\ By[e] = p /\ ~shut[p]
    /\ ~ \E o \in wrote[p] : o.kind = "append" /\ o.entry = e
    /\ Show(p, e, [row |-> [rev |-> 0, status |-> "pending", void |-> FALSE],
                   local |-> TRUE, mark |-> FALSE])
    /\ Queue(p, "append", e)
    /\ UNCHANGED <<shut, tapped>>

\* mutant: a decision shown as if the server had confirmed it
Unmarked(p, e, status) ==
    /\ Pending(cache[p][e].row) /\ Theirs(p, e) /\ NoneWaits(p, e)
    /\ Show(p, e, [cache[p][e] EXCEPT !.row.status = status])
    /\ Queue(p, status, e)
    /\ UNCHANGED <<shut, tapped>>

Review(p, e, status) ==
    /\ Pending(cache[p][e].row) /\ Theirs(p, e) /\ NoneWaits(p, e)
    /\ Show(p, e, [cache[p][e] EXCEPT !.row.status = status, !.mark = TRUE])
    /\ Queue(p, status, e)
    /\ UNCHANGED <<shut, tapped>>

Withdraw(p, e) ==
    /\ Pending(cache[p][e].row) /\ ~Theirs(p, e) /\ NoneWaits(p, e)
    /\ Show(p, e, [cache[p][e] EXCEPT !.row.void = TRUE, !.mark = TRUE])
    /\ Queue(p, "void", e)
    /\ UNCHANGED <<shut, tapped>>

\* queueNotificationReview: an answer to the notice of a new entry, queued
\* once, whatever the screen shows
Tap(p, e, status) ==
    /\ Pending(row[e]) /\ Theirs(p, e) /\ e \notin tapped[p]
    /\ tapped' = [tapped EXCEPT ![p] = @ \cup {e}]
    /\ Queue(p, status, e)
    /\ UNCHANGED <<cache, shut>>

Close(p) ==
    /\ ~grouped /\ ~shut[p]
    /\ ~ \E o \in outbox[p] : o.kind = "close"
    /\ shut' = [shut EXCEPT ![p] = TRUE]
    /\ Queue(p, "close", NoEntry)
    /\ UNCHANGED <<cache, tapped>>

----------------------------------------------------------------------------
\* The server: every request runs under the lock of the tab.

Stamp(e, r) == /\ rev' = rev + 1
               /\ row' = [row EXCEPT ![e] = [r EXCEPT !.rev = rev + 1]]

Refuse(v) == v = "refused" /\ UNCHANGED server

\* mutant: a closed tab refuses before it looks the id up
ClosedFirst(p, e, v) ==
    \/ (closed \/ e \in barred) /\ Refuse(v)
    \/ row[e] # NoRow /\ ~closed /\ v = "ok" /\ UNCHANGED server
    \/ /\ row[e] = NoRow /\ ~closed /\ e \notin barred /\ v = "ok"
       /\ Stamp(e, [rev |-> 0, status |-> "pending", void |-> FALSE])
       /\ UNCHANGED <<closed, barred>>

\* a known id is answered from its row, before anything else is asked
Append(p, e, v) ==
    \/ row[e] # NoRow /\ v = "ok" /\ UNCHANGED server
    \/ row[e] = NoRow /\ (e \in barred \/ closed) /\ Refuse(v)
    \/ /\ row[e] = NoRow /\ e \notin barred /\ ~closed
       /\ \/ /\ v = "ok"
             /\ Stamp(e, [rev |-> 0, status |-> "pending", void |-> FALSE])
             /\ UNCHANGED <<closed, barred>>
          \/ /\ p \in limited /\ v = "refused"
             /\ barred' = barred \cup {e}
             /\ UNCHANGED <<rev, closed, row>>

\* mutant: the last decision wins
LastWins(p, e, status, v) ==
    \/ (row[e] = NoRow \/ row[e].void \/ ~Theirs(p, e)) /\ Refuse(v)
    \/ /\ row[e] # NoRow /\ ~row[e].void /\ Theirs(p, e) /\ v = "ok"
       /\ Stamp(e, [row[e] EXCEPT !.status = status])
       /\ UNCHANGED <<closed, barred>>

\* the first decision is final; the same one again is answered from its row
SetStatus(p, e, status, v) ==
    \/ (row[e] = NoRow \/ row[e].void \/ ~Theirs(p, e)) /\ Refuse(v)
    \/ /\ row[e] # NoRow /\ ~row[e].void /\ Theirs(p, e)
       /\ \/ row[e].status = status /\ v = "ok" /\ UNCHANGED server
          \/ row[e].status \notin {status, "pending"} /\ Refuse(v)
          \/ /\ row[e].status = "pending" /\ v = "ok"
             /\ Stamp(e, [row[e] EXCEPT !.status = status])
             /\ UNCHANGED <<closed, barred>>
          \/ row[e].status = "pending" /\ p \in limited /\ Refuse(v)

Void(p, e, v) ==
    \/ (row[e] = NoRow \/ row[e].void \/ Theirs(p, e) \/ row[e].status # "pending")
       /\ Refuse(v)
    \/ /\ Pending(row[e]) /\ ~Theirs(p, e)
       /\ \/ /\ v = "ok"
             /\ Stamp(e, [row[e] EXCEPT !.void = TRUE])
             /\ UNCHANGED <<closed, barred>>
          \/ p \in limited /\ Refuse(v)

CloseTab(v) ==
    /\ v = "ok" /\ closed' = TRUE
    /\ rev' = IF closed THEN rev ELSE rev + 1
    /\ UNCHANGED <<row, barred>>

Serve(p, o, v) ==
    \/ p \in demotable /\ Refuse(v)
    \/ o.kind = "append" /\ Append(p, o.entry, v)
    \/ o.kind \in {"accepted", "disputed"} /\ SetStatus(p, o.entry, o.kind, v)
    \/ o.kind = "void" /\ Void(p, o.entry, v)
    \/ o.kind = "close" /\ CloseTab(v)

Record(p, o) == did' = did \cup IF rev' # rev THEN {<<p, o>>} ELSE {}

\* the entries later than a revision, read in one snapshot (Get)
Since(after) ==
    [verdict |-> "ok", rev |-> rev, closed |-> closed, full |-> after = 0,
     row |-> [e \in Entry |-> IF row[e].rev > after THEN row[e] ELSE NoRow]]

\* what a request answers: a row of its own, everything, or nothing at all
Reply(o, v) ==
    IF v = "refused" THEN [NoAnswer EXCEPT !.verdict = v]
    ELSE [verdict |-> v, rev |-> rev', closed |-> closed', full |-> o.kind = "close",
          row |-> [e \in Entry |-> IF o.kind = "close" \/ e = o.entry THEN row'[e] ELSE NoRow]]

ServerRun(p) ==
    /\ run[p].phase = "sent"
    /\ \E v \in {"ok", "refused"} :
          /\ Serve(p, run[p].op, v) /\ Record(p, run[p].op)
          /\ run' = [run EXCEPT ![p].phase = "answered",
                                ![p].answer = Reply(run[p].op, v)]
    /\ UNCHANGED <<account, copy, queue, intent, full, view, stray, faults>>

ServerRunStray ==
    \E s \in stray :
        /\ \E v \in {"ok", "refused"} : Serve(s[1], s[2], v) /\ Record(s[1], s[2])
        /\ stray' = stray \ {s}
        /\ UNCHANGED <<account, copy, queue, intent, full, run, view, faults>>

ServerRunOther ==
    /\ \E d \in Other :
          \/ \E e \in Entry :
                \/ By[e] = d /\ Append(d, e, "ok")
                \/ \E s \in {"accepted", "disputed"} : SetStatus(d, e, s, "ok")
                \/ Void(d, e, "ok")
          \/ CloseTab("ok")
    /\ UNCHANGED <<account, copy, queue, intent, full, run, view, stray, did, faults>>

ServerGet(p) ==
    /\ run[p].phase = "asked"
    /\ run' = [run EXCEPT ![p].phase = "pulled",
                          ![p].after = 0,
                          ![p].answer = Since(run[p].after)]
    /\ UNCHANGED <<account, server, copy, queue, intent, full, view, stray, did, faults>>

----------------------------------------------------------------------------
\* A run of syncTab: the due operations one by one, then a pull.

\* upsertTabFromWire: what is older than the cursor is ignored; a full answer
\* replaces all but the rows the server has not seen; only a pull moves the
\* cursor, since an acknowledgement is one row and not all up to its revision.
Merged(c, a) ==
    [e \in Entry |-> IF a.row[e] # NoRow THEN Copy(a.row[e])
                     ELSE IF a.full /\ ~c[e].local THEN Copy(NoRow)
                     ELSE c[e]]

\* mutant: any answer moves the cursor
AnyMoves(p, a, pulled) ==
    IF a.rev < cursor[p] THEN UNCHANGED copy
    ELSE /\ cache' = [cache EXCEPT ![p] = Merged(@, a)]
         /\ cursor' = [cursor EXCEPT ![p] = a.rev]
         /\ shut' = [shut EXCEPT ![p] = a.closed]

Ingest(p, a, pulled) ==
    IF a.rev < cursor[p] THEN UNCHANGED copy
    ELSE /\ cache' = [cache EXCEPT ![p] = Merged(@, a)]
         /\ cursor' = [cursor EXCEPT ![p] = IF pulled THEN a.rev ELSE @]
         /\ shut' = [shut EXCEPT ![p] = a.closed]

\* mutant: an operation does not wait for itself
NewerWait(p) == {o \in outbox[p] : \A older \in waiting[p] : older.n >= o.n}

\* listDueTabOps: an operation waits for the older ones that sit out a backoff
Due(p) == {o \in outbox[p] : \A older \in waiting[p] : older.n > o.n}

\* a queued close goes first, and while it waits nothing goes
Closes(S) == {o \in S : o.kind = "close"}
Todo(p) ==
    LET close == Closes(outbox[p])
    IN  IF close \subseteq waiting[p] /\ close # {} THEN {} ELSE Due(p) \cup close

First(S, o) == /\ o \in S
               /\ o.kind = "close" \/ (Closes(S) = {} /\ \A other \in S : o.n <= other.n)

StartRun(p) ==
    /\ run[p].phase = "idle"
    /\ run' = [run EXCEPT ![p] = Flushing(Todo(p))]
    /\ UNCHANGED <<account, server, copy, queue, intent, full, view, stray, did, faults>>

Send(p) ==
    /\ run[p].phase = "flush"
    /\ \E o \in run[p].todo :
          /\ First(run[p].todo, o)
          /\ run' = [run EXCEPT ![p].phase = "sent", ![p].op = o,
                                ![p].todo = @ \ {o}]
    /\ UNCHANGED <<account, server, copy, queue, intent, full, view, stray, did, faults>>

\* applied, then dropped from the queue; the answer to a withdrawal carries
\* no tab and is left to the pull
Acknowledge(p) ==
    LET o == run[p].op
    IN  /\ run[p].phase = "answered" /\ run[p].answer.verdict = "ok"
        /\ IF o.kind = "void" THEN UNCHANGED copy ELSE Ingest(p, run[p].answer, FALSE)
        /\ outbox' = [outbox EXCEPT ![p] = @ \ {o}]
        /\ run' = [run EXCEPT ![p] = Flushing(@.todo)]
        /\ UNCHANGED <<account, server, waiting, failed, intent, full, view, stray, did, faults>>

\* mutant: a refusal is noted, and the tab left to the next pull
KeepsCursor(p) ==
    /\ run[p].phase = "answered" /\ run[p].answer.verdict = "refused"
    /\ failed' = [failed EXCEPT ![p] = @ \cup {run[p].op}]
    /\ outbox' = [outbox EXCEPT ![p] = @ \ {run[p].op}]
    /\ run' = [run EXCEPT ![p] = Flushing(@.todo)]
    /\ UNCHANGED <<account, server, copy, waiting, intent, full, view, stray, did, faults>>

\* rejectTabOp: the operation is kept as refused, what it showed is undone by
\* a full pull; a refused close ends the flush
Reject(p) ==
    LET o == run[p].op
    IN  /\ run[p].phase = "answered" /\ run[p].answer.verdict = "refused"
        /\ failed' = [failed EXCEPT ![p] = @ \cup {o}]
        /\ outbox' = [outbox EXCEPT ![p] = @ \ {o}]
        /\ cursor' = [cursor EXCEPT ![p] = 0]
        /\ cache' = IF o.kind = "append" /\ cache[p][o.entry].local
                    THEN [cache EXCEPT ![p][o.entry] = Copy(NoRow)]
                    ELSE cache
        /\ full' = [full EXCEPT ![p] = TRUE]
        /\ run' = [run EXCEPT ![p] = Flushing(IF o.kind = "close" THEN {} ELSE @.todo)]
        /\ UNCHANGED <<account, server, shut, waiting, intent, view, stray, did, faults>>

\* mutant: a request without an answer is taken for sent
Forgets(p) ==
    /\ faults < MaxFaults
    /\ run[p].phase \in {"sent", "answered"}
    /\ outbox' = [outbox EXCEPT ![p] = @ \ {run[p].op}]
    /\ run' = [run EXCEPT ![p] = Flushing({})]
    /\ faults' = faults + 1
    /\ UNCHANGED <<account, server, copy, waiting, failed, intent, full, view, stray, did>>

\* failTabOp: no answer, or none in time; the flush ends, the pull still runs.
\* A request that was given up may yet arrive.
Timeout(p) ==
    /\ faults < MaxFaults
    /\ run[p].phase \in {"sent", "answered"}
    /\ waiting' = [waiting EXCEPT ![p] = @ \cup {run[p].op}]
    /\ stray' = IF run[p].phase = "sent" THEN stray \cup {<<p, run[p].op>>} ELSE stray
    /\ run' = [run EXCEPT ![p] = Flushing({})]
    /\ faults' = faults + 1
    /\ UNCHANGED <<account, server, copy, outbox, failed, intent, full, view, did>>

BackoffElapsed(p) ==
    /\ waiting[p] # {}
    /\ waiting' = [waiting EXCEPT ![p] = {}]
    /\ UNCHANGED <<account, server, copy, outbox, failed, intent, full, run, view,
                   stray, did, faults>>

AskPull(p) ==
    /\ run[p].phase = "flush" /\ run[p].todo = {}
    /\ run' = [run EXCEPT ![p].phase = "asked",
                          ![p].after = IF full[p] THEN 0 ELSE cursor[p]]
    /\ UNCHANGED <<account, server, copy, queue, intent, full, view, stray, did, faults>>

HandlePull(p) ==
    /\ run[p].phase = "pulled"
    /\ Ingest(p, run[p].answer, TRUE)
    /\ full' = [full EXCEPT ![p] = FALSE]
    /\ run' = [run EXCEPT ![p] = IdleRun]
    /\ UNCHANGED <<account, server, queue, intent, view, stray, did, faults>>

PullFails(p) ==
    /\ faults < MaxFaults
    /\ run[p].phase \in {"asked", "pulled"}
    /\ run' = [run EXCEPT ![p] = IdleRun]
    /\ faults' = faults + 1
    /\ UNCHANGED <<account, server, copy, queue, intent, full, view, stray, did>>

\* The app is killed: the flags in memory and the answers go, the tables stay.
\* An acknowledgement is applied in one transaction and its operation dropped
\* in a second one, so a kill may fall between.
Kill(p) ==
    /\ faults < MaxFaults
    /\ faults' = faults + 1
    /\ run[p].phase # "idle" \/ full[p] \/ view[p] # NoAnswer
    /\ \/ UNCHANGED copy
       \/ /\ run[p].phase = "answered" /\ run[p].answer.verdict = "ok"
          /\ run[p].op.kind # "void"
          /\ Ingest(p, run[p].answer, FALSE)
    /\ stray' = IF run[p].phase = "sent" THEN stray \cup {<<p, run[p].op>>} ELSE stray
    /\ run' = [run EXCEPT ![p] = IdleRun]
    /\ full' = [full EXCEPT ![p] = FALSE]
    /\ view' = [view EXCEPT ![p] = NoAnswer]
    /\ UNCHANGED <<account, server, queue, intent, did>>

----------------------------------------------------------------------------
\* A tab of a group is also fetched, and closed, with all its siblings
\* (groups.ts), beside whatever run of syncTab there is.

FetchGroup(p) ==
    /\ grouped /\ view[p] = NoAnswer
    /\ view' = [view EXCEPT ![p] = Since(0)]
    /\ UNCHANGED <<account, server, copy, queue, intent, full, run, stray, did, faults>>

CloseGroup(p) ==
    /\ grouped /\ view[p] = NoAnswer /\ ~shut[p] /\ ~closed
    /\ CloseTab("ok")
    /\ view' = [view EXCEPT ![p] = Since(0)']
    /\ UNCHANGED <<account, copy, queue, intent, full, run, stray, did, faults>>

CacheGroup(p) ==
    /\ view[p] # NoAnswer
    /\ Ingest(p, view[p], TRUE)
    /\ view' = [view EXCEPT ![p] = NoAnswer]
    /\ UNCHANGED <<account, server, queue, intent, full, run, stray, did, faults>>

----------------------------------------------------------------------------
User(p) ==
    \/ \E e \in Entry :
          \/ AddEntry(p, e) \/ Withdraw(p, e)
          \/ \E s \in {"accepted", "disputed"} : Review(p, e, s) \/ Tap(p, e, s)
    \/ Close(p)
    \/ FetchGroup(p) \/ CloseGroup(p)

Sync(p) ==
    \/ StartRun(p) \/ Send(p) \/ ServerRun(p) \/ Acknowledge(p) \/ Reject(p)
    \/ AskPull(p) \/ ServerGet(p) \/ HandlePull(p)
    \/ BackoffElapsed(p) \/ CacheGroup(p)

Fault(p) == Timeout(p) \/ PullFails(p) \/ Kill(p)

Next == (\E p \in Phone : User(p) \/ Sync(p) \/ Fault(p)) \/ ServerRunStray \/ ServerRunOther

\* What the loop of syncAllTabs takes up: open tabs, queued operations, tabs
\* never pulled, entries without a decision, and what /mine says has moved on.
Owed(p) ==
    \/ ~shut[p] \/ outbox[p] # {} \/ cursor[p] = 0 \/ cursor[p] < rev
    \/ \E e \in Entry : Pending(cache[p][e].row)

Fairness(p) ==
    /\ WF_vars(Owed(p) /\ StartRun(p))
    /\ WF_vars(Send(p)) /\ WF_vars(ServerRun(p))
    /\ WF_vars(Acknowledge(p) \/ Reject(p))
    /\ WF_vars(AskPull(p)) /\ WF_vars(ServerGet(p)) /\ WF_vars(HandlePull(p))
    /\ WF_vars(BackoffElapsed(p)) /\ WF_vars(CacheGroup(p))

Spec == Init /\ [][Next]_vars /\ \A p \in Phone : Fairness(p)

----------------------------------------------------------------------------
(* Properties *)

TypeOK ==
    /\ grouped \in BOOLEAN /\ limited \subseteq Phone /\ demotable \subseteq Phone
    /\ closed \in BOOLEAN /\ rev \in Nat /\ faults \in Nat
    /\ row \in [Entry -> Row \cup {NoRow}]
    /\ barred \subseteq Entry
    /\ cache \in [Phone -> [Entry -> [row : Row \cup {NoRow}, local : BOOLEAN, mark : BOOLEAN]]]
    /\ cursor \in [Phone -> Nat]
    /\ shut \in [Phone -> BOOLEAN] /\ full \in [Phone -> BOOLEAN]
    /\ outbox \in [Phone -> SUBSET Op]
    /\ waiting \in [Phone -> SUBSET Op] /\ \A p \in Phone : waiting[p] \subseteq outbox[p]
    /\ failed \in [Phone -> SUBSET Op] /\ wrote \in [Phone -> SUBSET Op]
    /\ tapped \in [Phone -> SUBSET Entry]
    /\ run \in [Phone -> [phase : {"idle", "flush", "sent", "answered", "asked", "pulled"},
                          todo : SUBSET Op, op : Op \cup {NoOp}, after : Nat, answer : Answer]]
    /\ view \in [Phone -> Answer]
    /\ stray \subseteq Phone \X Op /\ did \subseteq Phone \X Op

\* The cursor of a tab means that every row up to it is cached (db.ts: "every
\* row with rev <= cursor is cached").  What is shown instead of the server's
\* row is the phone's own change, still queued.
CursorHonest ==
    \A p \in Phone, e \in Entry :
        row[e] # NoRow /\ row[e].rev <= cursor[p] =>
            \/ cache[p][e] = Copy(row[e])
            \/ /\ cache[p][e].mark
               /\ \E o \in outbox[p] : o.entry = e /\ o.kind \in {"accepted", "disputed", "void"}

\* A tally counts in a phone's confirmed balance once it is accepted and
\* carries no mark of the phone's own (direction.ts).  Whatever counts on a
\* phone is what the other party, or this one, has accepted for good.
Counts(p, e) ==
    /\ cache[p][e].row.status = "accepted" /\ ~cache[p][e].row.void
    /\ ~cache[p][e].local /\ ~cache[p][e].mark
ConfirmedIsFinal ==
    \A p \in Phone, e \in Entry :
        Counts(p, e) => row[e].status = "accepted" /\ ~row[e].void

\* Nothing a user did is lost: it is queued, kept as refused, or the tab is as
\* the user wanted it (timeouts, kills, late requests, either phone first).
Done(o) ==
    /\ o.kind = "append" => row[o.entry] # NoRow
    /\ o.kind \in {"accepted", "disputed"} => row[o.entry].status = o.kind
    /\ o.kind = "void" => row[o.entry].void
    /\ o.kind = "close" => closed
IntentKept ==
    \A p \in Phone : \A o \in wrote[p] : o \in outbox[p] \cup failed[p] \/ Done(o)

\* A change kept as refused was not made, by whichever of its requests (a
\* retry after a lost answer must not "falsely label a saved tally unsent",
\* service.go).  It is not so for a withdrawal, for a phone demoted between, nor
\* for a decision behind a credit limit, which a later answer may refuse.
RefusedIsUndone ==
    \A p \in Phone \ demotable : \A o \in failed[p] :
        o.kind = "append" \/ (o.kind # "void" /\ p \notin limited) => <<p, o>> \notin did

\* The first decision on an entry is final, of whichever phone and however
\* late: no row changes after it was accepted, rejected or withdrawn.
FirstDecisionStands ==
    [][\A e \in Entry : row[e] # NoRow /\ ~Pending(row[e]) => row'[e] = row[e]]_vars

\* When the users are done, every phone shows what the server has, and has
\* nothing left to send.
Shows(p, e) == cache[p][e] = Copy(row[e])
Settles == <>[](\A p \in Phone : outbox[p] = {} /\ \A e \in Entry : Shows(p, e))

=============================================================================
