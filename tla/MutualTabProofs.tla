-------------------------- MODULE MutualTabProofs --------------------------
(***************************************************************************)
(* Theorems about MutualTab, for any number of phones, devices, entries,   *)
(* operations and faults.  The law of rows comes first (Grows): a request  *)
(* changes one row at most, to the next revision, and only from nothing or *)
(* from pending; first decisions stand by it alone.  It makes whatever the *)
(* server has once said stay true of its past (Sourced), so that an answer *)
(* applied late can be judged.  CopyInv then says what the copy, the cursor*)
(* and the answer in hand of a phone owe to each other; Kept and Undone    *)
(* follow the operations through their requests.                           *)
(***************************************************************************)
EXTENDS MutualTab, FiniteSetTheorems, TLAPS

----------------------------------------------------------------------------
(* What a request does to the server *)

\* One row at most, to the next revision, and only from nothing or pending.
Grows ==
    /\ rev' \in Nat /\ rev <= rev' /\ closed' \in BOOLEAN /\ (closed => closed')
    /\ barred \subseteq barred' /\ barred' \subseteq Entry
    /\ row' \in [Entry -> Row \cup {NoRow}]
    /\ \A e \in Entry : row'[e] # row[e] =>
          /\ rev' = rev + 1 /\ row'[e] # NoRow /\ row'[e].rev = rev'
          /\ row[e] = NoRow \/ Pending(row[e])

\* A row edited in one field is a row.
LEMMA Edited ==
    ASSUME NEW r \in Row
    PROVE  /\ \A n \in Nat : /\ [r EXCEPT !.rev = n] \in Row
                             /\ [r EXCEPT !.rev = n].rev = n
                             /\ [r EXCEPT !.rev = n].status = r.status
                             /\ [r EXCEPT !.rev = n].void = r.void
           /\ \A s \in Status : /\ [r EXCEPT !.status = s] \in Row
                                /\ [r EXCEPT !.status = s].status = s
                                /\ [r EXCEPT !.status = s].void = r.void
           /\ [r EXCEPT !.void = TRUE] \in Row /\ [r EXCEPT !.void = TRUE].void
  BY DEF Row

\* A row of the server is a real row or none, and a pending one is real.
LEMMA Rows ==
    ASSUME TypeOK, NEW e \in Entry
    PROVE  /\ rev \in Nat /\ row[e] \in Row \cup {NoRow}
           /\ row[e] # NoRow => row[e] \in Row
           /\ Pending(row[e]) => row[e] # NoRow
  BY DEF TypeOK, Pending, NoRow

\* Stamping an entry that is new or pending changes that row only, to the
\* next revision.
LEMMA Stamped ==
    ASSUME TypeOK, NEW e \in Entry, NEW r \in Row, Stamp(e, r),
           row[e] = NoRow \/ Pending(row[e]),
           closed' = closed, barred' = barred
    PROVE  /\ Grows
           /\ row'[e] \in Row /\ row'[e] # NoRow
           /\ rev' = rev + 1 /\ row'[e].rev = rev'
           /\ row'[e].status = r.status /\ row'[e].void = r.void
  <1> DEFINE new == [r EXCEPT !.rev = rev + 1]
  <1>1. rev \in Nat /\ rev + 1 \in Nat /\ rev + 1 # 0
    BY Rows
  <1>2. /\ new \in Row /\ new.rev = rev + 1
        /\ new.status = r.status /\ new.void = r.void
    BY <1>1, Edited
  <1>3. new # NoRow
    BY <1>1, <1>2 DEF NoRow
  <1>4. row' = [row EXCEPT ![e] = new] /\ rev' = rev + 1
    BY DEF Stamp
  <1> HIDE DEF new
  <1>5. row \in [Entry -> Row \cup {NoRow}] /\ closed \in BOOLEAN /\ barred \subseteq Entry
    BY DEF TypeOK
  <1> QED  BY <1>1, <1>2, <1>3, <1>4, <1>5 DEF Grows

\* A request that changes nothing keeps the law of rows.
LEMMA Still == ASSUME TypeOK, UNCHANGED server PROVE Grows
  BY DEF TypeOK, Grows, server

\* What an append inserts is a row.
LEMMA NewRow == [rev |-> 0, status |-> "pending", void |-> FALSE] \in Row
  BY DEF Row, Status

\* An append obeys the law of rows.
LEMMA AppendGrows ==
    ASSUME TypeOK, NEW p, NEW e \in Entry, NEW v, Append(p, e, v)
    PROVE  Grows /\ (v = "ok" => row'[e] # NoRow)
  <1>1. CASE UNCHANGED server /\ (row[e] # NoRow \/ v = "refused")
    BY <1>1, Still DEF server
  <1>2. CASE row[e] = NoRow /\ Stamp(e, [rev |-> 0, status |-> "pending", void |-> FALSE])
             /\ UNCHANGED <<closed, barred>>
    BY <1>2, NewRow, Stamped
  <1>3. CASE v = "refused" /\ barred' = barred \cup {e} /\ UNCHANGED <<rev, closed, row>>
    BY <1>3 DEF Grows, TypeOK
  <1> QED  BY <1>1, <1>2, <1>3 DEF Append, Refuse

\* So does a review,
LEMMA SetStatusGrows ==
    ASSUME TypeOK, NEW p, NEW e \in Entry, NEW s \in {"accepted", "disputed"}, NEW v,
           SetStatus(p, e, s, v)
    PROVE  Grows /\ (v = "ok" => row'[e].status = s /\ ~row'[e].void)
  <1>1. CASE UNCHANGED server /\ v = "refused"
    BY <1>1, Still
  <1>2. CASE UNCHANGED server /\ row[e].status = s /\ ~row[e].void
    BY <1>2, Still DEF server
  <1>3. CASE /\ row[e] # NoRow /\ ~row[e].void /\ row[e].status = "pending"
             /\ Stamp(e, [row[e] EXCEPT !.status = s]) /\ UNCHANGED <<closed, barred>>
    <2>1. row[e] \in Row /\ s \in Status
      BY <1>3, Rows DEF Status
    <2>2. /\ [row[e] EXCEPT !.status = s] \in Row
          /\ [row[e] EXCEPT !.status = s].status = s
          /\ [row[e] EXCEPT !.status = s].void = row[e].void
      BY <2>1, Edited
    <2> QED  BY <1>3, <2>2, Stamped DEF Pending
  <1> QED  BY <1>1, <1>2, <1>3 DEF SetStatus, Refuse

\* a withdrawal,
LEMMA VoidGrows ==
    ASSUME TypeOK, NEW p, NEW e \in Entry, NEW v, Void(p, e, v)
    PROVE  /\ Grows
           /\ v = "ok" => /\ row'[e] # NoRow /\ row'[e].void
                          /\ row'[e].rev = rev' /\ rev' = rev + 1
  <1>1. CASE UNCHANGED server /\ v = "refused"
    BY <1>1, Still
  <1>2. CASE Pending(row[e]) /\ Stamp(e, [row[e] EXCEPT !.void = TRUE])
             /\ UNCHANGED <<closed, barred>>
    <2>1. row[e] \in Row
      BY <1>2, Rows
    <2>2. [row[e] EXCEPT !.void = TRUE] \in Row /\ [row[e] EXCEPT !.void = TRUE].void
      BY <2>1, Edited
    <2> QED  BY <1>2, <2>2, Stamped
  <1> QED  BY <1>1, <1>2 DEF Void, Refuse

\* and a close.
LEMMA CloseGrows ==
    ASSUME TypeOK, NEW v, CloseTab(v) PROVE Grows /\ closed' /\ row' = row
  BY DEF CloseTab, Grows, TypeOK

\* The parts of a queued operation.
LEMMA Ops ==
    ASSUME NEW o \in Op
    PROVE  /\ o.kind \in Kind
           /\ o.kind # "close" => o.entry \in Entry
           /\ o.kind = "close" => o.entry = NoEntry
  BY DEF Op

\* Hence every request does, whoever sends it.
LEMMA ServeGrows ==
    ASSUME TypeOK, NEW p, NEW o \in Op, NEW v, Serve(p, o, v)
    PROVE  Grows /\ v \in {"ok", "refused"}
  <1>1. CASE p \in demotable /\ Refuse(v)
    BY <1>1, Still DEF Refuse
  <1>2. CASE o.kind = "append" /\ Append(p, o.entry, v)
    BY <1>2, AppendGrows, Ops DEF Append, Refuse
  <1>3. CASE o.kind \in {"accepted", "disputed"} /\ SetStatus(p, o.entry, o.kind, v)
    <2>1. o.entry \in Entry
      BY <1>3, Ops
    <2> QED  BY <1>3, <2>1, SetStatusGrows DEF SetStatus, Refuse
  <1>4. CASE o.kind = "void" /\ Void(p, o.entry, v)
    BY <1>4, VoidGrows, Ops DEF Void, Refuse
  <1>5. CASE o.kind = "close" /\ CloseTab(v)
    BY <1>5, CloseGrows DEF CloseTab
  <1> QED  BY <1>1, <1>2, <1>3, <1>4, <1>5 DEF Serve

\* A request that moves the revision did what its operation asks for.
LEMMA ServeDoes ==
    ASSUME TypeOK, NEW p, NEW o \in Op, Serve(p, o, "ok")
    PROVE  /\ o.kind = "append" => row'[o.entry] # NoRow
           /\ o.kind \in {"accepted", "disputed"} =>
                row'[o.entry].status = o.kind /\ ~row'[o.entry].void
           /\ o.kind = "void" => /\ row'[o.entry] # NoRow /\ row'[o.entry].void
                                 /\ row'[o.entry].rev = rev' /\ rev' = rev + 1
           /\ o.kind = "close" => closed'
  <1>1. ~Refuse("ok")
    BY DEF Refuse
  <1>2. CASE o.kind = "append" /\ Append(p, o.entry, "ok")
    BY <1>2, AppendGrows, Ops
  <1>3. CASE o.kind \in {"accepted", "disputed"} /\ SetStatus(p, o.entry, o.kind, "ok")
    <2>1. o.entry \in Entry
      BY <1>3, Ops
    <2> QED  BY <1>3, <2>1, SetStatusGrows
  <1>4. CASE o.kind = "void" /\ Void(p, o.entry, "ok")
    BY <1>4, VoidGrows, Ops
  <1>5. CASE o.kind = "close" /\ CloseTab("ok")
    BY <1>5, CloseGrows
  <1> QED  BY <1>1, <1>2, <1>3, <1>4, <1>5 DEF Serve

\* The devices outside the model obey the same law.
LEMMA OtherGrows ==
    ASSUME TypeOK, ServerRunOther PROVE Grows
  BY AppendGrows, SetStatusGrows, VoidGrows, CloseGrows DEF ServerRunOther

\* Every step leaves the server alone but those that bring it a request.
LEMMA StepGrows ==
    ASSUME TypeOK, [Next]_vars PROVE Grows
  <1>1. CASE ServerRunOther
    BY <1>1, OtherGrows
  <1>2. CASE ServerRunStray
    <2>1. PICK s \in stray, v \in {"ok", "refused"} : Serve(s[1], s[2], v)
      BY <1>2 DEF ServerRunStray
    <2>2. s[2] \in Op
      BY DEF TypeOK
    <2> QED  BY <2>1, <2>2, ServeGrows
  <1>3. ASSUME NEW p \in Phone, ServerRun(p) PROVE Grows
    <2>1. PICK v \in {"ok", "refused"} : Serve(p, run[p].op, v)
      BY <1>3 DEF ServerRun
    <2>2. CASE run[p].op \in Op
      BY <2>1, <2>2, ServeGrows
    <2>3. CASE run[p].op = NoOp
      BY <2>1, <2>3, Still DEF Serve, Refuse, NoOp
    <2> QED  BY <2>2, <2>3 DEF TypeOK
  <1>4. ASSUME NEW p \in Phone, CloseGroup(p) PROVE Grows
    BY <1>4, CloseGrows DEF CloseGroup
  <1>5. ASSUME NEW p \in Phone, User(p), ~CloseGroup(p) PROVE UNCHANGED server
    BY <1>5 DEF User, AddEntry, Review, Withdraw, Tap, Close, FetchGroup, Queue
  <1>6. ASSUME NEW p \in Phone, Sync(p), ~ServerRun(p) PROVE UNCHANGED server
    BY <1>6 DEF Sync, StartRun, Send, Acknowledge, Reject, AskPull, ServerGet, HandlePull,
                BackoffElapsed, CacheGroup
  <1>7. ASSUME NEW p \in Phone, Fault(p) PROVE UNCHANGED server
    BY <1>7 DEF Fault, Timeout, PullFails, Kill
  <1>8. CASE UNCHANGED vars
    BY <1>8, Still DEF vars
  <1> QED  BY <1>1, <1>2, <1>3, <1>4, <1>5, <1>6, <1>7, <1>8, Still DEF Next

----------------------------------------------------------------------------
(* Types, and what the queue of a phone is made of *)

\* What a run has taken up is queued and sits out no backoff.
QueueInv ==
    /\ \A p \in Phone :
          /\ IsFiniteSet(wrote[p])
          /\ outbox[p] \cup failed[p] \subseteq wrote[p]
          /\ run[p].todo \subseteq outbox[p] \ waiting[p]
          /\ run[p].phase \in {"sent", "answered"} =>
                run[p].op \in outbox[p] \ (waiting[p] \cup run[p].todo)
          /\ \A a, b \in outbox[p] : a.kind = "close" /\ b.kind = "close" => a = b
    /\ \A s \in stray : s[2] \in wrote[s[1]]

Typed == TypeOK /\ QueueInv

CacheRow == [row : Row \cup {NoRow}, local : BOOLEAN, mark : BOOLEAN]
RunState == [phase : {"idle", "flush", "sent", "answered", "asked", "pulled"},
             todo : SUBSET Op, op : Op \cup {NoOp}, after : Nat, answer : Answer]

\* The placeholders have their types.
LEMMA Empty == NoAnswer \in Answer /\ IdleRun \in RunState
  BY DEF NoAnswer, Answer, IdleRun, RunState

\* A run that goes on with a rest of its list is a run.
LEMMA Flushes ==
    ASSUME NEW S, S \subseteq Op
    PROVE  /\ Flushing(S) \in RunState
           /\ Flushing(S).phase = "flush" /\ Flushing(S).todo = S
           /\ Flushing(S).answer = NoAnswer
  BY Empty DEF Flushing, IdleRun, RunState

\* What a pull reads is an answer,
LEMMA SinceTyped ==
    ASSUME TypeOK, NEW after \in Nat
    PROVE  Since(after) \in Answer /\ Since(after).rev = rev
  BY DEF TypeOK, Since, Answer

\* and so is what an operation is told.
LEMMA ReplyTyped ==
    ASSUME TypeOK, Grows, NEW o, NEW v \in {"ok", "refused"}
    PROVE  Reply(o, v) \in Answer
  <1>1. CASE v = "refused"
    BY <1>1 DEF Reply, NoAnswer, Answer
  <1>2. CASE v = "ok"
    BY <1>2 DEF Reply, Answer, Grows
  <1> QED  BY <1>1, <1>2

\* Merging an answer into a copy gives a copy.
LEMMA MergedTyped ==
    ASSUME NEW c \in [Entry -> CacheRow], NEW a \in Answer
    PROVE  Merged(c, a) \in [Entry -> CacheRow]
  BY DEF Merged, Copy, CacheRow, Answer

\* the copy a phone has after it took in an answer
LEMMA IngestTyped ==
    ASSUME TypeOK, NEW p \in Phone, NEW a \in Answer, NEW pulled \in BOOLEAN,
           Ingest(p, a, pulled)
    PROVE  /\ cache' \in [Phone -> [Entry -> CacheRow]]
           /\ cursor' \in [Phone -> Nat] /\ shut' \in [Phone -> BOOLEAN]
           /\ \A u \in Phone \ {p} : /\ cache'[u] = cache[u] /\ cursor'[u] = cursor[u]
           /\ IF a.rev < cursor[p] THEN cache'[p] = cache[p] /\ cursor'[p] = cursor[p]
              ELSE /\ cache'[p] = Merged(cache[p], a)
                   /\ cursor'[p] = IF pulled THEN a.rev ELSE cursor[p]
  <1>1. /\ cache \in [Phone -> [Entry -> CacheRow]]
        /\ cursor \in [Phone -> Nat] /\ shut \in [Phone -> BOOLEAN]
    BY DEF TypeOK, CacheRow
  <1>2. Merged(cache[p], a) \in [Entry -> CacheRow]
    BY <1>1, MergedTyped
  <1>3. a.rev \in Nat /\ a.closed \in BOOLEAN
    BY DEF Answer
  <1> QED  BY <1>1, <1>2, <1>3 DEF Ingest, copy

\* Queueing an operation keeps the queue's shape.
LEMMA QueueTyped ==
    ASSUME Typed, NEW p \in Phone, NEW kind \in Kind, NEW e \in Entry \cup {NoEntry},
           e = NoEntry <=> kind = "close",
           kind = "close" => ~ \E o \in outbox[p] : o.kind = "close",
           Queue(p, kind, e),
           cache' \in [Phone -> [Entry -> CacheRow]], shut' \in [Phone -> BOOLEAN],
           tapped' \in [Phone -> SUBSET Entry], UNCHANGED server
    PROVE  Typed'
  <1> DEFINE o == [n |-> Cardinality(wrote[p]) + 1, kind |-> kind, entry |-> e]
  <1>1. Cardinality(wrote[p]) \in Nat /\ Cardinality(wrote[p]) < MaxOps
    BY FS_CardinalityType DEF Typed, QueueInv, Queue
  <1>2. Cardinality(wrote[p]) + 1 \in 1..MaxOps
    BY <1>1, TabAssumption
  <1>3. o \in Op /\ o.kind = kind
    BY <1>2 DEF Op
  <1>4. /\ outbox' = [outbox EXCEPT ![p] = @ \cup {o}]
        /\ wrote' = [wrote EXCEPT ![p] = @ \cup {o}]
        /\ UNCHANGED <<account, cursor, waiting, failed, full, run, view, stray, did, faults>>
    BY DEF Queue
  <1> HIDE DEF o
  <1>5. IsFiniteSet(wrote[p] \cup {o})
    BY FS_AddElement DEF Typed, QueueInv
  <1>6. outbox \in [Phone -> SUBSET Op] /\ wrote \in [Phone -> SUBSET Op]
    BY DEF Typed, TypeOK
  <1>7. TypeOK'
    BY <1>3, <1>4, <1>6 DEF Typed, TypeOK, account, server, CacheRow
  <1>8. \A u \in Phone : /\ outbox[u] \subseteq outbox'[u] /\ wrote[u] \subseteq wrote'[u]
                         /\ outbox'[u] \subseteq outbox[u] \cup (IF u = p THEN {o} ELSE {})
                         /\ u # p => wrote'[u] = wrote[u]
    BY <1>4, <1>6
  <1>9. wrote'[p] = wrote[p] \cup {o}
    BY <1>4, <1>6
  <1>10. ASSUME NEW u \in Phone
         PROVE  /\ IsFiniteSet(wrote'[u])
                /\ outbox'[u] \cup failed'[u] \subseteq wrote'[u]
                /\ run'[u].todo \subseteq outbox'[u] \ waiting'[u]
                /\ run'[u].phase \in {"sent", "answered"} =>
                      run'[u].op \in outbox'[u] \ (waiting'[u] \cup run'[u].todo)
    BY <1>4, <1>5, <1>8, <1>9 DEF Typed, QueueInv
  <1>11. ASSUME NEW u \in Phone, NEW a \in outbox'[u], NEW b \in outbox'[u],
                a.kind = "close", b.kind = "close"
         PROVE  a = b
    BY <1>3, <1>8, <1>11 DEF Typed, QueueInv
  <1>12. \A s \in stray' : s[2] \in wrote'[s[1]]
    BY <1>4, <1>8 DEF Typed, QueueInv, TypeOK
  <1> QED  BY <1>7, <1>10, <1>11, <1>12 DEF Typed, QueueInv

\* Showing a change keeps the copy's shape.
LEMMA ShowTyped ==
    ASSUME TypeOK, NEW p \in Phone, NEW e \in Entry, NEW c \in CacheRow, Show(p, e, c)
    PROVE  /\ cache' \in [Phone -> [Entry -> CacheRow]]
           /\ \A u \in Phone, f \in Entry :
                 cache'[u][f] = cache[u][f] \/ (u = p /\ f = e /\ cache'[u][f] = c)
  <1>1. cache \in [Phone -> [Entry -> CacheRow]]
    BY DEF TypeOK, CacheRow
  <1> QED  BY <1>1 DEF Show

\* The kinds of operation, in the order the proofs take them.
LEMMA Kinds == {"append", "accepted", "disputed", "void", "close"} = Kind
  BY DEF Kind

\* what a decision or a withdrawal shows
LEMMA Marked ==
    ASSUME NEW c \in CacheRow, Pending(c.row)
    PROVE  /\ \A s \in Status :
                 /\ [c EXCEPT !.row.status = s, !.mark = TRUE] \in CacheRow
                 /\ [c EXCEPT !.row.status = s, !.mark = TRUE].mark
                 /\ [c EXCEPT !.row.status = s, !.mark = TRUE].local = c.local
           /\ [c EXCEPT !.row.void = TRUE, !.mark = TRUE] \in CacheRow
           /\ [c EXCEPT !.row.void = TRUE, !.mark = TRUE].mark
           /\ [c EXCEPT !.row.void = TRUE, !.mark = TRUE].local = c.local
  <1>1. c.row \in Row
    BY DEF CacheRow, Pending, NoRow
  <1>2. \A s \in Status : [c.row EXCEPT !.status = s] \in Row
    BY <1>1, Edited
  <1>3. [c.row EXCEPT !.void = TRUE] \in Row
    BY <1>1, Edited
  <1> QED  BY <1>2, <1>3 DEF CacheRow

\* Every action of a user keeps the types.
LEMMA UserTyped ==
    ASSUME Typed, NEW p \in Phone, User(p) PROVE Typed'
  <1>1. /\ cache \in [Phone -> [Entry -> CacheRow]] /\ shut \in [Phone -> BOOLEAN]
        /\ tapped \in [Phone -> SUBSET Entry] /\ TypeOK
    BY DEF Typed, TypeOK, CacheRow
  <1>2. ASSUME NEW e \in Entry, AddEntry(p, e) PROVE Typed'
    <2>1. [row |-> [rev |-> 0, status |-> "pending", void |-> FALSE],
           local |-> TRUE, mark |-> FALSE] \in CacheRow
      BY NewRow DEF CacheRow
    <2> QED  BY <1>1, <1>2, <2>1, ShowTyped, QueueTyped, Kinds, TabAssumption DEF AddEntry, Queue
  <1>3. ASSUME NEW e \in Entry, NEW s \in {"accepted", "disputed"}, Review(p, e, s)
        PROVE  Typed'
    <2>1. [cache[p][e] EXCEPT !.row.status = s, !.mark = TRUE] \in CacheRow
      <3>1. cache[p][e] \in CacheRow /\ Pending(cache[p][e].row) /\ s \in Status
        BY <1>1, <1>3 DEF Review, Status
      <3> QED  BY <3>1, Marked
    <2> QED  BY <1>1, <1>3, <2>1, ShowTyped, QueueTyped, Kinds, TabAssumption DEF Review, Queue
  <1>4. ASSUME NEW e \in Entry, Withdraw(p, e) PROVE Typed'
    <2>1. [cache[p][e] EXCEPT !.row.void = TRUE, !.mark = TRUE] \in CacheRow
      <3>1. cache[p][e] \in CacheRow /\ Pending(cache[p][e].row)
        BY <1>1, <1>4 DEF Withdraw
      <3> QED  BY <3>1, Marked
    <2> QED  BY <1>1, <1>4, <2>1, ShowTyped, QueueTyped, Kinds, TabAssumption DEF Withdraw, Queue
  <1>5. ASSUME NEW e \in Entry, NEW s \in {"accepted", "disputed"}, Tap(p, e, s)
        PROVE  Typed'
    BY <1>1, <1>5, QueueTyped, Kinds, TabAssumption DEF Tap, Queue
  <1>6. CASE Close(p)
    BY <1>1, <1>6, QueueTyped, Kinds DEF Close, Queue
  <1>7. CASE FetchGroup(p)
    <2>1. Since(0) \in Answer
      BY <1>1, SinceTyped
    <2> QED  BY <1>7, <2>1 DEF FetchGroup, Typed, TypeOK, QueueInv, account, server, copy, queue, intent
  <1>8. CASE CloseGroup(p)
    <2>1. Since(0)' \in Answer
      BY <1>1, <1>8, CloseGrows DEF CloseGroup, Since, Answer, Grows
    <2>2. Grows
      BY <1>1, <1>8, CloseGrows DEF CloseGroup
    <2> QED  BY <1>8, <2>1, <2>2 DEF CloseGroup, Typed, TypeOK, QueueInv, Grows, account, copy, queue, intent
  <1> QED  BY <1>2, <1>3, <1>4, <1>5, <1>6, <1>7, <1>8 DEF User

\* The parts of a run.
LEMMA Runs ==
    ASSUME TypeOK
    PROVE  /\ run \in [Phone -> RunState]
           /\ \A p \in Phone : /\ run[p] \in RunState /\ run[p].todo \subseteq Op
                               /\ run[p].op \in Op \cup {NoOp} /\ run[p].answer \in Answer
                               /\ outbox[p] \subseteq Op /\ waiting[p] \subseteq outbox[p]
  BY DEF TypeOK, RunState

\* a step that only turns the run of a phone to a new state
LEMMA RunTyped ==
    ASSUME Typed, NEW p \in Phone, NEW x \in RunState, run' = [run EXCEPT ![p] = x],
           x.todo \subseteq outbox[p] \ waiting[p],
           x.phase \in {"sent", "answered"} =>
              x.op \in outbox[p] \ (waiting[p] \cup x.todo),
           UNCHANGED <<account, server, copy, queue, intent, full, view, stray, did, faults>>
    PROVE  Typed'
  <1>1. run' \in [Phone -> RunState] /\ run'[p] = x /\ \A u \in Phone : u # p => run'[u] = run[u]
    BY Runs DEF Typed
  <1>2. TypeOK'
    BY <1>1 DEF Typed, TypeOK, RunState, account, server, copy, queue, intent
  <1> QED  BY <1>1, <1>2 DEF Typed, QueueInv, queue, intent

\* a close that sits out a backoff holds everything up, and there is no second
LEMMA TodoQueued ==
    ASSUME Typed, NEW p \in Phone
    PROVE  Todo(p) \subseteq outbox[p] \ waiting[p]
  <1>1. outbox[p] \subseteq Op /\ waiting[p] \subseteq outbox[p]
    BY Runs DEF Typed
  <1>2. \A o \in Op : o.n \in Nat
    BY DEF Op
  <1>3. Due(p) \subseteq outbox[p] \ waiting[p]
    BY <1>1, <1>2 DEF Due
  <1>4. CASE Closes(outbox[p]) \subseteq waiting[p] /\ Closes(outbox[p]) # {}
    BY <1>4 DEF Todo
  <1>5. CASE Closes(outbox[p]) = {}
    BY <1>3, <1>5 DEF Todo
  <1>6. CASE ~(Closes(outbox[p]) \subseteq waiting[p])
    <2>1. Closes(outbox[p]) \subseteq outbox[p] \ waiting[p]
      BY <1>6 DEF Closes, Typed, QueueInv
    <2> QED  BY <1>3, <1>6, <2>1 DEF Todo
  <1> QED  BY <1>4, <1>5, <1>6

\* Starting a run, sending, asking and reading keep the types.
LEMMA SyncRunTyped ==
    ASSUME Typed, NEW p \in Phone,
           StartRun(p) \/ Send(p) \/ AskPull(p) \/ ServerGet(p)
    PROVE  Typed'
  <1>1. /\ run[p] \in RunState /\ run[p].todo \subseteq outbox[p] \ waiting[p]
        /\ outbox[p] \subseteq Op /\ cursor[p] \in Nat /\ TypeOK
    BY Runs DEF Typed, TypeOK, QueueInv
  <1>2. CASE StartRun(p)
    <2>1. Todo(p) \subseteq outbox[p] \ waiting[p] /\ Todo(p) \subseteq Op
      BY <1>1, TodoQueued
    <2>2. /\ Flushing(Todo(p)) \in RunState /\ Flushing(Todo(p)).todo = Todo(p)
          /\ Flushing(Todo(p)).phase = "flush"
      BY <2>1, Flushes
    <2> QED  BY <1>2, <2>1, <2>2, RunTyped DEF StartRun
  <1>3. CASE Send(p)
    <2>1. PICK o \in run[p].todo :
             run' = [run EXCEPT ![p].phase = "sent", ![p].op = o, ![p].todo = @ \ {o}]
      BY <1>3 DEF Send
    <2> DEFINE x == [run[p] EXCEPT !.phase = "sent", !.op = o, !.todo = @ \ {o}]
    <2>2. /\ x \in RunState /\ x.todo = run[p].todo \ {o} /\ x.op = o
          /\ run' = [run EXCEPT ![p] = x]
      BY <1>1, <2>1 DEF RunState
    <2> HIDE DEF x
    <2> QED  BY <1>1, <1>3, <2>2, RunTyped DEF Send
  <1>4. CASE AskPull(p)
    <2> DEFINE x == [run[p] EXCEPT !.phase = "asked", !.after = IF full[p] THEN 0 ELSE cursor[p]]
    <2>1. /\ x \in RunState /\ x.todo = run[p].todo /\ x.phase = "asked"
          /\ run' = [run EXCEPT ![p] = x]
      BY <1>1, <1>4 DEF AskPull, RunState
    <2> HIDE DEF x
    <2> QED  BY <1>1, <1>4, <2>1, RunTyped DEF AskPull
  <1>5. CASE ServerGet(p)
    <2> DEFINE x == [run[p] EXCEPT !.phase = "pulled", !.after = 0, !.answer = Since(run[p].after)]
    <2>1. Since(run[p].after) \in Answer
      BY <1>1, SinceTyped DEF RunState
    <2>2. /\ x \in RunState /\ x.todo = run[p].todo /\ x.phase = "pulled"
          /\ run' = [run EXCEPT ![p] = x]
      BY <1>1, <1>5, <2>1 DEF ServerGet, RunState
    <2> HIDE DEF x
    <2> QED  BY <1>1, <1>5, <2>2, RunTyped DEF ServerGet
  <1> QED  BY <1>2, <1>3, <1>4, <1>5

\* a request reaches the server
LEMMA RequestTyped ==
    ASSUME Typed, Grows, did' \subseteq Phone \X Op, stray' \subseteq stray,
           run' \in [Phone -> RunState],
           \A p \in Phone : /\ run'[p].todo = run[p].todo /\ run'[p].op = run[p].op
                            /\ run'[p].phase = run[p].phase
                               \/ (run[p].phase = "sent" /\ run'[p].phase = "answered"),
           UNCHANGED <<account, copy, queue, intent, full, view, faults>>
    PROVE  Typed'
  <1>1. TypeOK'
    BY DEF Typed, TypeOK, Grows, RunState, account, copy, queue, intent
  <1> QED  BY <1>1 DEF Typed, QueueInv, queue, intent

\* The history of effects keeps its type.
LEMMA RecordTyped ==
    ASSUME TypeOK, NEW p \in Phone, NEW o \in Op, Record(p, o)
    PROVE  did' \subseteq Phone \X Op
  BY DEF Record, TypeOK

\* The server's steps keep the types.
LEMMA ServerTyped ==
    ASSUME Typed, ServerRunStray \/ ServerRunOther \/ \E p \in Phone : ServerRun(p)
    PROVE  Typed'
  <1>0. TypeOK /\ run \in [Phone -> RunState] /\ did \subseteq Phone \X Op
    BY Runs DEF Typed, TypeOK
  <1>1. CASE ServerRunOther
    BY <1>0, <1>1, OtherGrows, RequestTyped DEF ServerRunOther
  <1>2. CASE ServerRunStray
    <2>1. PICK s \in stray : /\ \E v \in {"ok", "refused"} : Serve(s[1], s[2], v)
                             /\ Record(s[1], s[2]) /\ stray' = stray \ {s}
      BY <1>2 DEF ServerRunStray
    <2>2. s[1] \in Phone /\ s[2] \in Op
      BY DEF Typed, TypeOK
    <2> QED  BY <1>0, <1>2, <2>1, <2>2, ServeGrows, RecordTyped, RequestTyped DEF ServerRunStray
  <1>3. ASSUME NEW p \in Phone, ServerRun(p) PROVE Typed'
    <2>1. PICK v \in {"ok", "refused"} :
             /\ Serve(p, run[p].op, v) /\ Record(p, run[p].op)
             /\ run' = [run EXCEPT ![p].phase = "answered", ![p].answer = Reply(run[p].op, v)]
      BY <1>3 DEF ServerRun
    <2>2. run[p].op \in Op /\ run[p].phase = "sent" /\ run[p] \in RunState
      BY <1>0, <1>3, Runs DEF ServerRun, Typed, QueueInv
    <2>3. Grows /\ Reply(run[p].op, v) \in Answer
      BY <1>0, <2>1, <2>2, ServeGrows, ReplyTyped
    <2> DEFINE x == [run[p] EXCEPT !.phase = "answered", !.answer = Reply(run[p].op, v)]
    <2>4. /\ x \in RunState /\ x.todo = run[p].todo /\ x.op = run[p].op /\ x.phase = "answered"
          /\ run' = [run EXCEPT ![p] = x]
      BY <1>0, <2>1, <2>2, <2>3 DEF RunState
    <2> HIDE DEF x
    <2>5. did' \subseteq Phone \X Op
      BY <1>0, <2>1, <2>2, RecordTyped
    <2>6. /\ run' \in [Phone -> RunState]
          /\ \A u \in Phone : /\ run'[u].todo = run[u].todo /\ run'[u].op = run[u].op
                              /\ run'[u].phase = run[u].phase
                                 \/ (run[u].phase = "sent" /\ run'[u].phase = "answered")
      BY <1>0, <2>2, <2>4
    <2> QED  BY <1>3, <2>3, <2>5, <2>6, RequestTyped DEF ServerRun
  <1> QED  BY <1>1, <1>2, <1>3

\* Handling an answer keeps the types.
LEMMA AnswerTyped ==
    ASSUME Typed, NEW p \in Phone, Acknowledge(p) \/ Reject(p) PROVE Typed'
  <1> DEFINE o == run[p].op
             S == IF Reject(p) /\ o.kind = "close" THEN {} ELSE run[p].todo
  <1>1. /\ TypeOK /\ run[p] \in RunState /\ run \in [Phone -> RunState]
        /\ outbox \in [Phone -> SUBSET Op] /\ failed \in [Phone -> SUBSET Op]
        /\ run[p].answer \in Answer
    BY Runs DEF Typed, TypeOK
  <1>2. /\ o \in outbox[p] \ (waiting[p] \cup run[p].todo) /\ o \in Op
        /\ run[p].todo \subseteq outbox[p] \ waiting[p]
        /\ outbox[p] \cup failed[p] \subseteq wrote[p]
    BY <1>1 DEF Acknowledge, Reject, Typed, QueueInv
  <1>3. /\ cache' \in [Phone -> [Entry -> CacheRow]]
        /\ cursor' \in [Phone -> Nat] /\ shut' \in [Phone -> BOOLEAN]
    <2>1. CASE Acknowledge(p)
      BY <1>1, <2>1, IngestTyped DEF Acknowledge, copy, TypeOK, CacheRow
    <2>2. CASE Reject(p) /\ ~(o.kind = "append" /\ cache[p][o.entry].local)
      BY <1>1, <2>2 DEF Reject, TypeOK, CacheRow
    <2>3. CASE Reject(p) /\ o.kind = "append" /\ cache[p][o.entry].local
      <3>1. Copy(NoRow) \in CacheRow
        BY DEF Copy, CacheRow
      <3> QED  BY <1>1, <2>3, <3>1 DEF Reject, TypeOK, CacheRow
    <2> QED  BY <2>1, <2>2, <2>3
  <1>4. /\ run' = [run EXCEPT ![p] = Flushing(S)]
        /\ outbox' = [outbox EXCEPT ![p] = @ \ {o}]
        /\ failed' = failed \/ failed' = [failed EXCEPT ![p] = @ \cup {o}]
        /\ full' = full \/ full' = [full EXCEPT ![p] = TRUE]
        /\ UNCHANGED <<account, server, waiting, intent, view, stray, did, faults>>
    BY DEF Acknowledge, Reject
  <1>5. S \subseteq run[p].todo /\ S \subseteq Op
    BY <1>1 DEF RunState
  <1> HIDE DEF o, S
  <1>6. /\ Flushing(S) \in RunState /\ Flushing(S).todo = S /\ Flushing(S).phase = "flush"
    BY <1>5, Flushes
  <1>7. /\ run' \in [Phone -> RunState] /\ run'[p] = Flushing(S)
        /\ outbox' \in [Phone -> SUBSET Op] /\ outbox'[p] = outbox[p] \ {o}
        /\ failed' \in [Phone -> SUBSET Op] /\ failed'[p] \subseteq failed[p] \cup {o}
        /\ \A u \in Phone : u # p => /\ run'[u] = run[u] /\ outbox'[u] = outbox[u]
                                     /\ failed'[u] = failed[u]
    BY <1>1, <1>2, <1>4, <1>6
  <1>8. waiting[p] \subseteq outbox'[p] /\ S \subseteq outbox'[p]
    BY <1>1, <1>2, <1>5, <1>7, Runs
  <1>9. TypeOK'
    BY <1>1, <1>3, <1>4, <1>7, <1>8 DEF Typed, TypeOK, account, server, intent, RunState, CacheRow
  <1>10. QueueInv'
    BY <1>2, <1>4, <1>5, <1>6, <1>7, <1>8 DEF Typed, QueueInv, intent
  <1> QED  BY <1>9, <1>10 DEF Typed

\* a step that ends a run, or an attempt of it, and keeps the operations
LEMMA EndTyped ==
    ASSUME Typed, NEW p \in Phone, NEW x \in {IdleRun, Flushing({})}, run' = [run EXCEPT ![p] = x],
           waiting' \in [Phone -> SUBSET Op],
           \A u \in Phone : waiting'[u] \subseteq outbox[u] /\ (u # p => waiting'[u] = waiting[u]),
           cache' \in [Phone -> [Entry -> CacheRow]],
           cursor' \in [Phone -> Nat], shut' \in [Phone -> BOOLEAN],
           full' \in [Phone -> BOOLEAN], view' \in [Phone -> Answer],
           stray' \subseteq stray \cup {<<p, o>> : o \in outbox[p]}, faults' \in Nat,
           UNCHANGED <<account, server, outbox, failed, intent, did>>
    PROVE  Typed'
  <1>1. x \in RunState /\ x.todo = {} /\ x.phase \notin {"sent", "answered"}
    <2>1. Flushing({}) \in RunState /\ Flushing({}).todo = {} /\ Flushing({}).phase = "flush"
      BY Flushes
    <2>2. IdleRun \in RunState /\ IdleRun.todo = {} /\ IdleRun.phase = "idle"
      BY Empty DEF IdleRun
    <2> QED  BY <2>1, <2>2
  <1>2. run' \in [Phone -> RunState] /\ run'[p] = x /\ \A u \in Phone : u # p => run'[u] = run[u]
    BY <1>1, Runs DEF Typed
  <1>3. stray' \subseteq Phone \X Op
    BY Runs DEF Typed, TypeOK
  <1>4. TypeOK'
    BY <1>2, <1>3 DEF Typed, TypeOK, account, server, intent, RunState, CacheRow
  <1>5. \A s \in stray' : s[2] \in wrote'[s[1]]
    BY DEF Typed, QueueInv, intent
  <1> QED  BY <1>1, <1>2, <1>4, <1>5 DEF Typed, QueueInv, intent

\* So do a timeout, a failed pull and a kill.
LEMMA EndsTyped ==
    ASSUME Typed, NEW p \in Phone, HandlePull(p) \/ Fault(p)
    PROVE  Typed'
  <1>1. /\ TypeOK /\ run[p].answer \in Answer /\ NoAnswer \in Answer /\ outbox[p] \subseteq Op
        /\ run[p].phase \in {"sent", "answered"} => run[p].op \in outbox[p]
        /\ waiting \in [Phone -> SUBSET Op] /\ \A u \in Phone : waiting[u] \subseteq outbox[u]
        /\ cache \in [Phone -> [Entry -> CacheRow]]
        /\ cursor \in [Phone -> Nat] /\ shut \in [Phone -> BOOLEAN]
        /\ full \in [Phone -> BOOLEAN] /\ view \in [Phone -> Answer] /\ faults \in Nat
    BY Runs, Empty DEF Typed, TypeOK, QueueInv, CacheRow
  <1>2. CASE HandlePull(p)
    <2>1. /\ cache' \in [Phone -> [Entry -> CacheRow]]
          /\ cursor' \in [Phone -> Nat] /\ shut' \in [Phone -> BOOLEAN]
      BY <1>1, <1>2, IngestTyped DEF HandlePull
    <2> QED  BY <1>1, <1>2, <2>1, EndTyped DEF HandlePull, queue
  <1>3. CASE Timeout(p)
    <2>1. /\ waiting' \in [Phone -> SUBSET Op]
          /\ \A u \in Phone : waiting'[u] \subseteq outbox[u] /\ (u # p => waiting'[u] = waiting[u])
      BY <1>1, <1>3 DEF Timeout
    <2>2. stray' \subseteq stray \cup {<<p, o>> : o \in outbox[p]}
      BY <1>1, <1>3 DEF Timeout
    <2>3. /\ run' = [run EXCEPT ![p] = Flushing({})]
          /\ cache' \in [Phone -> [Entry -> CacheRow]]
          /\ cursor' \in [Phone -> Nat] /\ shut' \in [Phone -> BOOLEAN]
          /\ full' \in [Phone -> BOOLEAN] /\ view' \in [Phone -> Answer] /\ faults' \in Nat
          /\ UNCHANGED <<account, server, outbox, failed, intent, did>>
      BY <1>1, <1>3 DEF Timeout, copy
    <2> QED  BY <2>1, <2>2, <2>3, EndTyped
  <1>4. CASE PullFails(p)
    <2>1. /\ run' = [run EXCEPT ![p] = IdleRun]
          /\ cache' \in [Phone -> [Entry -> CacheRow]]
          /\ cursor' \in [Phone -> Nat] /\ shut' \in [Phone -> BOOLEAN]
          /\ full' \in [Phone -> BOOLEAN] /\ view' \in [Phone -> Answer] /\ faults' \in Nat
          /\ UNCHANGED <<account, server, outbox, failed, intent, did>>
      BY <1>1, <1>4 DEF PullFails, copy, queue
    <2>2. waiting' = waiting /\ stray' = stray
      BY <1>4 DEF PullFails, queue
    <2> QED  BY <1>1, <2>1, <2>2, EndTyped
  <1>5. CASE Kill(p)
    <2>1. /\ cache' \in [Phone -> [Entry -> CacheRow]]
          /\ cursor' \in [Phone -> Nat] /\ shut' \in [Phone -> BOOLEAN]
      BY <1>1, <1>5, IngestTyped DEF Kill, copy
    <2>2. stray' \subseteq stray \cup {<<p, o>> : o \in outbox[p]}
      BY <1>1, <1>5 DEF Kill
    <2>3. /\ run' = [run EXCEPT ![p] = IdleRun]
          /\ cache' \in [Phone -> [Entry -> CacheRow]]
          /\ cursor' \in [Phone -> Nat] /\ shut' \in [Phone -> BOOLEAN]
          /\ full' \in [Phone -> BOOLEAN] /\ view' \in [Phone -> Answer] /\ faults' \in Nat
          /\ UNCHANGED <<account, server, outbox, failed, intent, did>>
      <3>1. /\ faults' = faults + 1 /\ run' = [run EXCEPT ![p] = IdleRun]
            /\ full' = [full EXCEPT ![p] = FALSE] /\ view' = [view EXCEPT ![p] = NoAnswer]
            /\ UNCHANGED <<account, server, queue, intent, did>>
        BY <1>5 DEF Kill
      <3> QED  BY <1>1, <2>1, <3>1 DEF queue
    <2>4. waiting' = waiting
      BY <1>5 DEF Kill, queue
    <2> QED  BY <1>1, <2>2, <2>3, <2>4, EndTyped
  <1> QED  BY <1>2, <1>3, <1>4, <1>5 DEF Fault

\* So do the end of a backoff and a group's responses.
LEMMA RestTyped ==
    ASSUME Typed, NEW p \in Phone, BackoffElapsed(p) \/ CacheGroup(p) PROVE Typed'
  <1>1. TypeOK /\ view[p] \in Answer /\ NoAnswer \in Answer
    BY Empty DEF Typed, TypeOK
  <1>2. CASE BackoffElapsed(p)
    BY <1>2 DEF BackoffElapsed, Typed, TypeOK, QueueInv, account, server, copy, intent
  <1>3. CASE CacheGroup(p)
    <2>1. /\ cache' \in [Phone -> [Entry -> CacheRow]]
          /\ cursor' \in [Phone -> Nat] /\ shut' \in [Phone -> BOOLEAN]
      BY <1>1, <1>3, IngestTyped DEF CacheGroup
    <2> QED  BY <1>1, <1>3, <2>1
             DEF CacheGroup, Typed, TypeOK, QueueInv, CacheRow, account, server, queue, intent
  <1> QED  BY <1>2, <1>3

\* The types and the queue's shape hold at the start,
LEMMA InitTyped == Init => Typed
  <1> SUFFICES ASSUME Init PROVE Typed
    OBVIOUS
  <1>1. Copy(NoRow) \in CacheRow /\ NoAnswer \in Answer /\ IdleRun \in RunState
    BY Empty DEF Copy, CacheRow
  <1>2. TypeOK
    BY <1>1 DEF Init, TypeOK, CacheRow, RunState
  <1>3. QueueInv
    BY FS_EmptySet DEF Init, QueueInv, IdleRun
  <1> QED  BY <1>2, <1>3 DEF Typed

\* and after every step.
LEMMA StepTyped == Typed /\ [Next]_vars => Typed'
  <1> SUFFICES ASSUME Typed, [Next]_vars PROVE Typed'
    OBVIOUS
  <1>1. ASSUME NEW p \in Phone, Sync(p) PROVE Typed'
    BY <1>1, SyncRunTyped, ServerTyped, AnswerTyped, EndsTyped, RestTyped DEF Sync
  <1>2. CASE UNCHANGED vars
    BY <1>2 DEF vars, account, server, copy, queue, intent, Typed, TypeOK, QueueInv
  <1> QED  BY <1>1, <1>2, UserTyped, EndsTyped, ServerTyped DEF Next

\* Types, and: an operation that sits out its backoff is still queued
\* (tab_outbox.next_attempt_at).
THEOREM TypeCorrect == Spec => []TypeOK
  <1>1. Spec => []Typed
    BY InitTyped, StepTyped, PTL DEF Spec
  <1>2. Typed => TypeOK
    BY DEF Typed
  <1> QED  BY <1>1, <1>2, PTL

\* The first decision on an entry is final (setStatus, Void): of whichever
\* phone, and however late a request arrives.
THEOREM FirstDecision == Spec => FirstDecisionStands
  <1>1. Spec => []Typed
    BY InitTyped, StepTyped, PTL DEF Spec
  <1>2. Typed /\ [Next]_vars => [\A e \in Entry : row[e] # NoRow /\ ~Pending(row[e]) => row'[e] = row[e]]_vars
    BY StepGrows DEF Typed, Grows
  <1> QED  BY <1>1, <1>2, PTL DEF Spec, FirstDecisionStands

----------------------------------------------------------------------------
(* Where rows come from: operations, copies and answers name real entries *)

\* An answer shows the rows of some moment: what it says is decided stays so,
\* and up to its revision it holds the row there is, or leaves it out.
Past(a, rows, n) ==
    /\ a.rev <= n
    /\ \A e \in Entry :
          /\ a.row[e] # NoRow => /\ rows[e] # NoRow
                                 /\ ~Pending(a.row[e]) => rows[e] = a.row[e]
          /\ rows[e] # NoRow /\ rows[e].rev <= a.rev =>
                a.row[e] = rows[e] \/ (a.row[e] = NoRow /\ ~a.full)

Numbered(rows, n) == \A e \in Entry : rows[e] # NoRow => rows[e].rev \in 1..n

OwnOps ==
    \A p \in Phone : \A o \in wrote[p] :
        /\ o.kind = "append" => By[o.entry] = p
        /\ o.kind \in {"accepted", "disputed"} => Theirs(p, o.entry) /\ row[o.entry] # NoRow

OwnRows ==
    \A e \in Entry : row[e] # NoRow /\ By[e] \in Phone =>
        \E o \in wrote[By[e]] : o.kind = "append" /\ o.entry = e

KnownRows ==
    \A p \in Phone, e \in Entry : cache[p][e].row # NoRow =>
        IF cache[p][e].local THEN By[e] = p ELSE row[e] # NoRow

PastAnswers ==
    \A p \in Phone : Past(run[p].answer, row, rev) /\ Past(view[p], row, rev)

Sourced ==
    Typed /\ Numbered(row, rev) /\ OwnOps /\ OwnRows /\ KnownRows /\ PastAnswers

\* Revisions stay within the counter of the tab.
LEMMA NumberedStable ==
    ASSUME TypeOK, Grows, Numbered(row, rev) PROVE Numbered(row', rev')
  <1>1. rev \in Nat /\ rev' \in Nat /\ rev <= rev'
    BY DEF TypeOK, Grows
  <1> SUFFICES ASSUME NEW e \in Entry, row'[e] # NoRow PROVE row'[e].rev \in 1..rev'
    BY DEF Numbered
  <1>2. CASE row'[e] = row[e]
    BY <1>1, <1>2 DEF Numbered
  <1>3. CASE row'[e] # row[e]
    BY <1>1, <1>3 DEF Grows
  <1> QED  BY <1>2, <1>3

\* An answer that was true of the server's past stays so.
LEMMA PastStable ==
    ASSUME TypeOK, Grows, NEW a \in Answer, Past(a, row, rev) PROVE Past(a, row', rev')
  <1>1. a.rev \in Nat /\ rev \in Nat /\ rev' \in Nat /\ rev <= rev' /\ a.rev <= rev
    BY DEF TypeOK, Grows, Past, Answer
  <1>2. ASSUME NEW e \in Entry
        PROVE  /\ a.row[e] # NoRow => /\ row'[e] # NoRow
                                      /\ ~Pending(a.row[e]) => row'[e] = a.row[e]
               /\ row'[e] # NoRow /\ row'[e].rev <= a.rev =>
                     a.row[e] = row'[e] \/ (a.row[e] = NoRow /\ ~a.full)
    <2>1. CASE row'[e] = row[e]
      BY <2>1 DEF Past
    <2>2. CASE row'[e] # row[e]
      BY <1>1, <2>2 DEF Past, Grows
    <2> QED  BY <2>1, <2>2
  <1> QED  BY <1>1, <1>2 DEF Past

\* What a pull reads now is true of the server now,
LEMMA SincePast ==
    ASSUME TypeOK, NEW after \in Nat, Numbered(row, rev)
    PROVE  /\ Since(after).rev = rev /\ Since(after).full = (after = 0)
           /\ \A e \in Entry : Since(after).row[e] = IF row[e].rev > after THEN row[e] ELSE NoRow
           /\ after = 0 => Past(Since(after), row, rev)
  <1>1. /\ Since(after).rev = rev /\ Since(after).full = (after = 0)
        /\ \A e \in Entry : Since(after).row[e] = IF row[e].rev > after THEN row[e] ELSE NoRow
    BY DEF Since
  <1> QED  BY <1>1 DEF Past, Numbered, TypeOK

\* from whatever revision on.
LEMMA SincePastAny ==
    ASSUME TypeOK, NEW after \in Nat, Numbered(row, rev)
    PROVE  Past(Since(after), row, rev)
  <1>1. CASE after = 0
    BY <1>1, SincePast
  <1>2. CASE after # 0
    BY <1>2, SincePast DEF Past, TypeOK
  <1> QED  BY <1>1, <1>2

\* The empty answer says nothing.
LEMMA NothingPast ==
    ASSUME TypeOK, Numbered(row, rev) PROVE Past(NoAnswer, row, rev)
  BY DEF Past, NoAnswer, Numbered, TypeOK

\* The answer to an operation is true of the server after it.
LEMMA ReplyPast ==
    ASSUME TypeOK, Grows, NEW o \in Op, NEW v \in {"ok", "refused"},
           Numbered(row', rev'), v = "ok" /\ o.kind # "close" => row'[o.entry] # NoRow
    PROVE  Past(Reply(o, v), row', rev')
  <1>1. rev' \in Nat
    BY DEF Grows
  <1>2. CASE v = "refused"
    <2>1. Reply(o, v).rev = 0 /\ \A e \in Entry : Reply(o, v).row[e] = NoRow
      BY <1>2 DEF Reply, NoAnswer
    <2> QED  BY <1>1, <2>1 DEF Past, Numbered
  <1>3. CASE v = "ok"
    <2>1. /\ Reply(o, v).rev = rev' /\ Reply(o, v).full = (o.kind = "close")
          /\ \A e \in Entry : Reply(o, v).row[e] =
                IF o.kind = "close" \/ e = o.entry THEN row'[e] ELSE NoRow
      BY <1>3 DEF Reply
    <2> DEFINE a == Reply(o, v)
    <2> HIDE DEF a
    <2>2. ASSUME NEW e \in Entry
          PROVE  /\ a.row[e] # NoRow => /\ row'[e] # NoRow
                                        /\ ~Pending(a.row[e]) => row'[e] = a.row[e]
                 /\ row'[e] # NoRow /\ row'[e].rev <= a.rev =>
                       a.row[e] = row'[e] \/ (a.row[e] = NoRow /\ ~a.full)
      BY <2>1, Zenon DEF a
    <2> QED  BY <1>1, <2>1, <2>2 DEF Past, a
  <1> QED  BY <1>2, <1>3

\* What a step may add: operations, rows, copies and answers of the right make.
LEMMA SourcedFrame ==
    ASSUME Sourced, Typed', Grows,
           \A p \in Phone : wrote[p] \subseteq wrote'[p],
           \A p \in Phone : \A o \in wrote'[p] \ wrote[p] :
              /\ o.kind = "append" => By[o.entry] = p
              /\ o.kind \in {"accepted", "disputed"} => Theirs(p, o.entry) /\ row[o.entry] # NoRow,
           \A e \in Entry : row[e] = NoRow /\ row'[e] # NoRow =>
              \/ By[e] \in Other
              \/ \E p \in Phone : \E o \in wrote[p] : o.kind = "append" /\ o.entry = e,
           \A p \in Phone, e \in Entry :
              \/ cache'[p][e] = cache[p][e]
              \/ cache'[p][e].row # NoRow =>
                    \/ IF cache'[p][e].local THEN By[e] = p ELSE row[e] # NoRow
                    \/ cache[p][e].row # NoRow /\ cache'[p][e].local = cache[p][e].local,
           \A p \in Phone :
              /\ run'[p].answer = run[p].answer \/ Past(run'[p].answer, row', rev')
              /\ view'[p] = view[p] \/ Past(view'[p], row', rev')
    PROVE  Sourced'
  <1>1. TypeOK /\ Numbered(row, rev)
    BY DEF Sourced, Typed
  <1>2. Numbered(row', rev')
    BY <1>1, NumberedStable
  <1>3. \A e \in Entry : row[e] # NoRow => row'[e] # NoRow
    BY DEF Grows
  <1>4. \A p \in Phone : \A o \in wrote'[p] : o \in Op
    BY DEF Typed, TypeOK
  <1>5. OwnOps'
    <2> SUFFICES ASSUME NEW p \in Phone, NEW o \in wrote'[p]
                 PROVE  /\ o.kind = "append" => By[o.entry] = p
                        /\ o.kind \in {"accepted", "disputed"} =>
                             Theirs(p, o.entry) /\ row'[o.entry] # NoRow
      BY DEF OwnOps, Theirs
    <2>1. /\ o.kind = "append" => By[o.entry] = p
          /\ o.kind \in {"accepted", "disputed"} => Theirs(p, o.entry) /\ row[o.entry] # NoRow
      BY DEF Sourced, OwnOps
    <2> QED  BY <1>3, <1>4, <2>1, Ops
  <1>6. OwnRows'
    <2> SUFFICES ASSUME NEW e \in Entry, row'[e] # NoRow, By[e] \in Phone
                 PROVE  \E o \in wrote'[By[e]] : o.kind = "append" /\ o.entry = e
      BY DEF OwnRows
    <2>1. CASE row[e] # NoRow
      BY <2>1 DEF Sourced, OwnRows
    <2>2. CASE row[e] = NoRow
      <3>1. PICK p \in Phone : \E o \in wrote[p] : o.kind = "append" /\ o.entry = e
        BY <2>2, TabAssumption
      <3> QED  BY <3>1 DEF Sourced, OwnOps
    <2> QED  BY <2>1, <2>2
  <1>7. KnownRows'
    BY <1>3 DEF Sourced, KnownRows
  <1>8. PastAnswers'
    <2> SUFFICES ASSUME NEW p \in Phone
                 PROVE  Past(run'[p].answer, row', rev') /\ Past(view'[p], row', rev')
      BY DEF PastAnswers
    <2>1. run[p].answer \in Answer /\ view[p] \in Answer
      BY <1>1, Runs DEF TypeOK
    <2>2. Past(run[p].answer, row, rev) /\ Past(view[p], row, rev)
      BY DEF Sourced, PastAnswers
    <2> QED  BY <1>1, <2>1, <2>2, PastStable
  <1> QED  BY <1>2, <1>5, <1>6, <1>7, <1>8 DEF Sourced

\* An append that is granted leaves the entry there.
LEMMA AppendMakes ==
    ASSUME TypeOK, NEW p, NEW e \in Entry, NEW v, Append(p, e, v)
    PROVE  \A f \in Entry : row[f] = NoRow /\ row'[f] # NoRow => f = e
  BY DEF Append, Refuse, Stamp, server, TypeOK

\* A review that is granted leaves the entry decided that way.
LEMMA SetStatusMakes ==
    ASSUME TypeOK, NEW p, NEW e \in Entry, NEW s, NEW v, SetStatus(p, e, s, v) \/ Void(p, e, v)
    PROVE  \A f \in Entry : row[f] = NoRow => row'[f] = NoRow
  <1>1. Pending(row[e]) => row[e] # NoRow
    BY Rows
  <1> QED  BY <1>1 DEF SetStatus, Void, Refuse, Stamp, server, TypeOK

\* An operation that is granted is done.
LEMMA ServeMakes ==
    ASSUME TypeOK, NEW p, NEW o \in Op, NEW v, Serve(p, o, v)
    PROVE  \A f \in Entry : row[f] = NoRow /\ row'[f] # NoRow => o.kind = "append" /\ o.entry = f
  <1>1. CASE Refuse(v)
    BY <1>1 DEF Refuse, server
  <1>2. CASE o.kind = "append" /\ Append(p, o.entry, v)
    BY <1>2, Ops, AppendMakes
  <1>3. CASE o.kind \in {"accepted", "disputed"} /\ SetStatus(p, o.entry, o.kind, v)
    <2>1. o.entry \in Entry
      BY <1>3, Ops
    <2> QED  BY <1>3, <2>1, SetStatusMakes
  <1>4. CASE o.kind = "void" /\ Void(p, o.entry, v)
    BY <1>4, Ops, SetStatusMakes
  <1>5. CASE CloseTab(v)
    BY <1>5, CloseGrows
  <1> QED  BY <1>1, <1>2, <1>3, <1>4, <1>5 DEF Serve

\* Another device's request leaves what was done done.
LEMMA OtherMakes ==
    ASSUME TypeOK, ServerRunOther
    PROVE  \A f \in Entry : row[f] = NoRow /\ row'[f] # NoRow => By[f] \in Other
  BY AppendMakes, SetStatusMakes, CloseGrows DEF ServerRunOther

\* what an answer leaves in a copy
LEMMA MergedRows ==
    ASSUME NEW c \in [Entry -> CacheRow], NEW a \in Answer, NEW e \in Entry
    PROVE  /\ a.row[e] # NoRow => Merged(c, a)[e] = Copy(a.row[e])
           /\ a.row[e] = NoRow => \/ Merged(c, a)[e] = c[e]
                                  \/ a.full /\ ~c[e].local /\ Merged(c, a)[e] = Copy(NoRow)
           /\ a.row[e] = NoRow /\ ~a.full => Merged(c, a)[e] = c[e]
           /\ a.row[e] = NoRow /\ c[e].local => Merged(c, a)[e] = c[e]
  BY DEF Merged

\* A row a phone caches is one the server had.
LEMMA IngestKnown ==
    ASSUME Sourced, NEW p \in Phone, NEW a \in Answer, NEW pulled \in BOOLEAN,
           Past(a, row, rev), Ingest(p, a, pulled)
    PROVE  \A u \in Phone, e \in Entry :
              \/ cache'[u][e] = cache[u][e]
              \/ cache'[u][e].row # NoRow =>
                    IF cache'[u][e].local THEN By[e] = u ELSE row[e] # NoRow
  <1> SUFFICES ASSUME NEW u \in Phone, NEW e \in Entry, cache'[u][e] # cache[u][e],
                      cache'[u][e].row # NoRow
               PROVE  IF cache'[u][e].local THEN By[e] = u ELSE row[e] # NoRow
    OBVIOUS
  <1>1. u = p /\ cache'[p] = Merged(cache[p], a) /\ cache[p] \in [Entry -> CacheRow]
    BY IngestTyped DEF Sourced, Typed, TypeOK, CacheRow
  <1>2. cache'[p][e] = Copy(a.row[e]) /\ a.row[e] # NoRow
    BY <1>1, MergedRows DEF Copy
  <1> QED  BY <1>1, <1>2 DEF Past, Copy

\* a change on the phone: an operation, and what it shows
LEMMA QueueSourced ==
    ASSUME Sourced, Typed', UNCHANGED server, NEW p \in Phone, NEW kind, NEW e,
           Queue(p, kind, e),
           kind = "append" => By[e] = p,
           kind \in {"accepted", "disputed"} => Theirs(p, e) /\ row[e] # NoRow,
           \A u \in Phone, f \in Entry :
              \/ cache'[u][f] = cache[u][f]
              \/ IF cache'[u][f].local THEN By[f] = u ELSE row[f] # NoRow
              \/ cache[u][f].row # NoRow /\ cache'[u][f].local = cache[u][f].local
    PROVE  Sourced'
  <1> DEFINE o == [n |-> Cardinality(wrote[p]) + 1, kind |-> kind, entry |-> e]
  <1>1. wrote' = [wrote EXCEPT ![p] = @ \cup {o}] /\ run' = run /\ view' = view
    BY DEF Queue
  <1>2. o.kind = kind /\ o.entry = e
    OBVIOUS
  <1> HIDE DEF o
  <1>3. wrote \in [Phone -> SUBSET Op] /\ TypeOK
    BY DEF Sourced, Typed, TypeOK
  <1>4. \A u \in Phone : /\ wrote[u] \subseteq wrote'[u]
                         /\ wrote'[u] \ wrote[u] \subseteq IF u = p THEN {o} ELSE {}
    BY <1>1, <1>3
  <1>5. Grows /\ row' = row
    BY <1>3, Still DEF server
  <1> QED  BY <1>1, <1>2, <1>4, <1>5, SourcedFrame

\* A user's change keeps every cached row grounded in the server's past.
LEMMA UserSourced ==
    ASSUME Sourced, NEW p \in Phone, User(p) PROVE Sourced'
  <1>0. /\ Typed' /\ TypeOK /\ Numbered(row, rev)
        /\ cache \in [Phone -> [Entry -> CacheRow]]
    BY UserTyped DEF Sourced, Typed, TypeOK, CacheRow
  <1>1. ASSUME NEW e \in Entry, AddEntry(p, e) PROVE Sourced'
    <2>1. [row |-> [rev |-> 0, status |-> "pending", void |-> FALSE],
           local |-> TRUE, mark |-> FALSE] \in CacheRow
      BY NewRow DEF CacheRow
    <2>2. \A u \in Phone, f \in Entry :
             cache'[u][f] = cache[u][f] \/ (cache'[u][f].local /\ By[f] = u)
      BY <1>0, <1>1, <2>1, ShowTyped DEF AddEntry
    <2>3. UNCHANGED server /\ Queue(p, "append", e) /\ By[e] = p
      BY <1>1 DEF AddEntry, Queue
    <2> QED  BY <1>0, <2>2, <2>3, QueueSourced
  <1>2. ASSUME NEW e \in Entry, NEW s \in {"accepted", "disputed"}, Review(p, e, s)
        PROVE  Sourced'
    <2>0. cache[p][e] \in CacheRow /\ Pending(cache[p][e].row) /\ s \in Status /\ Theirs(p, e)
      BY <1>0, <1>2 DEF Review, Status
    <2> DEFINE c == [cache[p][e] EXCEPT !.row.status = s, !.mark = TRUE]
    <2>5. c \in CacheRow /\ c.local = cache[p][e].local
      BY <2>0, Marked
    <2>6. cache[p][e].row # NoRow
      BY <2>0 DEF Pending, NoRow
    <2>7. Show(p, e, c)
      BY <1>2 DEF Review
    <2> HIDE DEF c
    <2>2. \A u \in Phone, f \in Entry :
             \/ cache'[u][f] = cache[u][f]
             \/ cache[u][f].row # NoRow /\ cache'[u][f].local = cache[u][f].local
      BY <1>0, <2>5, <2>6, <2>7, ShowTyped
    <2>3. row[e] # NoRow
      BY <2>0, <2>6 DEF Sourced, KnownRows, Theirs
    <2>4. UNCHANGED server /\ Queue(p, s, e)
      BY <1>2 DEF Review, Queue
    <2> QED  BY <1>0, <2>0, <2>2, <2>3, <2>4, QueueSourced
  <1>3. ASSUME NEW e \in Entry, Withdraw(p, e) PROVE Sourced'
    <2>0. cache[p][e] \in CacheRow /\ Pending(cache[p][e].row)
      BY <1>0, <1>3 DEF Withdraw
    <2> DEFINE c == [cache[p][e] EXCEPT !.row.void = TRUE, !.mark = TRUE]
    <2>5. c \in CacheRow /\ c.local = cache[p][e].local
      BY <2>0, Marked
    <2>6. cache[p][e].row # NoRow
      BY <2>0 DEF Pending, NoRow
    <2>7. Show(p, e, c)
      BY <1>3 DEF Withdraw
    <2> HIDE DEF c
    <2>2. \A u \in Phone, f \in Entry :
             \/ cache'[u][f] = cache[u][f]
             \/ cache[u][f].row # NoRow /\ cache'[u][f].local = cache[u][f].local
      BY <1>0, <2>5, <2>6, <2>7, ShowTyped
    <2>3. UNCHANGED server /\ Queue(p, "void", e)
      BY <1>3 DEF Withdraw, Queue
    <2> QED  BY <1>0, <2>2, <2>3, QueueSourced
  <1>4. ASSUME NEW e \in Entry, NEW s \in {"accepted", "disputed"}, Tap(p, e, s)
        PROVE  Sourced'
    <2>1. /\ Theirs(p, e) /\ row[e] # NoRow /\ Queue(p, s, e)
          /\ UNCHANGED server /\ cache' = cache
      BY <1>0, <1>4, Rows DEF Tap, Queue
    <2> QED  BY <1>0, <2>1, QueueSourced
  <1>5. CASE Close(p)
    <2>1. UNCHANGED server /\ Queue(p, "close", NoEntry) /\ cache' = cache
      BY <1>5 DEF Close, Queue
    <2> QED  BY <1>0, <2>1, QueueSourced
  <1>6. CASE FetchGroup(p)
    <2>1. Past(Since(0), row, rev)
      BY <1>0, SincePastAny
    <2>2. /\ view' = [view EXCEPT ![p] = Since(0)] /\ view \in [Phone -> Answer]
          /\ UNCHANGED <<server, cache, run, wrote>>
      BY <1>0, <1>6 DEF FetchGroup, copy, intent, TypeOK
    <2>3. Grows /\ row' = row /\ rev' = rev
      BY <1>0, <2>2, Still DEF server
    <2> QED  BY <1>0, <2>1, <2>2, <2>3, SourcedFrame
  <1>7. CASE CloseGroup(p)
    <2>1. /\ Grows /\ row' = row /\ view' = [view EXCEPT ![p] = Since(0)']
          /\ view \in [Phone -> Answer] /\ UNCHANGED <<cache, run, wrote>>
      BY <1>0, <1>7, CloseGrows DEF CloseGroup, copy, intent, TypeOK
    <2>2. /\ Since(0)'.rev = rev' /\ Since(0)'.full
          /\ \A e \in Entry : Since(0)'.row[e] = IF row'[e].rev > 0 THEN row'[e] ELSE NoRow
      BY DEF Since
    <2>3. Numbered(row', rev') /\ rev' \in Nat
      BY <1>0, <2>1, NumberedStable DEF Grows
    <2>4. Past(Since(0)', row', rev')
      BY <2>2, <2>3 DEF Past, Numbered
    <2> QED  BY <1>0, <2>1, <2>4, SourcedFrame
  <1> QED  BY <1>1, <1>2, <1>3, <1>4, <1>5, <1>6, <1>7 DEF User

\* a step in which the server may move, and a phone gets an answer at most
LEMMA ServerSourced ==
    ASSUME Sourced, ServerRunStray \/ ServerRunOther \/ \E p \in Phone : ServerRun(p)
    PROVE  Sourced'
  <1>0. /\ Typed' /\ TypeOK /\ Numbered(row, rev) /\ run \in [Phone -> RunState]
        /\ \A p \in Phone : wrote[p] \subseteq Op
    BY ServerTyped, Runs DEF Sourced, Typed, TypeOK
  <1>1. CASE ServerRunOther
    <2>1. UNCHANGED <<cache, run, view, wrote>>
      BY <1>1 DEF ServerRunOther, copy, intent
    <2> QED  BY <1>0, <1>1, <2>1, OtherGrows, OtherMakes, SourcedFrame
  <1>2. CASE ServerRunStray
    <2>1. PICK s \in stray, v \in {"ok", "refused"} : Serve(s[1], s[2], v)
      BY <1>2 DEF ServerRunStray
    <2>2. s[1] \in Phone /\ s[2] \in Op /\ s[2] \in wrote[s[1]]
      BY DEF Sourced, Typed, TypeOK, QueueInv
    <2>3. UNCHANGED <<cache, run, view, wrote>>
      BY <1>2 DEF ServerRunStray, copy, intent
    <2>4. Grows
      BY <1>0, <2>1, <2>2, ServeGrows
    <2>5. \A f \in Entry : row[f] = NoRow /\ row'[f] # NoRow =>
             \E o \in wrote[s[1]] : o.kind = "append" /\ o.entry = f
      BY <1>0, <2>1, <2>2, ServeMakes
    <2> QED  BY <1>0, <2>2, <2>3, <2>4, <2>5, SourcedFrame
  <1>3. ASSUME NEW p \in Phone, ServerRun(p) PROVE Sourced'
    <2> DEFINE o == run[p].op
    <2>1. PICK v \in {"ok", "refused"} :
             /\ Serve(p, o, v)
             /\ run' = [run EXCEPT ![p].phase = "answered", ![p].answer = Reply(o, v)]
      BY <1>3 DEF ServerRun
    <2>2. o \in Op /\ o \in wrote[p]
      BY <1>0, <1>3, Runs DEF ServerRun, Sourced, Typed, QueueInv
    <2> HIDE DEF o
    <2>3. Grows
      BY <1>0, <2>1, <2>2, ServeGrows
    <2>4. v = "ok" /\ o.kind # "close" => row'[o.entry] # NoRow
      <3> SUFFICES ASSUME v = "ok", o.kind # "close" PROVE row'[o.entry] # NoRow
        OBVIOUS
      <3>1. o.kind \in {"append", "accepted", "disputed", "void"}
        BY <2>2, Ops DEF Kind
      <3>2. "accepted" # "none" /\ "disputed" # "none"
        OBVIOUS
      <3> QED  BY <1>0, <2>1, <2>2, <3>1, <3>2, ServeDoes DEF NoRow
    <2>5. Past(Reply(o, v), row', rev')
      BY <1>0, <2>2, <2>3, <2>4, NumberedStable, ReplyPast
    <2>6. \A u \in Phone : run'[u].answer = run[u].answer \/ run'[u].answer = Reply(o, v)
      BY <1>0, <2>1 DEF RunState
    <2>7. UNCHANGED <<cache, view, wrote>>
      BY <1>3 DEF ServerRun, copy, intent
    <2>8. \A f \in Entry : row[f] = NoRow /\ row'[f] # NoRow => o.kind = "append" /\ o.entry = f
      BY <1>0, <2>1, <2>2, ServeMakes
    <2> QED  BY <1>0, <2>2, <2>3, <2>5, <2>6, <2>7, <2>8, SourcedFrame
  <1> QED  BY <1>1, <1>2, <1>3

\* the run of a phone after a step of its own: the old answer, or none
LEMMA Answers ==
    ASSUME TypeOK, NEW p \in Phone,
           \/ StartRun(p) \/ Send(p) \/ AskPull(p) \/ BackoffElapsed(p) \/ Fault(p)
           \/ Acknowledge(p) \/ Reject(p) \/ HandlePull(p) \/ CacheGroup(p)
    PROVE  /\ \A u \in Phone : /\ run'[u].answer \in {run[u].answer, NoAnswer}
                               /\ view'[u] \in {view[u], NoAnswer}
           /\ UNCHANGED <<server, wrote>>
  <1>0. run \in [Phone -> RunState] /\ view \in [Phone -> Answer]
    BY Runs DEF TypeOK
  <1>1. IdleRun.answer = NoAnswer /\ \A S : Flushing(S).answer = NoAnswer
    BY DEF Flushing, IdleRun
  <1>2. CASE StartRun(p) \/ Acknowledge(p) \/ Reject(p) \/ Timeout(p)
    BY <1>0, <1>1, <1>2 DEF StartRun, Acknowledge, Reject, Timeout, intent
  <1>3. CASE Send(p) \/ AskPull(p) \/ BackoffElapsed(p)
    <2>1. UNCHANGED <<server, wrote, view>>
      BY <1>3 DEF Send, AskPull, BackoffElapsed, intent
    <2>2. \A u \in Phone : run'[u].answer = run[u].answer
      <3>1. CASE Send(p)
        <4>1. PICK o \in run[p].todo :
                 run' = [run EXCEPT ![p].phase = "sent", ![p].op = o, ![p].todo = @ \ {o}]
          BY <3>1 DEF Send
        <4> QED  BY <1>0, <4>1 DEF RunState
      <3>2. CASE AskPull(p)
        BY <1>0, <3>2 DEF AskPull, RunState
      <3>3. CASE BackoffElapsed(p)
        BY <3>3 DEF BackoffElapsed
      <3> QED  BY <1>3, <3>1, <3>2, <3>3
    <2> QED  BY <2>1, <2>2
  <1>4. CASE HandlePull(p) \/ PullFails(p) \/ Kill(p) \/ CacheGroup(p)
    BY <1>0, <1>1, <1>4 DEF HandlePull, PullFails, Kill, CacheGroup, intent
  <1> QED  BY <1>2, <1>3, <1>4 DEF Fault

\* So do the steps of a phone's run,
LEMMA PhoneSourced ==
    ASSUME Sourced, NEW p \in Phone,
           \/ StartRun(p) \/ Send(p) \/ AskPull(p) \/ BackoffElapsed(p) \/ Fault(p)
           \/ Acknowledge(p) \/ Reject(p) \/ HandlePull(p) \/ CacheGroup(p)
    PROVE  Sourced'
  <1>0. /\ Typed' /\ TypeOK /\ Numbered(row, rev) /\ Typed
        /\ cache \in [Phone -> [Entry -> CacheRow]]
        /\ run[p].answer \in Answer /\ view[p] \in Answer
    BY SyncRunTyped, AnswerTyped, EndsTyped, RestTyped, Runs DEF Sourced, Typed, TypeOK, CacheRow
  <1>1. /\ \A u \in Phone : /\ run'[u].answer \in {run[u].answer, NoAnswer}
                            /\ view'[u] \in {view[u], NoAnswer}
        /\ UNCHANGED <<server, wrote>>
    BY <1>0, Answers
  <1>2. Grows /\ row' = row /\ rev' = rev
    BY <1>0, <1>1, Still DEF server
  <1>3. Past(NoAnswer, row', rev') /\ Past(run[p].answer, row, rev) /\ Past(view[p], row, rev)
    BY <1>0, <1>2, NothingPast DEF Sourced, PastAnswers
  <1>4. \A u \in Phone, e \in Entry :
           \/ cache'[u][e] = cache[u][e]
           \/ cache'[u][e].row # NoRow =>
                 IF cache'[u][e].local THEN By[e] = u ELSE row[e] # NoRow
    <2>1. CASE cache' = cache
      BY <2>1
    <2>2. CASE \E pulled \in BOOLEAN : Ingest(p, run[p].answer, pulled)
      BY <1>0, <1>3, <2>2, IngestKnown
    <2>3. CASE Ingest(p, view[p], TRUE)
      BY <1>0, <1>3, <2>3, IngestKnown
    <2>4. CASE Reject(p)
      <3>1. /\ Copy(NoRow).row = NoRow
            /\ \/ cache' = cache
               \/ cache' = [cache EXCEPT ![p][run[p].op.entry] = Copy(NoRow)]
        BY <2>4 DEF Reject, Copy
      <3> QED  BY <1>0, <3>1
    <2>5. CASE StartRun(p) \/ Send(p) \/ AskPull(p) \/ BackoffElapsed(p) \/ Timeout(p) \/ PullFails(p)
      BY <2>1, <2>5 DEF StartRun, Send, AskPull, BackoffElapsed, Timeout, PullFails, copy
    <2>6. CASE Acknowledge(p) \/ HandlePull(p) \/ CacheGroup(p) \/ Kill(p)
      BY <2>1, <2>2, <2>3, <2>6 DEF Acknowledge, HandlePull, CacheGroup, Kill, copy
    <2> QED  BY <2>4, <2>5, <2>6 DEF Fault
  <1> QED  BY <1>0, <1>1, <1>2, <1>3, <1>4, SourcedFrame

\* and a pull's reading.
LEMMA GetSourced ==
    ASSUME Sourced, NEW p \in Phone, ServerGet(p) PROVE Sourced'
  <1>1. /\ Typed' /\ TypeOK /\ Numbered(row, rev) /\ run \in [Phone -> RunState]
    BY SyncRunTyped, Runs DEF Sourced, Typed
  <1>2. run[p].after \in Nat
    BY <1>1 DEF RunState
  <1>3. Past(Since(run[p].after), row, rev)
    BY <1>1, <1>2, SincePastAny
  <1>4. /\ \A u \in Phone : run'[u].answer = run[u].answer \/ run'[u].answer = Since(run[p].after)
        /\ UNCHANGED <<server, cache, view, wrote>>
    BY <1>1 DEF ServerGet, RunState, copy, intent
  <1>5. Grows /\ row' = row /\ rev' = rev
    BY <1>1, <1>4, Still DEF server
  <1> QED  BY <1>1, <1>3, <1>4, <1>5, SourcedFrame

\* At the start every answer and cached row comes from the server's past,
LEMMA InitSourced == Init => Sourced
  <1> SUFFICES ASSUME Init PROVE Sourced
    OBVIOUS
  <1>1. Typed /\ TypeOK
    BY InitTyped DEF Typed
  <1>2. Numbered(row, rev) /\ OwnOps /\ OwnRows /\ KnownRows
    BY DEF Init, Numbered, OwnOps, OwnRows, KnownRows, Copy
  <1>3. PastAnswers
    BY <1>1, <1>2, NothingPast DEF Init, PastAnswers, IdleRun
  <1> QED  BY <1>1, <1>2, <1>3 DEF Sourced

\* and after every step.
LEMMA StepSourced == Sourced /\ [Next]_vars => Sourced'
  <1> SUFFICES ASSUME Sourced, [Next]_vars PROVE Sourced'
    OBVIOUS
  <1>1. ASSUME NEW p \in Phone, Sync(p) PROVE Sourced'
    BY <1>1, PhoneSourced, GetSourced, ServerSourced DEF Sync
  <1>2. ASSUME NEW p \in Phone, Fault(p) PROVE Sourced'
    BY <1>2, PhoneSourced
  <1>3. CASE UNCHANGED vars
    <2>1. Typed'
      BY StepTyped DEF Sourced
    <2> QED  BY <1>3, <2>1 DEF vars, account, server, copy, queue, intent, Sourced, Numbered,
                               OwnOps, OwnRows, KnownRows, PastAnswers, Past, Theirs
  <1> QED  BY <1>1, <1>2, <1>3, UserSourced, ServerSourced DEF Next

----------------------------------------------------------------------------
(* What a phone shows is the server's row, or a change of its own *)

Decides == {"accepted", "disputed", "void"}

\* What HonestAt(p, e) says of one entry is CursorHonest.
Waits(p, e) == \E o \in outbox[p] : o.entry = e /\ o.kind \in Decides
HonestAt(p, e) ==
    row[e] # NoRow /\ row[e].rev <= cursor[p] =>
        cache[p][e] = Copy(row[e]) \/ (cache[p][e].mark /\ Waits(p, e))

\* A pull holds what is later than the cursor it asked from, which has not
\* gone back since.
PullAt(p) ==
    /\ run[p].phase = "asked" => run[p].after <= cursor[p]
    /\ run[p].phase = "pulled" => \A e \in Entry :
          row[e] # NoRow /\ row[e].rev <= run[p].answer.rev =>
              run[p].answer.row[e] = row[e] \/ row[e].rev <= cursor[p]

\* Once a decision is granted the copy has it, or will when its answer is
\* handled: so dropping the operation leaves no mark behind.
AckedAt(p) ==
    run[p].phase = "answered" /\ run[p].answer.verdict = "ok" /\ run[p].op.kind \in Decides =>
        LET e == run[p].op.entry
        IN  /\ row[e] # NoRow /\ ~Pending(row[e]) /\ row[e].rev <= run[p].answer.rev
            /\ run[p].op.kind # "void" => run[p].answer.row[e] = row[e]
            /\ row[e].rev <= cursor[p] =>
                  \/ cache[p][e] = Copy(row[e])
                  \/ run[p].op.kind # "void" /\ cursor[p] <= run[p].answer.rev

FinalAt(p, e) == Counts(p, e) => row[e].status = "accepted" /\ ~row[e].void

CopyInv ==
    /\ Sourced
    /\ \A p \in Phone : /\ cursor[p] <= rev /\ PullAt(p) /\ AckedAt(p)
                        /\ view[p] # NoAnswer => view[p].full
    /\ \A p \in Phone, e \in Entry : HonestAt(p, e) /\ FinalAt(p, e)

\* What the invariants say of one phone, in the form the proofs use.
LEMMA Facts ==
    ASSUME Sourced
    PROVE  /\ TypeOK /\ rev \in Nat
           /\ cache \in [Phone -> [Entry -> CacheRow]] /\ cursor \in [Phone -> Nat]
           /\ run \in [Phone -> RunState] /\ view \in [Phone -> Answer]
           /\ \A e \in Entry : /\ row[e] \in Row \cup {NoRow}
                               /\ row[e] # NoRow => row[e].rev \in Nat /\ 0 < row[e].rev /\ row[e].rev <= rev
           /\ \A p \in Phone : /\ run[p].answer \in Answer /\ run[p].answer.rev \in Nat
                               /\ view[p].rev \in Nat
                               /\ run[p].op \in Op \cup {NoOp} /\ run[p].after \in Nat
                               /\ Past(run[p].answer, row, rev) /\ Past(view[p], row, rev)
  <1>1. TypeOK /\ run \in [Phone -> RunState] /\ \A p \in Phone : run[p].after \in Nat
    BY Runs DEF Sourced, Typed, RunState
  <1> QED  BY <1>1, Runs DEF Sourced, TypeOK, CacheRow, Numbered, PastAnswers, Answer

\* the server takes a request; a phone is answered, or has its group's rows
LEMMA CopyServer ==
    ASSUME CopyInv, Sourced', Grows, UNCHANGED <<cache, cursor, outbox>>,
           \A p \in Phone : /\ run'[p] = run[p] \/ (run'[p].phase = "answered" /\ AckedAt(p)')
                            /\ view'[p] = view[p] \/ view'[p].full
    PROVE  CopyInv'
  <1>1. Sourced
    BY DEF CopyInv
  <1>2. /\ rev \in Nat /\ rev' \in Nat /\ rev <= rev' /\ cursor \in [Phone -> Nat]
        /\ \A p \in Phone : cursor[p] \in Nat /\ cursor[p] <= rev
                            /\ run[p].answer.rev \in Nat /\ run[p].answer.rev <= rev
    BY <1>1, Facts DEF CopyInv, Grows, Past
  <1>3. ASSUME NEW e \in Entry
        PROVE  /\ row'[e] = row[e] \/ (row'[e].rev = rev + 1 /\ (row[e] = NoRow \/ Pending(row[e])))
               /\ row[e] # NoRow /\ ~Pending(row[e]) => row'[e] = row[e]
    BY DEF Grows
  <1>4. ASSUME NEW p \in Phone, NEW e \in Entry PROVE HonestAt(p, e)'
    BY <1>2, <1>3 DEF CopyInv, HonestAt, Waits
  <1>5. ASSUME NEW p \in Phone, NEW e \in Entry PROVE FinalAt(p, e)'
    BY <1>3 DEF CopyInv, FinalAt, Counts, NoRow, Pending
  <1>6. ASSUME NEW p \in Phone PROVE PullAt(p)'
    BY <1>2, <1>3 DEF CopyInv, PullAt
  <1>7. ASSUME NEW p \in Phone PROVE AckedAt(p)'
    <2>1. CASE run'[p] = run[p] /\ run[p].phase = "answered" /\ run[p].op.kind \in Decides
      <3>1. run[p].op.entry \in Entry
        BY <1>1, <2>1, Facts, Ops DEF Decides, NoOp
      <3> QED  BY <1>2, <1>3, <2>1, <3>1 DEF CopyInv, AckedAt
    <2> QED  BY <2>1 DEF AckedAt
  <1>8. \A p \in Phone : cursor'[p] <= rev' /\ (view'[p] # NoAnswer => view'[p].full)
    BY <1>2 DEF CopyInv
  <1> QED  BY <1>4, <1>5, <1>6, <1>7, <1>8 DEF CopyInv

\* a step of a run that touches neither copies, queue nor server
LEMMA CopyRun ==
    ASSUME CopyInv, Sourced', UNCHANGED <<server, cache, cursor, outbox>>,
           \A p \in Phone : /\ run'[p] = run[p] \/ (run'[p].phase # "answered" /\ PullAt(p)')
                            /\ view'[p] \in {view[p], NoAnswer} \/ view'[p].full
    PROVE  CopyInv'
  <1>1. ASSUME NEW p \in Phone, NEW e \in Entry PROVE HonestAt(p, e)' /\ FinalAt(p, e)'
    BY DEF CopyInv, HonestAt, FinalAt, Waits, Counts, server
  <1>2. ASSUME NEW p \in Phone PROVE PullAt(p)' /\ AckedAt(p)'
    BY DEF CopyInv, PullAt, AckedAt, server
  <1> QED  BY <1>1, <1>2 DEF CopyInv, server

\* a change of the phone's own on one entry
LEMMA CopyQueue ==
    ASSUME CopyInv, Sourced', UNCHANGED <<server, run, view, cursor>>,
           \A u \in Phone : outbox[u] \subseteq outbox'[u],
           \A u \in Phone, e \in Entry :
              \/ cache'[u][e] = cache[u][e]
              \/ row[e] = NoRow /\ cache'[u][e].local
              \/ Pending(cache[u][e].row) /\ cache'[u][e].mark /\ Waits(u, e)'
    PROVE  CopyInv'
  <1>1. ASSUME NEW p \in Phone, NEW e \in Entry PROVE HonestAt(p, e)' /\ FinalAt(p, e)'
    BY DEF CopyInv, HonestAt, FinalAt, Waits, Counts, server
  <1>2. ASSUME NEW p \in Phone PROVE PullAt(p)' /\ AckedAt(p)'
    <2>1. PullAt(p)'
      BY DEF CopyInv, PullAt, server
    <2>2. CASE run[p].phase = "answered" /\ run[p].op.kind \in Decides
      <3> DEFINE e == run[p].op.entry
      <3>1. e \in Entry
        BY <2>2, Facts, Ops DEF CopyInv, Decides, NoOp
      <3> HIDE DEF e
      <3>2. Copy(row[e]).row = row[e]
        BY DEF Copy
      <3> QED  BY <2>1, <2>2, <3>1, <3>2 DEF e, CopyInv, AckedAt, server
    <2>3. CASE ~(run[p].phase = "answered" /\ run[p].op.kind \in Decides)
      BY <2>1, <2>3 DEF AckedAt
    <2> QED  BY <2>1, <2>2, <2>3
  <1> QED  BY <1>1, <1>2 DEF CopyInv, server

\* an answer taken in: up to the cursor the copy has the rows of the server
LEMMA IngestHonest ==
    ASSUME CopyInv, NEW p \in Phone, NEW a \in Answer, NEW pulled \in BOOLEAN,
           Past(a, row, rev), Ingest(p, a, pulled), UNCHANGED server,
           pulled => \A e \in Entry : row[e] # NoRow /\ row[e].rev <= a.rev =>
                        a.row[e] = row[e] \/ row[e].rev <= cursor[p]
    PROVE  /\ cursor[p] <= cursor'[p] /\ cursor'[p] <= rev
           /\ ~pulled => cursor'[p] = cursor[p]
           /\ \A e \in Entry :
                 /\ row[e] # NoRow /\ row[e].rev <= cursor'[p] =>
                       \/ cache'[p][e] = Copy(row[e])
                       \/ cache'[p][e] = cache[p][e] /\ row[e].rev <= cursor[p]
                 /\ FinalAt(p, e)'
                 /\ row[e] # NoRow /\ row[e].rev <= cursor[p] /\ a.row[e] = row[e] =>
                       cache'[p][e] = Copy(row[e]) \/ a.rev < cursor[p]
           /\ a.full /\ cursor'[p] # cursor[p] =>
                 \A e \in Entry : row[e] # NoRow /\ row[e].rev <= cursor'[p] =>
                    cache'[p][e] = Copy(row[e])
           /\ \A u \in Phone \ {p} : /\ cache'[u] = cache[u] /\ cursor'[u] = cursor[u]
  <1>1. /\ IF a.rev < cursor[p] THEN cache'[p] = cache[p] /\ cursor'[p] = cursor[p]
           ELSE /\ cache'[p] = Merged(cache[p], a)
                /\ cursor'[p] = IF pulled THEN a.rev ELSE cursor[p]
        /\ \A u \in Phone \ {p} : /\ cache'[u] = cache[u] /\ cursor'[u] = cursor[u]
    BY IngestTyped, Facts DEF CopyInv
  <1>2. /\ a.rev \in Nat /\ a.rev <= rev /\ cursor[p] \in Nat /\ cursor[p] <= rev /\ rev \in Nat
        /\ cache[p] \in [Entry -> CacheRow] /\ row' = row /\ rev' = rev
        /\ \A e \in Entry : row[e] # NoRow => row[e].rev \in Nat
    BY Facts DEF CopyInv, Past, Answer, server
  <1>3. ASSUME NEW e \in Entry
        PROVE  /\ a.row[e] # NoRow => Merged(cache[p], a)[e] = Copy(a.row[e])
               /\ a.row[e] = NoRow => \/ Merged(cache[p], a)[e] = cache[p][e]
                                      \/ a.full /\ Merged(cache[p], a)[e] = Copy(NoRow)
               /\ a.row[e] = NoRow /\ ~a.full => Merged(cache[p], a)[e] = cache[p][e]
    BY <1>2, MergedRows
  <1>4. ASSUME NEW e \in Entry, row[e] # NoRow, row[e].rev <= a.rev
        PROVE  a.row[e] = row[e] \/ (a.row[e] = NoRow /\ ~a.full)
    BY <1>4 DEF Past
  <1>5. ASSUME NEW e \in Entry
        PROVE  FinalAt(p, e)'
    <2>1. CASE cache'[p][e] = cache[p][e]
      BY <1>2, <2>1 DEF CopyInv, FinalAt, Counts
    <2>2. CASE cache'[p][e] = Copy(NoRow)
      BY <2>2 DEF FinalAt, Counts, Copy, NoRow
    <2>3. CASE cache'[p][e] = Copy(a.row[e]) /\ a.row[e] # NoRow
      BY <1>2, <2>3 DEF FinalAt, Counts, Copy, Past, Pending
    <2> QED  BY <1>1, <1>3, <2>1, <2>2, <2>3
  <1>6. cursor[p] <= cursor'[p] /\ cursor'[p] <= rev /\ (~pulled => cursor'[p] = cursor[p])
    BY <1>1, <1>2
  <1>7. ASSUME NEW e \in Entry
        PROVE  /\ row[e] # NoRow /\ row[e].rev <= cursor'[p] =>
                     \/ cache'[p][e] = Copy(row[e])
                     \/ cache'[p][e] = cache[p][e] /\ row[e].rev <= cursor[p]
               /\ row[e] # NoRow /\ row[e].rev <= cursor[p] /\ a.row[e] = row[e] =>
                     cache'[p][e] = Copy(row[e]) \/ a.rev < cursor[p]
               /\ a.full /\ cursor'[p] # cursor[p] /\ row[e] # NoRow /\ row[e].rev <= cursor'[p] =>
                     cache'[p][e] = Copy(row[e])
    BY <1>1, <1>2, <1>3, <1>4
  <1> QED  BY <1>1, <1>5, <1>6, <1>7

\* an answer taken in, or a refusal undone, at the end of an attempt
LEMMA CopyIngest ==
    ASSUME CopyInv, Sourced', NEW p \in Phone, NEW a \in Answer, NEW pulled \in BOOLEAN,
           Past(a, row, rev), Ingest(p, a, pulled), UNCHANGED server,
           pulled => \A e \in Entry : row[e] # NoRow /\ row[e].rev <= a.rev =>
                        a.row[e] = row[e] \/ row[e].rev <= cursor[p],
           \A u \in Phone :
              \/ u # p /\ UNCHANGED <<run[u], view[u], outbox[u]>>
              \/ u = p /\ \/ run'[u] = run[u] /\ a.full
                          \/ run'[u].phase \notin {"answered", "asked", "pulled"},
           view'[p] \in {view[p], NoAnswer},
           \/ outbox'[p] = outbox[p]
           \/ /\ outbox'[p] = outbox[p] \ {run[p].op}
              /\ run[p].phase = "answered" /\ run[p].answer.verdict = "ok"
              /\ a = run[p].answer /\ run[p].op \in Op /\ run[p].op.kind # "void"
    PROVE  CopyInv'
  <1>1. /\ cursor[p] <= cursor'[p] /\ cursor'[p] <= rev
        /\ \A e \in Entry :
              /\ row[e] # NoRow /\ row[e].rev <= cursor'[p] =>
                    \/ cache'[p][e] = Copy(row[e])
                    \/ cache'[p][e] = cache[p][e] /\ row[e].rev <= cursor[p]
              /\ FinalAt(p, e)'
              /\ row[e] # NoRow /\ row[e].rev <= cursor[p] /\ a.row[e] = row[e] =>
                    cache'[p][e] = Copy(row[e]) \/ a.rev < cursor[p]
        /\ a.full /\ cursor'[p] # cursor[p] =>
              \A e \in Entry : row[e] # NoRow /\ row[e].rev <= cursor'[p] =>
                 cache'[p][e] = Copy(row[e])
        /\ \A u \in Phone \ {p} : /\ cache'[u] = cache[u] /\ cursor'[u] = cursor[u]
    BY IngestHonest
  <1>2. /\ row' = row /\ rev' = rev /\ rev \in Nat /\ cursor[p] \in Nat /\ cursor'[p] \in Nat
        /\ \A e \in Entry : row[e] # NoRow => row[e].rev \in Nat
        /\ run[p].answer.rev \in Nat
    BY Facts, IngestTyped DEF CopyInv, server
  <1>3. ASSUME NEW u \in Phone, NEW e \in Entry PROVE HonestAt(u, e)' /\ FinalAt(u, e)'
    <2>1. CASE u # p
      BY <1>1, <1>2, <2>1 DEF CopyInv, HonestAt, FinalAt, Waits, Counts
    <2>2. CASE u = p
      <3> SUFFICES ASSUME row[e] # NoRow, row[e].rev <= cursor'[p], cache'[p][e] # Copy(row[e])
                   PROVE  cache'[p][e].mark /\ Waits(p, e)'
        BY <1>1, <1>2, <2>2 DEF HonestAt
      <3>1. cache'[p][e] = cache[p][e] /\ row[e].rev <= cursor[p]
        BY <1>1
      <3>2. cache[p][e].mark /\ Waits(p, e)
        BY <3>1 DEF CopyInv, HonestAt
      <3>3. CASE outbox'[p] = outbox[p]
        BY <3>1, <3>2, <3>3 DEF Waits
      <3>4. CASE outbox'[p] = outbox[p] \ {run[p].op} /\ run[p].op.entry # e
        BY <3>1, <3>2, <3>4 DEF Waits
      <3>5. CASE outbox'[p] = outbox[p] \ {run[p].op} /\ run[p].op.kind \notin Decides
        BY <3>1, <3>2, <3>5 DEF Waits
      <3>6. CASE outbox'[p] # outbox[p] /\ run[p].op.entry = e /\ run[p].op.kind \in Decides
        <4>1. /\ run[p].answer = a /\ a.row[e] = row[e]
              /\ cache[p][e] = Copy(row[e]) \/ cursor[p] <= a.rev
          BY <3>1, <3>6 DEF CopyInv, AckedAt
        <4>2. a.rev < cursor[p]
          BY <1>1, <3>1, <4>1
        <4> QED  BY <1>2, <3>1, <4>1, <4>2
      <3> QED  BY <3>3, <3>4, <3>5, <3>6
    <2> QED  BY <2>1, <2>2
  <1>4. ASSUME NEW u \in Phone PROVE PullAt(u)' /\ AckedAt(u)'
    <2>1. CASE u # p
      BY <1>1, <1>2, <2>1 DEF CopyInv, PullAt, AckedAt
    <2>2. CASE u = p /\ run'[u] = run[u] /\ a.full
      <3>1. PullAt(p)'
        BY <1>1, <1>2, <2>2, Facts DEF CopyInv, PullAt
      <3>2. AckedAt(p)'
        <4> SUFFICES ASSUME run[p].phase = "answered", run[p].answer.verdict = "ok",
                            run[p].op.kind \in Decides
                     PROVE  AckedAt(p)'
          BY <2>2 DEF AckedAt
        <4> DEFINE e == run[p].op.entry
        <4>1. e \in Entry
          BY Facts, Ops DEF CopyInv, Decides, NoOp
        <4>2. /\ row[e] # NoRow /\ ~Pending(row[e]) /\ row[e].rev <= run[p].answer.rev
              /\ run[p].op.kind # "void" => run[p].answer.row[e] = row[e]
              /\ row[e].rev <= cursor[p] =>
                    \/ cache[p][e] = Copy(row[e])
                    \/ run[p].op.kind # "void" /\ cursor[p] <= run[p].answer.rev
          BY DEF CopyInv, AckedAt
        <4> HIDE DEF e
        <4>3. row[e].rev <= cursor'[p] =>
                 \/ cache'[p][e] = Copy(row[e])
                 \/ run[p].op.kind # "void" /\ cursor'[p] <= run[p].answer.rev
          BY <1>1, <2>2, <4>1, <4>2
        <4> QED  BY <1>2, <2>2, <4>2, <4>3 DEF AckedAt, e
      <3> QED  BY <2>2, <3>1, <3>2
    <2>3. CASE u = p /\ run'[u].phase \notin {"answered", "asked", "pulled"}
      BY <2>3 DEF PullAt, AckedAt
    <2> QED  BY <2>1, <2>2, <2>3
  <1>5. \A u \in Phone : cursor'[u] <= rev' /\ (view'[u] # NoAnswer => view'[u].full)
    BY <1>1, <1>2 DEF CopyInv
  <1> QED  BY <1>3, <1>4, <1>5 DEF CopyInv

\* Applying an acknowledgement keeps the copy's invariant.
LEMMA CopyAnswer ==
    ASSUME CopyInv, NEW p \in Phone, Acknowledge(p) \/ Reject(p) PROVE CopyInv'
  <1> DEFINE o == run[p].op
             a == run[p].answer
  <1>0. /\ Sourced' /\ TypeOK /\ a \in Answer /\ Past(a, row, rev)
        /\ run \in [Phone -> RunState] /\ outbox \in [Phone -> SUBSET Op]
        /\ cache \in [Phone -> [Entry -> CacheRow]] /\ cursor \in [Phone -> Nat] /\ rev \in Nat
        /\ \A e \in Entry : row[e] # NoRow => row[e].rev \in Nat /\ 0 < row[e].rev
    BY PhoneSourced, Facts DEF CopyInv, TypeOK
  <1>1. o \in Op /\ run[p].phase = "answered" /\ \A S : Flushing(S).phase = "flush"
    BY Runs DEF Acknowledge, Reject, CopyInv, Sourced, Typed, QueueInv, Flushing, IdleRun
  <1>2. \E S : run' = [run EXCEPT ![p] = Flushing(S)]
    BY DEF Acknowledge, Reject
  <1>7. PICK S : run' = [run EXCEPT ![p] = Flushing(S)]
    BY <1>2
  <1>3. /\ run'[p].phase = "flush" /\ outbox' = [outbox EXCEPT ![p] = @ \ {o}]
        /\ view' = view /\ UNCHANGED server
        /\ outbox'[p] = outbox[p] \ {o}
        /\ \A u \in Phone : u # p => UNCHANGED <<run[u], view[u], outbox[u]>>
    BY <1>0, <1>1, <1>7 DEF Acknowledge, Reject
  <1>4. CASE Acknowledge(p) /\ o.kind # "void"
    <2>1. Ingest(p, a, FALSE) /\ a.verdict = "ok"
      BY <1>4 DEF Acknowledge
    <2> QED  BY <1>0, <1>1, <1>3, <1>4, <2>1, CopyIngest
  <1>5. CASE Acknowledge(p) /\ o.kind = "void"
    <2>1. UNCHANGED copy /\ a.verdict = "ok" /\ o.kind \in Decides
      BY <1>5 DEF Acknowledge, Decides
    <2>2. ASSUME NEW u \in Phone, NEW e \in Entry PROVE HonestAt(u, e)' /\ FinalAt(u, e)'
      <3>1. FinalAt(u, e)'
        BY <1>3, <2>1 DEF CopyInv, FinalAt, Counts, server, copy
      <3>2. CASE u # p \/ o.entry # e
        BY <1>0, <1>3, <2>1, <3>1, <3>2 DEF CopyInv, HonestAt, Waits, server, copy
      <3>3. CASE u = p /\ o.entry = e
        BY <1>1, <1>3, <1>5, <2>1, <3>1, <3>3 DEF CopyInv, HonestAt, AckedAt, server, copy
      <3> QED  BY <3>1, <3>2, <3>3
    <2>3. ASSUME NEW u \in Phone PROVE PullAt(u)' /\ AckedAt(u)'
      BY <1>3, <2>1 DEF CopyInv, PullAt, AckedAt, server, copy
    <2> QED  BY <1>0, <1>3, <2>1, <2>2, <2>3 DEF CopyInv, server, copy
  <1>6. CASE Reject(p)
    <2>1. cursor' = [cursor EXCEPT ![p] = 0] /\ cursor'[p] = 0
      BY <1>0, <1>6 DEF Reject
    <2>2. \A u \in Phone :
             /\ u # p => cache'[u] = cache[u]
             /\ \A e \in Entry : cache'[u][e] = cache[u][e] \/ cache'[u][e] = Copy(NoRow)
      BY <1>0, <1>6 DEF Reject
    <2>3. ASSUME NEW u \in Phone, NEW e \in Entry PROVE HonestAt(u, e)' /\ FinalAt(u, e)'
      <3>1. FinalAt(u, e)'
        BY <1>3, <2>2 DEF CopyInv, FinalAt, Counts, Copy, NoRow, server
      <3>2. CASE u # p
        BY <1>0, <1>3, <2>1, <2>2, <3>1, <3>2 DEF CopyInv, HonestAt, Waits, server
      <3>3. CASE u = p
        BY <1>0, <1>3, <2>1, <3>1, <3>3 DEF HonestAt, server
      <3> QED  BY <3>1, <3>2, <3>3
    <2>4. ASSUME NEW u \in Phone PROVE PullAt(u)' /\ AckedAt(u)'
      <3>1. CASE u # p
        <4>1. /\ run'[u] = run[u] /\ cache'[u] = cache[u] /\ cursor'[u] = cursor[u]
              /\ row' = row /\ rev' = rev
          BY <1>0, <1>3, <2>1, <2>2, <3>1 DEF server
        <4> QED  BY <4>1 DEF CopyInv, PullAt, AckedAt
      <3>2. CASE u = p
        BY <1>3, <3>2 DEF PullAt, AckedAt
      <3> QED  BY <3>1, <3>2
    <2>5. \A u \in Phone : cursor'[u] <= rev' /\ (view'[u] # NoAnswer => view'[u].full)
      BY <1>0, <1>3, <2>1 DEF CopyInv, server
    <2> QED  BY <1>0, <2>3, <2>4, <2>5 DEF CopyInv
  <1> QED  BY <1>4, <1>5, <1>6

\* Applying a pull or a group's response does too.
LEMMA CopyPull ==
    ASSUME CopyInv, NEW p \in Phone, HandlePull(p) \/ CacheGroup(p) \/ Kill(p) PROVE CopyInv'
  <1>0. /\ Sourced' /\ run[p].answer \in Answer /\ Past(run[p].answer, row, rev)
        /\ view[p] \in Answer /\ Past(view[p], row, rev)
        /\ run \in [Phone -> RunState] /\ view \in [Phone -> Answer]
    BY PhoneSourced, Facts DEF CopyInv, Fault
  <1>1. IdleRun.phase = "idle"
    BY DEF IdleRun
  <1>2. CASE HandlePull(p)
    <2>1. /\ Ingest(p, run[p].answer, TRUE) /\ run[p].phase = "pulled"
          /\ run' = [run EXCEPT ![p] = IdleRun] /\ UNCHANGED <<server, outbox, view>>
      BY <1>2 DEF HandlePull, queue
    <2>2. \A e \in Entry : row[e] # NoRow /\ row[e].rev <= run[p].answer.rev =>
             run[p].answer.row[e] = row[e] \/ row[e].rev <= cursor[p]
      BY <2>1 DEF CopyInv, PullAt
    <2>3. \A u \in Phone :
              \/ u # p /\ UNCHANGED <<run[u], view[u], outbox[u]>>
              \/ u = p /\ run'[u].phase = "idle"
      BY <1>0, <1>1, <2>1
    <2> QED  BY <1>0, <2>1, <2>2, <2>3, CopyIngest
  <1>3. CASE CacheGroup(p)
    <2>1. /\ Ingest(p, view[p], TRUE) /\ view[p].full
          /\ view' = [view EXCEPT ![p] = NoAnswer] /\ UNCHANGED <<server, outbox, run>>
      BY <1>3 DEF CacheGroup, queue, CopyInv
    <2>2. \A e \in Entry : row[e] # NoRow /\ row[e].rev <= view[p].rev => view[p].row[e] = row[e]
      BY <1>0, <2>1 DEF Past
    <2>3. /\ \A u \in Phone :
                \/ u # p /\ UNCHANGED <<run[u], view[u], outbox[u]>>
                \/ u = p /\ run'[u] = run[u] /\ view[p].full
          /\ view'[p] = NoAnswer /\ outbox'[p] = outbox[p]
      BY <1>0, <2>1
    <2> QED  BY <1>0, <2>1, <2>2, <2>3, CopyIngest
  <1>4. CASE Kill(p) /\ Ingest(p, run[p].answer, FALSE)
    <2>1. /\ run' = [run EXCEPT ![p] = IdleRun] /\ view' = [view EXCEPT ![p] = NoAnswer]
          /\ UNCHANGED <<server, outbox>>
      BY <1>4 DEF Kill, queue
    <2>2. /\ view'[p] = NoAnswer
          /\ \A u \in Phone :
              \/ u # p /\ UNCHANGED <<run[u], view[u], outbox[u]>>
              \/ u = p /\ run'[u].phase = "idle"
      BY <1>0, <1>1, <2>1
    <2> QED  BY <1>0, <1>4, <2>1, <2>2, CopyIngest
  <1>5. CASE Kill(p) /\ UNCHANGED copy
    <2>1. /\ run' = [run EXCEPT ![p] = IdleRun] /\ view' = [view EXCEPT ![p] = NoAnswer]
          /\ UNCHANGED <<server, outbox, cache, cursor>>
      BY <1>5 DEF Kill, queue, copy
    <2>2. \A u \in Phone : /\ run'[u] = run[u] \/ (run'[u].phase # "answered" /\ PullAt(u)')
                           /\ view'[u] \in {view[u], NoAnswer}
      BY <1>0, <1>1, <2>1 DEF PullAt
    <2> QED  BY <1>0, <2>1, <2>2, CopyRun
  <1> QED  BY <1>2, <1>3, <1>4, <1>5 DEF Kill

\* So does every change of a user.
LEMMA CopyUser ==
    ASSUME CopyInv, NEW p \in Phone, User(p) PROVE CopyInv'
  <1>0. /\ Sourced' /\ TypeOK /\ cache \in [Phone -> [Entry -> CacheRow]]
        /\ outbox \in [Phone -> SUBSET Op] /\ view \in [Phone -> Answer]
        /\ Numbered(row, rev)
    BY UserSourced, Facts DEF CopyInv, TypeOK, Sourced
  <1>1. ASSUME NEW kind, NEW e \in Entry \cup {NoEntry}, Queue(p, kind, e)
        PROVE  /\ UNCHANGED <<run, view, cursor>>
               /\ \A u \in Phone : outbox[u] \subseteq outbox'[u]
               /\ kind \in Decides => Waits(p, e)'
    <2> DEFINE o == [n |-> Cardinality(wrote[p]) + 1, kind |-> kind, entry |-> e]
    <2>1. outbox' = [outbox EXCEPT ![p] = @ \cup {o}] /\ UNCHANGED <<run, view, cursor>>
      BY <1>1 DEF Queue
    <2>2. o.kind = kind /\ o.entry = e
      OBVIOUS
    <2> HIDE DEF o
    <2> QED  BY <1>0, <2>1, <2>2 DEF Waits
  <1>2. ASSUME NEW e \in Entry, AddEntry(p, e) PROVE CopyInv'
    <2> DEFINE c == [row |-> [rev |-> 0, status |-> "pending", void |-> FALSE],
                     local |-> TRUE, mark |-> FALSE]
    <2>1. c \in CacheRow /\ c.local /\ Show(p, e, c) /\ By[e] = p
      BY <1>2, NewRow DEF AddEntry, CacheRow
    <2> HIDE DEF c
    <2>2. row[e] = NoRow
      BY <1>2, <2>1 DEF AddEntry, CopyInv, Sourced, OwnRows
    <2>3. Queue(p, "append", e) /\ UNCHANGED server
      BY <1>2 DEF AddEntry, Queue
    <2>4. \A u \in Phone, f \in Entry :
             cache'[u][f] = cache[u][f] \/ (row[f] = NoRow /\ cache'[u][f].local)
      BY <1>0, <2>1, <2>2, ShowTyped
    <2> QED  BY <1>0, <1>1, <2>3, <2>4, CopyQueue
  <1>3. ASSUME NEW e \in Entry, NEW s \in {"accepted", "disputed"}, Review(p, e, s)
        PROVE  CopyInv'
    <2> DEFINE c == [cache[p][e] EXCEPT !.row.status = s, !.mark = TRUE]
    <2>1. cache[p][e] \in CacheRow /\ Pending(cache[p][e].row) /\ s \in Status /\ s \in Decides
      BY <1>0, <1>3 DEF Review, Status, Decides
    <2>2. c \in CacheRow /\ c.mark
      BY <2>1, Marked
    <2>3. Show(p, e, c) /\ Queue(p, s, e) /\ UNCHANGED server
      BY <1>3 DEF Review, Queue
    <2> HIDE DEF c
    <2>4. \A u \in Phone, f \in Entry :
             \/ cache'[u][f] = cache[u][f]
             \/ Pending(cache[u][f].row) /\ cache'[u][f].mark /\ Waits(u, f)'
      BY <1>0, <1>1, <2>1, <2>2, <2>3, ShowTyped
    <2> QED  BY <1>0, <1>1, <2>3, <2>4, CopyQueue
  <1>4. ASSUME NEW e \in Entry, Withdraw(p, e) PROVE CopyInv'
    <2> DEFINE c == [cache[p][e] EXCEPT !.row.void = TRUE, !.mark = TRUE]
    <2>1. cache[p][e] \in CacheRow /\ Pending(cache[p][e].row) /\ "void" \in Decides
      BY <1>0, <1>4 DEF Withdraw, Decides
    <2>2. c \in CacheRow /\ c.mark
      BY <2>1, Marked
    <2>3. Show(p, e, c) /\ Queue(p, "void", e) /\ UNCHANGED server
      BY <1>4 DEF Withdraw, Queue
    <2> HIDE DEF c
    <2>4. \A u \in Phone, f \in Entry :
             \/ cache'[u][f] = cache[u][f]
             \/ Pending(cache[u][f].row) /\ cache'[u][f].mark /\ Waits(u, f)'
      BY <1>0, <1>1, <2>1, <2>2, <2>3, ShowTyped
    <2> QED  BY <1>0, <1>1, <2>3, <2>4, CopyQueue
  <1>5. ASSUME NEW e \in Entry, NEW s \in {"accepted", "disputed"}, Tap(p, e, s)
        PROVE  CopyInv'
    <2>1. Queue(p, s, e) /\ UNCHANGED server /\ cache' = cache
      BY <1>5 DEF Tap, Queue
    <2> QED  BY <1>0, <1>1, <2>1, CopyQueue
  <1>6. CASE Close(p)
    <2>1. Queue(p, "close", NoEntry) /\ UNCHANGED server /\ cache' = cache
      BY <1>6 DEF Close, Queue
    <2> QED  BY <1>0, <1>1, <2>1, CopyQueue
  <1>7. CASE FetchGroup(p)
    <2>1. /\ view' = [view EXCEPT ![p] = Since(0)] /\ Since(0).full
          /\ UNCHANGED <<server, cache, cursor, outbox, run>>
      BY <1>0, <1>7, SincePast DEF FetchGroup, copy, queue
    <2>2. \A u \in Phone : run'[u] = run[u] /\ (view'[u] = view[u] \/ view'[u].full)
      BY <1>0, <2>1
    <2> QED  BY <1>0, <2>1, <2>2, CopyRun
  <1>8. CASE CloseGroup(p)
    <2>1. /\ Grows /\ view' = [view EXCEPT ![p] = Since(0)'] /\ Since(0)'.full
          /\ UNCHANGED <<cache, cursor, outbox, run>>
      BY <1>0, <1>8, CloseGrows DEF CloseGroup, copy, queue, Since
    <2>2. \A u \in Phone : run'[u] = run[u] /\ (view'[u] = view[u] \/ view'[u].full)
      BY <1>0, <2>1
    <2> QED  BY <1>0, <2>1, <2>2, CopyServer
  <1> QED  BY <1>2, <1>3, <1>4, <1>5, <1>6, <1>7, <1>8 DEF User

\* So do the steps that only move the run on.
LEMMA CopyRuns ==
    ASSUME CopyInv, NEW p \in Phone,
           \/ StartRun(p) \/ Send(p) \/ AskPull(p) \/ ServerGet(p)
           \/ BackoffElapsed(p) \/ Timeout(p) \/ PullFails(p)
    PROVE  CopyInv'
  <1>0. /\ Sourced' /\ TypeOK /\ run \in [Phone -> RunState] /\ Numbered(row, rev)
        /\ cursor[p] \in Nat /\ run[p].after \in Nat
        /\ \A e \in Entry : row[e] # NoRow => row[e].rev \in Nat /\ row[e].rev <= rev
    BY PhoneSourced, GetSourced, Facts DEF CopyInv, Sourced, Fault
  <1>1. /\ UNCHANGED <<server, cache, cursor, outbox, view>>
        /\ \A u \in Phone : u # p => run'[u] = run[u]
    BY <1>0 DEF StartRun, Send, AskPull, ServerGet, BackoffElapsed, Timeout, PullFails, copy, queue
  <1>2. run'[p] = run[p] \/ (run'[p].phase # "answered" /\ PullAt(p)')
    <2>1. CASE StartRun(p) \/ Timeout(p) \/ PullFails(p)
      <3>1. run'[p].phase \in {"idle", "flush"}
        <4>1. IdleRun.phase = "idle" /\ \A S : Flushing(S).phase = "flush"
          BY DEF Flushing, IdleRun
        <4>2. run'[p] = IdleRun \/ \E S : run'[p] = Flushing(S)
          BY <1>0, <2>1 DEF StartRun, Timeout, PullFails
        <4> QED  BY <4>1, <4>2
      <3> QED  BY <3>1 DEF PullAt
    <2>2. CASE Send(p)
      <3>1. run'[p].phase = "sent"
        <4>1. PICK o \in run[p].todo :
                 run' = [run EXCEPT ![p].phase = "sent", ![p].op = o, ![p].todo = @ \ {o}]
          BY <2>2 DEF Send
        <4>2. run'[p] = [run[p] EXCEPT !.phase = "sent", !.op = o, !.todo = @ \ {o}]
          BY <1>0, <4>1
        <4>3. run[p] \in RunState
          BY <1>0
        <4> QED  BY <4>2, <4>3 DEF RunState
      <3> QED  BY <3>1 DEF PullAt
    <2>3. CASE AskPull(p)
      <3>1. /\ run'[p].phase = "asked" /\ run'[p].after = IF full[p] THEN 0 ELSE cursor[p]
        BY <1>0, <2>3 DEF AskPull, RunState
      <3> QED  BY <1>0, <1>1, <3>1 DEF PullAt
    <2>4. CASE ServerGet(p)
      <3>1. /\ run[p].phase = "asked" /\ run'[p].phase = "pulled"
            /\ run'[p].answer = Since(run[p].after)
        BY <1>0, <2>4 DEF ServerGet, RunState
      <3>2. run[p].after <= cursor[p]
        BY <3>1 DEF CopyInv, PullAt
      <3>3. \A e \in Entry : run'[p].answer.row[e] =
                               IF row[e].rev > run[p].after THEN row[e] ELSE NoRow
        BY <1>0, <3>1, SincePast
      <3> QED  BY <1>0, <1>1, <3>1, <3>2, <3>3 DEF PullAt, server
    <2>5. CASE BackoffElapsed(p)
      BY <2>5 DEF BackoffElapsed
    <2> QED  BY <2>1, <2>2, <2>3, <2>4, <2>5
  <1>3. \A u \in Phone : /\ run'[u] = run[u] \/ (run'[u].phase # "answered" /\ PullAt(u)')
                         /\ view'[u] = view[u]
    BY <1>1, <1>2
  <1> QED  BY <1>0, <1>1, <1>3, CopyRun

\* So does every request the server handles.
LEMMA CopyServes ==
    ASSUME CopyInv, ServerRunStray \/ ServerRunOther \/ \E p \in Phone : ServerRun(p)
    PROVE  CopyInv'
  <1>0. /\ Sourced' /\ TypeOK /\ run \in [Phone -> RunState] /\ Grows
    BY ServerSourced, Facts, StepGrows DEF CopyInv, Next, Sync
  <1>1. CASE ServerRunOther \/ ServerRunStray
    BY <1>0, <1>1, CopyServer DEF ServerRunOther, ServerRunStray, copy, queue
  <1>2. ASSUME NEW p \in Phone, ServerRun(p) PROVE CopyInv'
    <2> DEFINE o == run[p].op
    <2>1. PICK v \in {"ok", "refused"} :
             /\ Serve(p, o, v) /\ run[p].phase = "sent"
             /\ run' = [run EXCEPT ![p].phase = "answered", ![p].answer = Reply(o, v)]
      BY <1>2 DEF ServerRun
    <2>2. o \in Op
      BY <2>1, Runs DEF CopyInv, Sourced, Typed, QueueInv
    <2>3. /\ run'[p].phase = "answered" /\ run'[p].answer = Reply(o, v) /\ run'[p].op = o
          /\ \A u \in Phone : u # p => run'[u] = run[u]
      BY <1>0, <2>1 DEF RunState
    <2>4. UNCHANGED <<cache, cursor, outbox, view>>
      BY <1>2 DEF ServerRun, copy, queue
    <2> HIDE DEF o
    <2>5. AckedAt(p)'
      <3>1. CASE v = "refused"
        <4>1. Reply(o, v).verdict = "refused"
          BY <3>1 DEF Reply, NoAnswer
        <4> QED  BY <2>3, <4>1 DEF AckedAt
      <3>2. CASE o.kind \notin Decides
        BY <2>3, <3>2 DEF AckedAt
      <3>3. CASE v = "ok" /\ o.kind \in Decides
        <4>1. o.entry \in Entry
          BY <2>2, <3>3, Ops DEF Decides
        <4>2. /\ row'[o.entry] # NoRow /\ ~Pending(row'[o.entry])
              /\ o.kind = "void" => row'[o.entry].rev = rev + 1
          BY <1>0, <2>1, <2>2, <3>3, ServeDoes DEF Decides, NoRow, Pending
        <4>3. Reply(o, v).rev = rev' /\ Reply(o, v).row[o.entry] = row'[o.entry]
          BY <3>3, <4>1 DEF Reply
        <4>4. /\ row'[o.entry].rev <= rev' /\ rev \in Nat /\ rev' \in Nat /\ rev <= rev'
              /\ cursor[p] \in Nat /\ cursor[p] <= rev /\ row'[o.entry].rev \in Nat
          BY <1>0, <4>1, <4>2, Facts DEF CopyInv, Grows, Sourced, Numbered
        <4> QED  BY <2>3, <2>4, <3>3, <4>1, <4>2, <4>3, <4>4 DEF AckedAt
      <3> QED  BY <3>1, <3>2, <3>3
    <2>6. \A u \in Phone : /\ run'[u] = run[u] \/ (run'[u].phase = "answered" /\ AckedAt(u)')
                           /\ view'[u] = view[u]
      BY <2>3, <2>4, <2>5
    <2> QED  BY <1>0, <2>4, <2>6, CopyServer
  <1> QED  BY <1>1, <1>2

\* The copy's invariant holds at the start,
LEMMA InitCopy == Init => CopyInv
  <1> SUFFICES ASSUME Init PROVE CopyInv
    OBVIOUS
  <1>1. Sourced
    BY InitSourced
  <1>2. ASSUME NEW p \in Phone
        PROVE  cursor[p] <= rev /\ PullAt(p) /\ AckedAt(p) /\ view[p] = NoAnswer
    BY DEF Init, PullAt, AckedAt, IdleRun
  <1>3. ASSUME NEW p \in Phone, NEW e \in Entry PROVE HonestAt(p, e) /\ FinalAt(p, e)
    BY DEF Init, HonestAt, FinalAt, Counts, Copy, NoRow
  <1> QED  BY <1>1, <1>2, <1>3 DEF CopyInv

\* and after every step.
LEMMA StepCopy == CopyInv /\ [Next]_vars => CopyInv'
  <1> SUFFICES ASSUME CopyInv, [Next]_vars PROVE CopyInv'
    OBVIOUS
  <1>1. ASSUME NEW p \in Phone, Sync(p) PROVE CopyInv'
    BY <1>1, CopyRuns, CopyAnswer, CopyPull, CopyServes DEF Sync
  <1>2. ASSUME NEW p \in Phone, Fault(p) PROVE CopyInv'
    BY <1>2, CopyRuns, CopyPull DEF Fault
  <1>3. CASE UNCHANGED vars
    <2>1. Sourced'
      BY StepSourced DEF CopyInv
    <2>2. UNCHANGED <<server, cache, cursor, outbox, run, view>>
      BY <1>3 DEF vars, copy, queue
    <2> QED  BY <2>1, <2>2, CopyRun
  <1> QED  BY <1>1, <1>2, <1>3, CopyUser, CopyServes DEF Next

\* What a phone shows of a row up to its cursor is that row, or its own queued
\* change (upsertTabFromWire; only a pull moves the cursor).
THEOREM Cursor == Spec => []CursorHonest
  <1>1. Spec => []CopyInv
    BY InitCopy, StepCopy, PTL DEF Spec
  <1>2. CopyInv => CursorHonest
    BY DEF CopyInv, CursorHonest, HonestAt, Waits, Decides
  <1> QED  BY <1>1, <1>2, PTL

\* Whatever counts in a phone's confirmed balance was accepted for good
\* (direction.ts, applyOptimisticStatus).
THEOREM Confirmed == Spec => []ConfirmedIsFinal
  <1>1. Spec => []CopyInv
    BY InitCopy, StepCopy, PTL DEF Spec
  <1>2. CopyInv => ConfirmedIsFinal
    BY DEF CopyInv, ConfirmedIsFinal, FinalAt
  <1> QED  BY <1>1, <1>2, PTL

----------------------------------------------------------------------------
(* Nothing is lost: what left the queue was refused, or is done *)

\* What is done stays done.
LEMMA DoneStable ==
    ASSUME TypeOK, Grows, NEW o \in Op, Done(o) PROVE Done(o)'
  <1>1. \A e \in Entry : row[e] # NoRow /\ ~Pending(row[e]) => row'[e] = row[e]
    BY DEF Grows
  <1>2. NoRow.status = "none" /\ ~NoRow.void
    BY DEF NoRow
  <1>3. o.kind # "close" => o.entry \in Entry
    BY Ops
  <1> QED  BY <1>1, <1>2, <1>3 DEF Done, Pending, Grows

Granted(p) ==
    run[p].phase = "answered" /\ run[p].answer.verdict = "ok" => Done(run[p].op)

Kept == Typed /\ IntentKept /\ \A p \in Phone : Granted(p)

\* What a step must respect so that every change stays queued, refused or
\* done.
LEMMA KeptFrame ==
    ASSUME Kept, Typed', Grows,
           \A p \in Phone : \A o \in wrote'[p] :
              \/ o \in outbox'[p] \cup failed'[p]
              \/ o \in wrote[p] /\ (o \notin outbox[p] \cup failed[p] \/ Done(o)),
           \A p \in Phone : run'[p] = run[p] \/ Granted(p)'
    PROVE  Kept'
  <1>1. TypeOK
    BY DEF Kept, Typed
  <1>2. ASSUME NEW p \in Phone, NEW o \in wrote'[p]
        PROVE  o \in outbox'[p] \cup failed'[p] \/ Done(o)'
    <2>1. o \in Op
      BY DEF Typed, TypeOK
    <2>2. CASE o \in wrote[p] /\ (o \notin outbox[p] \cup failed[p] \/ Done(o))
      <3>1. Done(o)
        BY <2>2 DEF Kept, IntentKept
      <3> QED  BY <1>1, <2>1, <3>1, DoneStable
    <2> QED  BY <2>2
  <1>3. ASSUME NEW p \in Phone PROVE Granted(p)'
    <2>1. CASE run'[p] = run[p] /\ run[p].phase = "answered"
      <3>1. run[p].op \in Op
        BY <1>1, <2>1, Runs DEF Kept, Typed, QueueInv
      <3>2. Done(run[p].op) => Done(run[p].op)'
        BY <1>1, <2>1, <3>1, DoneStable DEF Done
      <3> QED  BY <2>1, <3>2 DEF Kept, Granted
    <2> QED  BY <2>1 DEF Granted
  <1> QED  BY <1>2, <1>3 DEF Kept, IntentKept

\* Every step keeps each change queued, refused or done.
LEMMA KeptStep == Kept /\ [Next]_vars => Kept'
  <1> SUFFICES ASSUME Kept, [Next]_vars PROVE Kept'
    OBVIOUS
  <1>0. /\ Typed' /\ Grows /\ TypeOK /\ run \in [Phone -> RunState]
        /\ outbox \in [Phone -> SUBSET Op] /\ failed \in [Phone -> SUBSET Op]
        /\ wrote \in [Phone -> SUBSET Op]
    BY StepTyped, StepGrows, Runs DEF Kept, Typed, TypeOK
  <1>1. IdleRun.phase = "idle" /\ \A S : Flushing(S).phase = "flush"
    BY DEF IdleRun, Flushing
  <1>2. ASSUME UNCHANGED <<outbox, failed, wrote>>, \A p \in Phone : run'[p] = run[p] \/ Granted(p)'
        PROVE  Kept'
    BY <1>0, <1>2, KeptFrame
  <1>3. ASSUME NEW p \in Phone, NEW kind, NEW e, Queue(p, kind, e) PROVE Kept'
    <2> DEFINE o == [n |-> Cardinality(wrote[p]) + 1, kind |-> kind, entry |-> e]
    <2>1. /\ outbox' = [outbox EXCEPT ![p] = @ \cup {o}] /\ wrote' = [wrote EXCEPT ![p] = @ \cup {o}]
          /\ UNCHANGED <<failed, run>>
      BY <1>3 DEF Queue
    <2> HIDE DEF o
    <2>2. \A u \in Phone : \A x \in wrote'[u] :
              \/ x \in outbox'[u] \cup failed'[u]
              \/ x \in wrote[u] /\ (x \notin outbox[u] \cup failed[u] \/ Done(x))
      BY <1>0, <2>1
    <2> QED  BY <1>0, <2>1, <2>2, KeptFrame
  <1>4. ASSUME NEW p \in Phone, Acknowledge(p) \/ Reject(p) PROVE Kept'
    <2>1. PICK S : run' = [run EXCEPT ![p] = Flushing(S)]
      BY <1>4 DEF Acknowledge, Reject
    <2>2. /\ wrote' = wrote /\ outbox' = [outbox EXCEPT ![p] = @ \ {run[p].op}]
          /\ \/ Reject(p) /\ failed' = [failed EXCEPT ![p] = @ \cup {run[p].op}]
             \/ Acknowledge(p) /\ failed' = failed /\ Done(run[p].op)
      BY <1>4 DEF Acknowledge, Reject, intent, Kept, Granted
    <2>3. \A u \in Phone : \A x \in wrote'[u] :
              \/ x \in outbox'[u] \cup failed'[u]
              \/ x \in wrote[u] /\ (x \notin outbox[u] \cup failed[u] \/ Done(x))
      BY <1>0, <2>2
    <2>4. \A u \in Phone : run'[u] = run[u] \/ Granted(u)'
      BY <1>0, <1>1, <2>1 DEF Granted
    <2> QED  BY <1>0, <2>3, <2>4, KeptFrame
  <1>5. ASSUME NEW p \in Phone,
               StartRun(p) \/ Timeout(p) \/ HandlePull(p) \/ PullFails(p) \/ Kill(p)
        PROVE  Kept'
    <2>1. /\ UNCHANGED <<outbox, failed, wrote>>
          /\ \A u \in Phone : run'[u] = run[u] \/ run'[u] = IdleRun \/ \E S : run'[u] = Flushing(S)
      BY <1>0, <1>5 DEF StartRun, Timeout, HandlePull, PullFails, Kill, queue, intent
    <2> QED  BY <1>1, <1>2, <2>1 DEF Granted
  <1>6. ASSUME NEW p \in Phone,
               \/ Send(p) \/ AskPull(p) \/ ServerGet(p) \/ BackoffElapsed(p)
               \/ CacheGroup(p) \/ FetchGroup(p) \/ CloseGroup(p)
        PROVE  Kept'
    <2>1. /\ UNCHANGED <<outbox, failed, wrote>>
          /\ \A u \in Phone : run'[u] = run[u] \/ run'[u].phase \in {"sent", "asked", "pulled"}
      <3>1. CASE Send(p)
        BY <1>0, <3>1 DEF Send, RunState, queue, intent
      <3>2. CASE AskPull(p) \/ ServerGet(p)
        BY <1>0, <3>2 DEF AskPull, ServerGet, RunState, queue, intent
      <3>3. CASE BackoffElapsed(p) \/ CacheGroup(p) \/ FetchGroup(p) \/ CloseGroup(p)
        BY <3>3 DEF BackoffElapsed, CacheGroup, FetchGroup, CloseGroup, queue, intent
      <3> QED  BY <1>6, <3>1, <3>2, <3>3
    <2> QED  BY <1>2, <2>1 DEF Granted
  <1>7. ASSUME NEW p \in Phone, ServerRun(p) PROVE Kept'
    <2>1. PICK v \in {"ok", "refused"} :
             /\ Serve(p, run[p].op, v) /\ run[p].phase = "sent"
             /\ run' = [run EXCEPT ![p].phase = "answered", ![p].answer = Reply(run[p].op, v)]
      BY <1>7 DEF ServerRun
    <2>2. run[p].op \in Op
      BY <2>1, Runs DEF Kept, Typed, QueueInv
    <2>3. /\ run'[p].op = run[p].op /\ run'[p].answer = Reply(run[p].op, v)
          /\ \A u \in Phone : u # p => run'[u] = run[u]
      BY <1>0, <2>1 DEF RunState
    <2>4. v = "ok" => Done(run[p].op)'
      BY <1>0, <2>1, <2>2, <2>3, ServeDoes DEF Done
    <2>5. v = "refused" => run'[p].answer.verdict = "refused"
      BY <2>3 DEF Reply, NoAnswer
    <2>6. Granted(p)'
      BY <2>4, <2>5 DEF Granted
    <2>7. UNCHANGED <<outbox, failed, wrote>>
      BY <1>7 DEF ServerRun, queue, intent
    <2> QED  BY <1>2, <2>3, <2>6, <2>7
  <1>8. CASE ServerRunStray \/ ServerRunOther
    BY <1>2, <1>8 DEF ServerRunStray, ServerRunOther, queue, intent
  <1>9. CASE UNCHANGED vars
    BY <1>2, <1>9 DEF vars, queue, intent
  <1>10. ASSUME NEW p \in Phone, User(p) PROVE Kept'
    BY <1>3, <1>6, <1>10 DEF User, AddEntry, Review, Withdraw, Tap, Close
  <1>11. ASSUME NEW p \in Phone, Sync(p) \/ Fault(p) PROVE Kept'
    BY <1>4, <1>5, <1>6, <1>7, <1>11 DEF Sync, Fault
  <1> QED  BY <1>8, <1>9, <1>10, <1>11 DEF Next

\* Every change a user made is queued, kept as refused, or made
\* (queueTabMutation, completeTabOp, failTabOp, rejectTabOp).
THEOREM Intent == Spec => []IntentKept
  <1>1. Init => Kept
    BY InitTyped DEF Init, Kept, IntentKept, Granted, IdleRun
  <1>2. Spec => []Kept
    BY <1>1, KeptStep, PTL DEF Spec
  <1>3. Kept => IntentKept
    BY DEF Kept
  <1> QED  BY <1>2, <1>3, PTL

----------------------------------------------------------------------------
(* A refusal tells the truth: no other request for the same change got through *)

\* A refusal of which nothing can come: the tab is closed to the entry, or the
\* entry is decided otherwise, for good.
Concerned(p, o) ==
    p \notin demotable /\ (o.kind = "append" \/ (o.kind # "void" /\ p \notin limited))

Blocked(p, o) ==
    /\ <<p, o>> \notin did
    /\ o.kind # "close"
    /\ o.kind = "append" => row[o.entry] = NoRow /\ (closed \/ o.entry \in barred)
    /\ o.kind \in {"accepted", "disputed"} =>
          /\ row[o.entry] # NoRow /\ ~Pending(row[o.entry])
          /\ row[o.entry].void \/ row[o.entry].status # o.kind

DidDone ==
    \A p \in Phone, o \in Op : <<p, o>> \in did =>
        Done(o) /\ (o.kind \in {"accepted", "disputed"} => ~row[o.entry].void)

Refusals(p) ==
    /\ \A o \in failed[p] : Concerned(p, o) => Blocked(p, o)
    /\ run[p].phase = "answered" /\ run[p].answer.verdict = "refused" /\ Concerned(p, run[p].op) =>
          Blocked(p, run[p].op)

Undone == Sourced /\ DidDone /\ \A p \in Phone : Refusals(p)

\* An append makes no entry that is barred, or behind a closed tab.
LEMMA AppendBlocked ==
    ASSUME TypeOK, NEW p, NEW e \in Entry, NEW v, Append(p, e, v)
    PROVE  \A f \in Entry : row[f] = NoRow /\ (closed \/ f \in barred) => row'[f] = NoRow
  BY DEF Append, Refuse, Stamp, server, TypeOK

\* Neither does any other step.
LEMMA StepBlocked ==
    ASSUME Sourced, [Next]_vars
    PROVE  \A f \in Entry : row[f] = NoRow /\ (closed \/ f \in barred) => row'[f] = NoRow
  <1>0. TypeOK
    BY DEF Sourced, Typed
  <1>1. ASSUME NEW p, NEW o \in Op, NEW v, Serve(p, o, v)
        PROVE  \A f \in Entry : row[f] = NoRow /\ (closed \/ f \in barred) => row'[f] = NoRow
    <2>1. CASE o.kind = "append" /\ Append(p, o.entry, v)
      BY <1>0, <2>1, AppendBlocked, Ops
    <2>2. CASE ~(o.kind = "append" /\ Append(p, o.entry, v))
      <3>1. CASE o.kind # "append"
        BY <1>0, <1>1, <3>1, ServeMakes
      <3>2. CASE Refuse(v)
        BY <3>2 DEF Refuse, server
      <3> QED  BY <1>1, <2>2, <3>1, <3>2 DEF Serve
    <2> QED  BY <2>1, <2>2
  <1>2. CASE ServerRunOther
    BY <1>0, <1>2, AppendBlocked, SetStatusMakes, CloseGrows DEF ServerRunOther
  <1>3. CASE ServerRunStray
    <2>1. PICK s \in stray, v \in {"ok", "refused"} : Serve(s[1], s[2], v)
      BY <1>3 DEF ServerRunStray
    <2>2. s[2] \in Op
      BY <1>0 DEF TypeOK
    <2> QED  BY <1>1, <2>1, <2>2
  <1>4. ASSUME NEW p \in Phone, ServerRun(p)
        PROVE  \A f \in Entry : row[f] = NoRow /\ (closed \/ f \in barred) => row'[f] = NoRow
    <2>1. PICK v \in {"ok", "refused"} : Serve(p, run[p].op, v)
      BY <1>4 DEF ServerRun
    <2>2. run[p].op \in Op
      BY <1>0, <1>4, Runs DEF ServerRun, Sourced, Typed, QueueInv
    <2> QED  BY <1>1, <2>1, <2>2
  <1>5. ASSUME NEW p \in Phone, CloseGroup(p) PROVE row' = row
    BY <1>5, <1>0, CloseGrows DEF CloseGroup
  <1>6. ASSUME NEW p \in Phone, User(p), ~CloseGroup(p) PROVE row' = row
    BY <1>6 DEF User, AddEntry, Review, Withdraw, Tap, Close, FetchGroup, Queue, server
  <1>7. ASSUME NEW p \in Phone, Sync(p), ~ServerRun(p) PROVE row' = row
    BY <1>7 DEF Sync, StartRun, Send, Acknowledge, Reject, AskPull, ServerGet, HandlePull,
                BackoffElapsed, CacheGroup, server
  <1>8. ASSUME NEW p \in Phone, Fault(p) PROVE row' = row
    BY <1>8 DEF Fault, Timeout, PullFails, Kill, server
  <1>9. CASE UNCHANGED vars
    BY <1>9 DEF vars, server
  <1> QED  BY <1>2, <1>3, <1>4, <1>5, <1>6, <1>7, <1>8, <1>9 DEF Next

\* a request that changes the server is one the server grants
LEMMA ServeRefuses ==
    ASSUME TypeOK, NEW p, NEW o \in Op, Serve(p, o, "refused") PROVE rev' = rev
  BY DEF Serve, Append, SetStatus, Void, CloseTab, Refuse, server

\* a blocked change stays refused
LEMMA ServeBlocked ==
    ASSUME TypeOK, NEW p, NEW o \in Op, NEW v, Serve(p, o, v), Blocked(p, o),
           o.kind # "void"
    PROVE  rev' = rev
  <1>0. o.kind \in {"append", "accepted", "disputed"}
    BY Ops DEF Blocked, Kind
  <1>1. CASE Refuse(v)
    BY <1>1 DEF Refuse, server
  <1>2. CASE o.kind = "append" /\ Append(p, o.entry, v)
    BY <1>2 DEF Append, Refuse, server, Blocked
  <1>3. CASE o.kind \in {"accepted", "disputed"} /\ SetStatus(p, o.entry, o.kind, v)
    BY <1>3 DEF SetStatus, Refuse, server, Blocked, Pending
  <1> QED  BY <1>0, <1>1, <1>2, <1>3 DEF Serve

\* A refusal means that the way is barred from then on.
LEMMA RefusalBlocks ==
    ASSUME Undone, NEW p \in Phone, NEW o \in wrote[p], Serve(p, o, "refused"), Concerned(p, o)
    PROVE  /\ <<p, o>> \notin did /\ o.kind # "close"
           /\ o.kind = "append" => row'[o.entry] = NoRow /\ (closed' \/ o.entry \in barred')
           /\ o.kind \in {"accepted", "disputed"} =>
                 /\ row'[o.entry] # NoRow /\ ~Pending(row'[o.entry])
                 /\ row'[o.entry].void \/ row'[o.entry].status # o.kind
  <1>0. TypeOK /\ o \in Op
    BY DEF Undone, Sourced, Typed, TypeOK
  <1>1. o.kind \in {"append", "accepted", "disputed", "close"} /\ p \notin demotable
    BY <1>0, Ops DEF Concerned, Kind
  <1>2. CASE o.kind = "append"
    <2>1. Append(p, o.entry, "refused")
      BY <1>1, <1>2 DEF Serve
    <2>2. row[o.entry] = NoRow /\ row' = row /\ (closed' \/ o.entry \in barred')
      BY <2>1 DEF Append, Refuse, server
    <2> QED  BY <1>0, <1>2, <2>2 DEF Undone, DidDone, Done
  <1>3. CASE o.kind \in {"accepted", "disputed"}
    <2>1. SetStatus(p, o.entry, o.kind, "refused") /\ p \notin limited
      BY <1>1, <1>3 DEF Serve, Concerned
    <2>2. Theirs(p, o.entry) /\ row[o.entry] # NoRow
      BY <1>3 DEF Undone, Sourced, OwnOps
    <2>3. /\ row' = row /\ (row[o.entry].void \/ row[o.entry].status # o.kind)
          /\ ~Pending(row[o.entry])
      BY <2>1, <2>2 DEF SetStatus, Refuse, server, Pending
    <2> QED  BY <1>0, <1>3, <2>2, <2>3 DEF Undone, DidDone, Done
  <1>4. o.kind # "close"
    BY <1>1 DEF Serve, CloseTab
  <1> QED  BY <1>1, <1>2, <1>3, <1>4

\* What a step must respect so that refused operations stay without effect.
LEMMA UndoneFrame ==
    ASSUME Undone, [Next]_vars, UNCHANGED account,
           \A p \in Phone, o \in Op : <<p, o>> \in did' \ did =>
              /\ Done(o)' /\ (o.kind \in {"accepted", "disputed"} => ~row'[o.entry].void)
              /\ o.kind # "void" => ~Blocked(p, o),
           \A p \in Phone :
              /\ \A o \in failed'[p] : \/ o \in failed[p]
                                       \/ /\ o = run[p].op /\ run[p].phase = "answered"
                                          /\ run[p].answer.verdict = "refused"
              /\ \/ run'[p] = run[p]
                 \/ ~(run'[p].phase = "answered" /\ run'[p].answer.verdict = "refused")
                 \/ run'[p].op = run[p].op /\ (Concerned(p, run[p].op) => Blocked(p, run[p].op)')
    PROVE  Undone'
  <1>0. Sourced' /\ Grows /\ TypeOK /\ TypeOK'
    BY StepSourced, StepGrows DEF Undone, Sourced, Typed
  <1>1. DidDone'
    <2> SUFFICES ASSUME NEW p \in Phone, NEW o \in Op, <<p, o>> \in did'
                 PROVE  /\ Done(o)'
                        /\ o.kind \in {"accepted", "disputed"} => ~row'[o.entry].void
      BY DEF DidDone
    <2>1. CASE <<p, o>> \in did
      <3>1. Done(o) /\ (o.kind \in {"accepted", "disputed"} => ~row[o.entry].void)
        BY <2>1 DEF Undone, DidDone
      <3>2. Done(o)'
        BY <1>0, <3>1, DoneStable
      <3>3. o.kind \in {"accepted", "disputed"} => row'[o.entry] = row[o.entry]
        BY <1>0, <3>1, Ops DEF Done, Grows, Pending, NoRow
      <3> QED  BY <3>1, <3>2, <3>3
    <2> QED  BY <2>1
  <1>2. ASSUME NEW p \in Phone, NEW o \in Op, Blocked(p, o), Concerned(p, o)
        PROVE  Blocked(p, o)'
    <2>1. <<p, o>> \notin did'
      BY <1>2 DEF Blocked, Concerned
    <2>2. o.kind = "append" => row'[o.entry] = NoRow
      BY <1>2, StepBlocked, Ops DEF Blocked, Undone
    <2>3. o.kind \in {"accepted", "disputed"} => row'[o.entry] = row[o.entry]
      BY <1>0, <1>2, Ops DEF Blocked, Grows
    <2> QED  BY <1>0, <1>2, <2>1, <2>2, <2>3 DEF Blocked, Grows
  <1>3. ASSUME NEW p \in Phone PROVE Refusals(p)'
    <2>1. demotable' = demotable /\ limited' = limited
      BY DEF account
    <2>2. failed[p] \subseteq Op /\ (run[p].phase = "answered" => run[p].op \in Op)
      BY <1>0, Runs DEF TypeOK, Undone, Sourced, Typed, QueueInv
    <2>3. ASSUME NEW o \in failed'[p], Concerned(p, o) PROVE Blocked(p, o)'
      BY <1>2, <2>2, <2>3 DEF Undone, Refusals
    <2>4. run'[p] = run[p] /\ run[p].phase = "answered" /\ run[p].answer.verdict = "refused"
          /\ Concerned(p, run[p].op) => Blocked(p, run[p].op)'
      BY <1>2, <2>2 DEF Undone, Refusals
    <2> QED  BY <2>1, <2>3, <2>4 DEF Refusals, Concerned
  <1> QED  BY <1>0, <1>1, <1>3 DEF Undone

\* what a served request adds to the history
LEMMA ServeRecords ==
    ASSUME Undone, NEW p \in Phone, NEW o \in Op, NEW v \in {"ok", "refused"},
           Serve(p, o, v), Record(p, o)
    PROVE  \A u \in Phone, x \in Op : <<u, x>> \in did' \ did =>
              /\ Done(x)' /\ (x.kind \in {"accepted", "disputed"} => ~row'[x.entry].void)
              /\ x.kind # "void" => ~Blocked(u, x)
  <1>0. TypeOK
    BY DEF Undone, Sourced, Typed
  <1> SUFFICES ASSUME rev' # rev
               PROVE  /\ Done(o)' /\ (o.kind \in {"accepted", "disputed"} => ~row'[o.entry].void)
                      /\ o.kind # "void" => ~Blocked(p, o)
    BY DEF Record
  <1>1. v = "ok"
    BY <1>0, ServeRefuses
  <1>2. Done(o)' /\ (o.kind \in {"accepted", "disputed"} => ~row'[o.entry].void)
    BY <1>0, <1>1, ServeDoes DEF Done
  <1>3. o.kind # "void" => ~Blocked(p, o)
    BY <1>0, ServeBlocked
  <1> QED  BY <1>2, <1>3

\* Every step keeps refused operations without effect.
LEMMA UndoneStep == Undone /\ [Next]_vars => Undone'
  <1> SUFFICES ASSUME Undone, [Next]_vars PROVE Undone'
    OBVIOUS
  <1>0. /\ TypeOK /\ run \in [Phone -> RunState] /\ failed \in [Phone -> SUBSET Op]
    BY Runs DEF Undone, Sourced, Typed, TypeOK
  <1>1. IdleRun.phase = "idle" /\ \A S : Flushing(S).phase = "flush"
    BY DEF IdleRun, Flushing
  <1>2. ASSUME UNCHANGED <<account, failed, did>>,
               \A p \in Phone : run'[p] = run[p] \/ run'[p].phase # "answered"
        PROVE  Undone'
    BY <1>2, UndoneFrame
  <1>3. ASSUME NEW p \in Phone, User(p) PROVE Undone'
    <2>1. UNCHANGED <<account, failed, did, run>>
      BY <1>3 DEF User, AddEntry, Review, Withdraw, Tap, Close, FetchGroup, CloseGroup, Queue, queue
    <2> QED  BY <1>2, <2>1
  <1>4. ASSUME NEW p \in Phone, Acknowledge(p) \/ Reject(p) PROVE Undone'
    <2>1. PICK S : run' = [run EXCEPT ![p] = Flushing(S)]
      BY <1>4 DEF Acknowledge, Reject
    <2>2. UNCHANGED <<account, did>>
      BY <1>4 DEF Acknowledge, Reject
    <2>3. \A u \in Phone : \A o \in failed'[u] :
             \/ o \in failed[u]
             \/ o = run[u].op /\ run[u].phase = "answered" /\ run[u].answer.verdict = "refused"
      <3>1. CASE Acknowledge(p)
        <4>1. failed' = failed
          BY <3>1 DEF Acknowledge
        <4> QED  BY <4>1
      <3>2. CASE Reject(p)
        <4>1. /\ failed' = [failed EXCEPT ![p] = @ \cup {run[p].op}]
              /\ run[p].phase = "answered" /\ run[p].answer.verdict = "refused"
          BY <3>2 DEF Reject
        <4>2. \A u \in Phone : failed'[u] = IF u = p THEN failed[u] \cup {run[p].op} ELSE failed[u]
          BY <1>0, <4>1
        <4> QED  BY <4>1, <4>2
      <3> QED  BY <1>4, <3>1, <3>2
    <2>4. \A u \in Phone : run'[u] = run[u] \/ run'[u].phase # "answered"
      BY <1>0, <1>1, <2>1
    <2> QED  BY <2>2, <2>3, <2>4, UndoneFrame
  <1>5. ASSUME NEW p \in Phone,
               StartRun(p) \/ Timeout(p) \/ HandlePull(p) \/ PullFails(p) \/ Kill(p)
        PROVE  Undone'
    <2>1. /\ UNCHANGED <<account, failed, did>>
          /\ \A u \in Phone : run'[u] = run[u] \/ run'[u] = IdleRun \/ \E S : run'[u] = Flushing(S)
      BY <1>0, <1>5 DEF StartRun, Timeout, HandlePull, PullFails, Kill, queue
    <2> QED  BY <1>1, <1>2, <2>1
  <1>6. ASSUME NEW p \in Phone,
               Send(p) \/ AskPull(p) \/ ServerGet(p) \/ BackoffElapsed(p) \/ CacheGroup(p)
        PROVE  Undone'
    <2>1. CASE Send(p)
      <3>1. UNCHANGED <<account, failed, did>>
            /\ \A u \in Phone : run'[u] = run[u] \/ run'[u].phase = "sent"
        BY <1>0, <2>1 DEF Send, RunState, queue
      <3> QED  BY <1>2, <3>1
    <2>2. CASE AskPull(p) \/ ServerGet(p)
      <3>1. UNCHANGED <<account, failed, did>>
            /\ \A u \in Phone : run'[u] = run[u] \/ run'[u].phase \in {"asked", "pulled"}
        BY <1>0, <2>2 DEF AskPull, ServerGet, RunState, queue
      <3> QED  BY <1>2, <3>1
    <2>3. CASE BackoffElapsed(p) \/ CacheGroup(p)
      BY <1>2, <2>3 DEF BackoffElapsed, CacheGroup, queue
    <2> QED  BY <1>6, <2>1, <2>2, <2>3
  <1>7. ASSUME NEW p \in Phone, ServerRun(p) PROVE Undone'
    <2>1. PICK v \in {"ok", "refused"} :
             /\ Serve(p, run[p].op, v) /\ Record(p, run[p].op) /\ run[p].phase = "sent"
             /\ run' = [run EXCEPT ![p].phase = "answered", ![p].answer = Reply(run[p].op, v)]
      BY <1>7 DEF ServerRun
    <2>2. run[p].op \in Op /\ run[p].op \in wrote[p]
      BY <1>0, <2>1, Runs DEF Undone, Sourced, Typed, QueueInv
    <2>3. /\ run'[p].op = run[p].op /\ run'[p].answer = Reply(run[p].op, v)
          /\ \A u \in Phone : u # p => run'[u] = run[u]
      BY <1>0, <2>1 DEF RunState
    <2>4. UNCHANGED <<account, failed>>
      BY <1>7 DEF ServerRun, queue
    <2>5. \A u \in Phone, x \in Op : <<u, x>> \in did' \ did =>
              /\ Done(x)' /\ (x.kind \in {"accepted", "disputed"} => ~row'[x.entry].void)
              /\ x.kind # "void" => ~Blocked(u, x)
      BY <2>1, <2>2, ServeRecords
    <2>6. v = "ok" => run'[p].answer.verdict = "ok"
      BY <2>3 DEF Reply
    <2>7. v = "refused" /\ Concerned(p, run[p].op) => Blocked(p, run[p].op)'
      <3> SUFFICES ASSUME v = "refused", Concerned(p, run[p].op) PROVE Blocked(p, run[p].op)'
        OBVIOUS
      <3>1. /\ <<p, run[p].op>> \notin did /\ run[p].op.kind # "close"
            /\ run[p].op.kind = "append" =>
                  row'[run[p].op.entry] = NoRow /\ (closed' \/ run[p].op.entry \in barred')
            /\ run[p].op.kind \in {"accepted", "disputed"} =>
                  /\ row'[run[p].op.entry] # NoRow /\ ~Pending(row'[run[p].op.entry])
                  /\ row'[run[p].op.entry].void \/ row'[run[p].op.entry].status # run[p].op.kind
        BY <2>1, <2>2, RefusalBlocks
      <3>2. did' = did
        BY <1>0, <2>1, <2>2, ServeRefuses DEF Record
      <3> QED  BY <2>3, <3>1, <3>2 DEF Blocked
    <2> QED  BY <2>3, <2>4, <2>5, <2>6, <2>7, UndoneFrame
  <1>8. CASE ServerRunStray
    <2>1. PICK s \in stray : /\ \E v \in {"ok", "refused"} : Serve(s[1], s[2], v)
                             /\ Record(s[1], s[2])
      BY <1>8 DEF ServerRunStray
    <2>2. s[1] \in Phone /\ s[2] \in Op
      BY <1>0 DEF TypeOK
    <2>3. \A u \in Phone, x \in Op : <<u, x>> \in did' \ did =>
              /\ Done(x)' /\ (x.kind \in {"accepted", "disputed"} => ~row'[x.entry].void)
              /\ x.kind # "void" => ~Blocked(u, x)
      BY <2>1, <2>2, ServeRecords
    <2>4. UNCHANGED <<account, failed, run>>
      BY <1>8 DEF ServerRunStray, queue
    <2> QED  BY <2>3, <2>4, UndoneFrame
  <1>9. CASE ServerRunOther
    BY <1>2, <1>9 DEF ServerRunOther, queue
  <1>10. CASE UNCHANGED vars
    BY <1>2, <1>10 DEF vars, queue
  <1>11. ASSUME NEW p \in Phone, Sync(p) \/ Fault(p) PROVE Undone'
    BY <1>4, <1>5, <1>6, <1>7, <1>11 DEF Sync, Fault
  <1> QED  BY <1>3, <1>8, <1>9, <1>10, <1>11 DEF Next

\* A tally a phone lists as not sent was sent by none of its requests, and a
\* decision it lists as refused was not taken ("falsely label a saved tally
\* unsent", Append).
THEOREM Refused == Spec => []RefusedIsUndone
  <1>1. Init => Undone
    BY InitSourced DEF Init, Undone, DidDone, Refusals, IdleRun
  <1>2. Spec => []Undone
    BY <1>1, UndoneStep, PTL DEF Spec
  <1>3. Undone => RefusedIsUndone
    BY DEF Undone, Refusals, RefusedIsUndone, Concerned, Blocked
  <1> QED  BY <1>2, <1>3, PTL

=============================================================================
