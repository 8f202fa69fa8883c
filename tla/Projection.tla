------------------------------ MODULE Projection ------------------------------
(***************************************************************************)
(* One phone, one kaata: how the rows of event_log reach the tables the    *)
(* screens read.  A local write is inserted and applied in one transaction *)
(* (projection/index.ts).  A pulled or meshed event is only stored         *)
(* (ingest-row.ts); the quarantine sweep (sweep.ts) applies stored rows in *)
(* clock order, each in a transaction of its own (replay.ts), and writes   *)
(* the verdict on the row in a second one.  Sweeps are started by events:  *)
(* a 100 ms timer after a write or a mesh batch, the end of a pull, a      *)
(* launch and a return to the foreground.                                  *)
(***************************************************************************)
EXTENDS LedgerFold

CONSTANTS
    Mine,        \* the events this phone writes
    Author,      \* Author[e]: the account that wrote e
    Owner,       \* the account whose binding and role are there from the start
    Seen,        \* Seen[e]: the events its author had applied when writing e
    Signed,      \* the events that carry a good signature
    Unsigned,    \* those that carry none, or no key; the rest carry a bad one
    Since,       \* Since[e]: the first build that knows e's type
    LastBuild,   \* the newest build the phone is upgraded to
    MaxPasses,   \* MAX_SWEEP_PASSES
    MaxFaults    \* kills, failed stamps, failed replays, broken-off pulls

ASSUME PhoneAssumption ==
    /\ Mine \subseteq Event /\ Mine \subseteq Signed /\ Unsigned \subseteq Event \ Signed
    /\ Seen \in [Event -> SUBSET Event]
    /\ Since \in [Event -> Nat]
    /\ LastBuild \in Nat /\ MaxPasses \in Nat \ {0} /\ MaxFaults \in Nat

VARIABLES
    row,         \* event_log: how far each event's row has come
    table,       \* the projection tables
    build,       \* the installed build
    up,          \* the process is alive
    timer,       \* sweepTimer is armed for this kaata
    queued,      \* a sweep waits for sweepMutex
    drained,     \* the running pull has stored something
    phase,       \* the sweep: "idle", between two rows, or between a row's two transactions
    todo,        \* the sweep's snapshot: the rows this pass still has to replay
    current,     \* the row being replayed
    verdict,     \* what its replay said
    progress,    \* this pass has applied a row
    pass,        \* passes begun
    faults

sweepVars == <<phase, todo, current, verdict, progress, pass>>
vars == <<row, table, build, up, timer, queued, drained, sweepVars, faults>>

\* "stored" is a row without applied_at and tombstone_reason: fresh from
\* ingestion or quarantined, which only the reason's wording tells apart.
RowState == {"absent", "stored", "applied", "buried"}

Stored == {e \in Event : row[e] = "stored"}

Init ==
    /\ row = [e \in Event |-> "absent"]
    /\ table = EmptyTable
    /\ build = 1
    /\ up = TRUE
    /\ timer = FALSE /\ queued = FALSE /\ drained = FALSE
    /\ phase = "idle" /\ todo = {} /\ current = None /\ verdict = "none"
    /\ progress = FALSE /\ pass = 0
    /\ faults = 0

-----------------------------------------------------------------------------
(* The gate *)

Membership == {"vault_member_added", "vault_device_added"}

Known(e) == Since[e] <= build

\* resolveRoleAt: a member_added of that account, applied on its row, with an
\* earlier clock.
HasRole(a, e) ==
    a = Owner \/ \E m \in Event : /\ Kind[m] = "vault_member_added" /\ Target[m] = a
                                  /\ row[m] = "applied" /\ Hlc[m] < Hlc[e]

\* lookupSignerCredential: the device registry, whatever the binding's clock.
Bound(a) == a = Owner \/ (a \in Object /\ table[a]["device"] # None)

\* mutant: the device must have been bound before the event was written
BoundBefore(e) ==
    /\ e \in Signed /\ HasRole(Author[e], e)
    /\ Author[e] = Owner \/ (Bound(Author[e]) /\ Hlc[table[Author[e]]["device"]] < Hlc[e])

\* checkRoleForEvent for a remote event: a device is bound only for an account
\* that is a member by then.
Allowed(e) ==
    /\ e \in Signed
    /\ Bound(Author[e]) /\ HasRole(Author[e], e)
    /\ Kind[e] = "vault_device_added" => HasRole(Target[e], e)

\* mutant: a refusal has a state of its own
Rejected(e) == IF e \notin Signed THEN "rejected" ELSE "stored"

\* mutant: whatever has no good signature is given up
RefusedForGood(e) == IF e \notin Signed THEN "buried" ELSE "stored"

\* classifyRoleGateRefusal: of the rows the sweep replays only a membership event
\* without a good signature is given up; a user's ledger event never is.
Refused(e) == IF e \notin Signed /\ Kind[e] \in Membership THEN "buried" ELSE "stored"

\* mutant: an applier that finds no row returns without a word
SilentReturn(e) ==
    IF ~Known(e) THEN "stored"
    ELSE IF e \notin Mine /\ ~Allowed(e) THEN Refused(e) ELSE "applied"

\* applyAlreadyIngestedEvent on the tables as they are.
Outcome(e) ==
    IF ~Known(e) THEN "stored"
    ELSE IF e \notin Mine /\ ~Allowed(e) THEN Refused(e)
    ELSE IF e \notin Mine /\ Missing(table, e) THEN "stored"
    ELSE "applied"

-----------------------------------------------------------------------------
(* Rows arrive *)

\* An event reaches this phone only after its author wrote it, hence after the
\* author had what it had seen from this phone.
Written(e) == e \notin Mine /\ \A d \in Seen[e] \cap Mine : row[d] # "absent"

\* ingestRowInTx inside a pull: the row is durable, nothing is applied.  A row
\* that is already there is ignored.
PullEvent(e) ==
    /\ up /\ Written(e) /\ row[e] = "absent"
    /\ row' = [row EXCEPT ![e] = "stored"]
    /\ drained' = TRUE
    /\ UNCHANGED <<table, build, up, timer, queued, sweepVars, faults>>

\* The end of a pull's drain: sweepVaultNow, behind the mutex.
PullEnds ==
    /\ up /\ drained
    /\ drained' = FALSE /\ queued' = TRUE
    /\ UNCHANGED <<row, table, build, up, timer, sweepVars, faults>>

\* A later page fails: pullEvents throws past the sweep.
PullFails ==
    /\ up /\ drained /\ faults < MaxFaults
    /\ drained' = FALSE /\ faults' = faults + 1
    /\ UNCHANGED <<row, table, build, up, timer, queued, sweepVars>>

\* verifyAndIngest, for an event the phone does not have: without a signature or
\* a key it is refused before the insert; a bad signature is given up at once,
\* whatever the event's type.
Verified(e) ==
    IF e \in Signed THEN "stored" ELSE IF e \in Unsigned THEN "absent" ELSE "buried"

\* applyIncomingBatch, an event at a time, holds sweepMutex and drops types this
\* build does not know.  A row that is already there is ignored.  The timer is
\* armed whatever came of the batch.
MeshEvent(e) ==
    /\ up /\ Written(e) /\ phase = "idle"
    /\ row' = IF row[e] = "absent" /\ Known(e) THEN [row EXCEPT ![e] = Verified(e)] ELSE row
    /\ timer' = TRUE
    /\ UNCHANGED <<table, build, up, queued, drained, sweepVars, faults>>

\* applyEvent with origin local: one transaction, under applyEventMutex only,
\* so also between the two transactions of a sweep's row.  The clock is past
\* every stored row's; the entry or person must be on screen.
LocalEvent(e) ==
    /\ up /\ e \in Mine /\ row[e] = "absent" /\ Known(e)
    /\ \A d \in Event : row[d] # "absent" => Hlc[d] < Hlc[e]
    /\ \A d \in Seen[e] : row[d] # "absent"
    /\ ~Missing(table, e)
    /\ Kind[e] \in {"entry_amended", "entry_deleted"} => table[Target[e]]["deleted"] = None
    /\ row' = [row EXCEPT ![e] = "applied"]
    /\ table' = Apply(table, e)
    /\ timer' = TRUE
    /\ UNCHANGED <<build, up, queued, drained, sweepVars, faults>>

-----------------------------------------------------------------------------
(* The sweep *)

TimerFires ==
    /\ up /\ timer
    /\ timer' = FALSE /\ queued' = TRUE
    /\ UNCHANGED <<row, table, build, up, drained, sweepVars, faults>>

\* sweepQuarantine takes the mutex and reads the rows of its first pass.
SweepStarts ==
    /\ up /\ queued /\ phase = "idle"
    /\ queued' = FALSE
    /\ phase' = "rows" /\ todo' = Stored /\ progress' = FALSE /\ pass' = 1
    /\ UNCHANGED <<row, table, build, up, timer, drained, current, verdict, faults>>

EarliestOf(S) == CHOOSE e \in S : \A d \in S : Hlc[e] <= Hlc[d]

\* The first transaction of a row: gate and applier; the tables change or stay.
Replay ==
    /\ up /\ phase = "rows" /\ todo # {}
    /\ current' = EarliestOf(todo)
    /\ todo' = todo \ {current'}
    /\ verdict' = Outcome(current')
    /\ table' = IF verdict' = "applied" THEN Apply(table, current') ELSE table
    /\ phase' = "verdict"
    /\ UNCHANGED <<row, build, up, timer, queued, drained, progress, pass, faults>>

\* That transaction fails for a reason of the database's own: applier_throw.
ReplayFails ==
    /\ up /\ phase = "rows" /\ todo # {} /\ faults < MaxFaults
    /\ current' = EarliestOf(todo)
    /\ todo' = todo \ {current'}
    /\ verdict' = "stored"
    /\ phase' = "verdict" /\ faults' = faults + 1
    /\ UNCHANGED <<row, table, build, up, timer, queued, drained, progress, pass>>

\* applyVerdict: the second transaction.  Only "applied" is written whatever
\* the row says by now.
Stamp ==
    /\ up /\ phase = "verdict"
    /\ row' = IF verdict = "applied" \/ row[current] = "stored"
              THEN [row EXCEPT ![current] = verdict] ELSE row
    /\ progress' = (progress \/ verdict = "applied")
    /\ phase' = "rows" /\ current' = None /\ verdict' = "none"
    /\ UNCHANGED <<table, build, up, timer, queued, drained, todo, pass, faults>>

SweepIdle ==
    /\ phase' = "idle" /\ todo' = {} /\ current' = None /\ verdict' = "none"
    /\ progress' = FALSE /\ pass' = 0

\* The stamp throws out of sweepQuarantine; the sweep is over.
StampFails ==
    /\ up /\ phase = "verdict" /\ faults < MaxFaults
    /\ faults' = faults + 1
    /\ SweepIdle
    /\ UNCHANGED <<row, table, build, up, timer, queued, drained>>

\* A pass that applied something is followed by another over fresh rows.
NextPass ==
    /\ up /\ phase = "rows" /\ todo = {} /\ progress /\ pass < MaxPasses
    /\ todo' = Stored /\ progress' = FALSE /\ pass' = pass + 1
    /\ UNCHANGED <<row, table, build, up, timer, queued, drained, phase, current, verdict, faults>>

SweepEnds ==
    /\ up /\ phase = "rows" /\ todo = {} /\ (~progress \/ pass = MaxPasses)
    /\ SweepIdle
    /\ UNCHANGED <<row, table, build, up, timer, queued, drained, faults>>

-----------------------------------------------------------------------------
(* The process *)

\* The app is killed: only the database survives.
Crash ==
    /\ up /\ faults < MaxFaults
    /\ up' = FALSE /\ faults' = faults + 1
    /\ timer' = FALSE /\ queued' = FALSE /\ drained' = FALSE
    /\ SweepIdle
    /\ UNCHANGED <<row, table, build>>

\* A launch, of the same build or the next one: sweepAllQuarantinedVaults.
Launch ==
    /\ ~up
    /\ up' = TRUE
    /\ build' \in {build, build + 1} /\ build' <= LastBuild
    /\ timer' = (Stored # {})
    /\ UNCHANGED <<row, table, queued, drained, sweepVars, faults>>

\* Back to the foreground: the same, if anything is stored.
Foreground ==
    /\ up /\ ~timer /\ Stored # {}
    /\ timer' = TRUE
    /\ UNCHANGED <<row, table, build, up, queued, drained, sweepVars, faults>>

Arrive == \E e \in Event : PullEvent(e) \/ MeshEvent(e) \/ LocalEvent(e)

Sweep == SweepStarts \/ Replay \/ Stamp \/ NextPass \/ SweepEnds

Fault == PullFails \/ ReplayFails \/ StampFails \/ Crash

Next == Arrive \/ PullEnds \/ TimerFires \/ Sweep \/ Fault \/ Launch \/ Foreground

\* Timers fire and promises settle; a killed app is opened again and an open
\* one comes back to the foreground from time to time.
Fairness ==
    /\ WF_vars(TimerFires) /\ WF_vars(Sweep)
    /\ WF_vars(Launch) /\ WF_vars(Foreground)

Spec == Init /\ [][Next]_vars /\ Fairness

-----------------------------------------------------------------------------
(* Properties *)

TypeOK ==
    /\ row \in [Event -> RowState]
    /\ table \in Table
    /\ build \in Nat
    /\ up \in BOOLEAN /\ timer \in BOOLEAN /\ queued \in BOOLEAN /\ drained \in BOOLEAN
    /\ phase \in {"idle", "rows", "verdict"}
    /\ todo \subseteq Event
    /\ current \in Event \cup {None}
    /\ verdict \in RowState \cup {"none"}
    /\ progress \in BOOLEAN
    /\ pass \in Nat
    /\ faults \in Nat

\* What the screens can tell apart: a deleted entry shows nothing of its
\* fields, and the clock of a name is not shown.
Shown(t, x) ==
    IF t[x]["deleted"] # None THEN "deleted"
    ELSE [f \in Field \ {"shop_floor", "created"} |-> t[x][f]]

\* The events the phone holds and the server would fold.
Held == {e \in Event : row[e] = "applied"}

Settled == phase = "idle" /\ Stored = {}

\* Once nothing waits any more, whatever the order of arrival, the passes, the
\* kills and the retries, every entry shows exactly what the server makes of
\* the same events in clock order: no amendment lost, none resurrected, no
\* deleted entry back, no amount in another amendment's currency.
EntriesConverge ==
    Settled => \A x \in Object : LET fold == ServerFold(Held) IN
        (\E e \in Event : Target[e] = x /\ Kind[e] = "entry_created")
            => Shown(table, x) = Shown(fold, x)

\* The fields of an object that a phone and the server agree on.
Agree(x, S) == \A f \in S : table[x][f] = ServerFold(Held)[x][f]

\* The kinds of event held about an object.
About(x) == {Kind[e] : e \in {d \in Held : Target[d] = x}}

\* A person's name, archive state and default currency agree as well, and the
\* phone number unless the person has been brought back from the archive.
PersonsConverge ==
    Settled => \A e \in Event : Kind[e] = "person_added" =>
        Agree(Target[e], {"display_name", "archived_at", "default_entry_currency"}
                         \cup IF "person_unarchived" \in About(Target[e]) THEN {}
                              ELSE {"phone_e164"})

\* The name of a kaata agrees, and that of its shop unless both were changed:
\* the rename of the kaata moves the clock of the shop's name on the server only.
NamesConverge ==
    Settled => \A e \in Event : Kind[e] \in {"shop_profile_updated", "vault_setting_set"} =>
        LET kinds == About(Target[e]) IN
        /\ Agree(Target[e], {"setting"})
        /\ "vault_setting_set" \notin kinds => Agree(Target[e], {"shop_name"})

\* "The arrival-order fold converges to the same HLC-max winner as the server's
\* sorted fold" (persons.ts), for every record that is not an entry.
RecordsConverge == PersonsConverge /\ NamesConverge

\* A change never lands before the row it changes, and no entry of an account
\* is applied before that account's device and role are: at no moment does the
\* log call applied what the tables cannot carry.
Grounded ==
    \A e \in Event : row[e] = "applied" =>
        /\ ~Missing(table, e)
        /\ e \in Mine \/ (e \in Signed /\ Bound(Author[e]) /\ HasRole(Author[e], e))

\* Only an event without a good signature is given up, and a ledger event only
\* where verifyAndIngest found a bad one: never for want of a signature.
BuriedForCause ==
    \A e \in Event : row[e] = "buried" =>
        e \notin Signed /\ (Kind[e] \in Membership \/ e \notin Unsigned)

\* What is applied or given up stays so; and tallies never disappear: a ledger
\* event the phone has once stored is not given up by any later judgement.
VerdictsLast ==
    \A e \in Event :
        /\ row[e] \in {"applied", "buried"} => row'[e] = row[e]
        /\ row[e] = "stored" /\ row'[e] = "buried" => Kind[e] \in Membership

\* The state of a row tells the truth about it, whichever of pull, relay, append
\* and sweep judged it: applied is carried by the tables, given up has a cause,
\* and both are final.
VerdictsHold == [](Grounded /\ BuriedForCause) /\ [][VerdictsLast]_vars

\* A row whose every prerequisite is on the phone, by name: the create it
\* changes, its author's admission and device, a build that knows it.
Here(e) == row[e] # "absent" /\ e \in Signed /\ Known(e)

Admitted(a, e) ==
    a = Owner \/ \E m \in Event : /\ Kind[m] = "vault_member_added" /\ Target[m] = a
                                  /\ Here(m) /\ Author[m] = Owner /\ Hlc[m] < Hlc[e]

Bindable(a) ==
    a = Owner \/ \E d \in Event : /\ Kind[d] = "vault_device_added" /\ Target[d] = a
                                  /\ Here(d) /\ Author[d] = Owner /\ Admitted(a, d)

Authored(e) == e \in Mine \/ (Admitted(Author[e], e) /\ Bindable(Author[e]))

Ready(e) ==
    /\ Here(e) /\ Authored(e)
    /\ Kind[e] = "vault_device_added" => Admitted(Target[e], e)
    /\ Kind[e] \in NeedsRow =>
        \E c \in Event : Target[c] = Target[e] /\ Kind[c] \in {"entry_created", "person_added"}
                         /\ Here(c) /\ Authored(c)

\* A row that could apply does not stay in quarantine for ever, whatever order
\* its prerequisites came in and whichever sweep was lost: again and again a
\* moment comes when every row that is ready is applied.
Heals == []<>(\A e \in Event : Ready(e) => row[e] = "applied")

=============================================================================
