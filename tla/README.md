# kaata in TLA+

kaata is an offline-first ledger: a shopkeeper's phone records who owes what, several phones share
one *kaata* (in the code a *vault*), and a server and a Bluetooth/LAN mesh carry the records between
them. Everything a user does becomes an **event** in an append-only log, stamped by a hybrid logical
clock. This directory models the part everything else rests on: the clock, the log and its way to the
server and to the other replicas, the attribution of events written before sign-in, the way the log
becomes the tables on the screen, the scheduling that gets an event from one phone to another in
seconds, the accounts that two shops share, and who has a seat in a kaata while requests overlap.

Paths below are relative to `src/apps/`; `PROJECT.json` maps every definition to its lines.

## 1. Inventory

| Component | State it keeps | Operations | What makes it correct |
|---|---|---|---|
| Hybrid logical clock, `mobile/lib/hlc.ts` | `app_meta.hlc_last` | `tickLocal`, `tickReceive`, `compareHLC` | stamps of a device are fresh and ordered; a peer's clock cannot drag it off; an edit sorts after what it was based on |
| Event log and append, `lib/projection/index.ts`, `event-log.ts` | `event_log` rows with `author_seq`, `server_acked_at`, `rejected_at`, `next_push_at` | `applyEventInTransaction`, `nextAuthorSeqInTx` | a device's events are numbered without repetition |
| Push, `lib/sync/push.ts` | the outbox (a query), backoffs, `last_push_at` | `pushEvents`, response transaction | acknowledged only if stored; nothing lost; nothing starved |
| Server log, `backend/internal/sync/service.go` | `events` with `server_seq`, `author_seq` | `PushEvents`, `PullEvents`, `DeviceVectors` | one total history per kaata, appended behind nobody's cursor |
| Pull and ingest, `lib/sync/{pull,cursor}.ts`, `lib/projection/ingest-row.ts` | `sync_state.last_pulled_server_seq` | `pullEvents`, `ingestPulledEvents` | the cursor never passes an event that is not on disk |
| Mesh anti-entropy, `lib/mesh/anti-entropy.ts`, `lib/replication/planner.ts` | sessions, version vectors (queries) | handshake, `computeRelayableVector`, `fetchNextBatch`, `applyIncomingBatch` | a vector is a promise that the events are held |
| Account binding, `lib/auth.ts`, `event-log.ts`, `backend/internal/sync/account_binding.go` | session, account cache, `account_bound` events, denial cache | sign-in housekeeping, `scanBindings`, `InvalidateVault` | events of a signed-out phone are attributed, reach the server, and no stale denial holds them |
| Projection and sweep, `lib/projection/*` | ledger tables, `applied_at`, quarantine | appliers, `sweepQuarantine`, `replay` | replicas converge whatever the order of arrival; nothing stays quarantined that could apply |
| Server vector, `lib/replication/server-vector.ts` | none | `checkConvergence` | never reports agreement that does not hold |
| Pull page cache and redaction window, `service.go` | LRU of pages | `PullEvents`, `invalidatePullCacheForVault` | no page older than a commit is served after it; redacted holes are stepped over |
| Scheduler and live pokes, `lib/sync/{scheduler,live}.ts`, `backend/.../live.go` | timers, in-flight and dirty flags, socket buffers | `tick`, `pushVaultNow`, `onPoke`, `notify` | the last write of a burst is pushed, the last poke leads to a pull |
| Membership chain, `backend/.../membership.go`, `lib/trust/*` | signed membership events, ACL tables | verify, fold | every replica and the server fold the same members |
| Vault lifecycle, `backend/internal/vaults` | members, roles, archive, invitations, epoch | REST handlers, the purge job | an owner always remains, whatever requests overlap; only members write; nothing is purged too early |
| Ownership transfer, member readmission | grants, seats | multi-step exchanges of two phones and the server | exactly one owner, exactly one seat |
| Snapshot, restore, recovery | snapshots, primed cursor | `restoreFromSnapshot`, `recoverAllVaults` | a restored phone has what it pulled before |
| Mutual tabs, `backend/internal/tabs`, `lib/tabs` | tabs, entries, revisions | propose, accept, settle, join, close | both parties see one history |
| Credit admission | limits, intents | `creditAdmit`, `revertRefusedClerkTally` | a limit holds under concurrent pushes |
| Accounts, codes, deletion | accounts, codes, throttles, grace periods | auth handlers, the deletion job | a deletion takes the account's own kaatas and no one else's |
| Reminders, groups, notes, currencies | last-writer-wins fields | small appliers | as the projection |
| Transports, pairing, native modules; web, billing, mail, admin; UI | - | byte transport, rendering, reporting | not of interest to a state model |

### How they interact

* Everything that writes the local log runs in a transaction under one `applyEventMutex`. Network
  requests run outside it; what a push has read may have changed when its answer is applied.
* A push reads its batch under the mutex, sends it, and applies the verdicts in one transaction. The
  scheduler's tick and `pushVaultNow` may push one kaata at the same time.
* A pull drains pages: each page is ingested row by row, a transaction each, and then the cursor is
  stored. The reconcile sweep and a poke may drain one kaata at the same time.
* The server runs a push in one transaction under the lock of the vault row, pulls without locks.
* Member requests, pushes, the purge job and account deletions are PostgreSQL transactions that meet
  only at row locks, taken in the order accounts, vault, members.
* Mesh sessions insert into the same log, unacknowledged; the receiver becomes a second uploader.
* Signing in writes one `account_bound` event per kaata and account; the server's permission check
  consults it for events without an actor, through a cache that a later commit invalidates.

### What is hard here

Requests that time out and still arrive; answers applied to rows that have moved on; overlapping
pushes and pulls; kills between a commit and its acknowledgement; a database lost while the install
id survives, so that numbers are issued twice; clocks that are wrong by seconds, hours or days with a
different bound at each boundary; refusals that are meant to pass; cached answers; batches that
contain an event and the event that makes it admissible. `PROJECT.json` lists each as a hazard at its
line, with the properties that watch it.

## 2. Modules

| Module | Models | Composes |
|---|---|---|
| `HLC` | the clock as pure operators | |
| `HLCClock` | devices authoring and ingesting under clocks that jump | extends `HLC` |
| `HLCClockProofs` | its theorems | extends `HLCClock` |
| `EventSync` | log, outbox, server, pull, mesh, crashes of one kaata | instantiates `ReplicatedLedger` |
| `ReplicatedLedger` | what synchronisation promises: one growing history, devices that hold and read it | |
| `EventSyncProofs` | theorems on types, acknowledgements and loss | extends `EventSync` |
| `EventSyncLedgerProofs` | theorems on the pull cursor, numbers and vectors; `EventSync` implements `ReplicatedLedger` | extends `EventSyncProofs` |
| `AccountBinding` | sign-in, attribution, denials, reject backoff | |
| `AccountBindingProofs` | its theorems | extends `AccountBinding` |
| `LedgerFold` | the phone's appliers and the server's fold as operators on one table | |
| `Projection` | one phone: ingest, quarantine, sweep, launch, upgrade | extends `LedgerFold` |
| `ProjectionProofs` | its theorems | extends `Projection` |
| `PullCache` | the server's page queries, page cache, redaction | |
| `LiveSync` | a writer, the server and a reader: pokes, socket, scheduler, network | extends `PullCache` |
| `LiveSyncProofs` | theorems of both | extends `LiveSync` |
| `MutualTab` | a tab of two parties: server, phones, groups | |
| `MutualTabProofs` | its theorems | extends `MutualTab` |
| `VaultSeats` | members, ownership, archive, purge, account deletion and the gate of a push, lock by lock | |
| `VaultSeatsProofs` | its theorems | extends `VaultSeats` |
| `MCHLCClock`, `MCEventSync`, `MCProjection`, `MCMutualTab`, `MCVaultSeats` | values, state constraints and symmetry for TLC | |

### HLC, HLCClock

`TickLocal` and `TickReceive` are the two functions of `hlc.ts`, case by case; `Clamped`, `Merged`
and `Counted` name the intermediate values of `tickReceive`. `Less` is `compareHLC`, `Earlier` the
same without the device tie-break. In `HLCClock`, `wall[d]` is `Date.now()` (`SetClock` moves it
anywhere: NTP, the user), `hlc_last[d]` is the row of that name, `Author` is a local append and
`Ingest` an arriving event that passes the 24-hour refusal. `peak`, `issued` and `received` are
history variables for the properties.

### EventSync

An event is a number, handed out in creation order, which also stands for the logical part of its
stamp; `envelope` holds its immutable author and physical time. Per device: `log` (rows),
`authorSeq`, `acked` (`server_acked_at`), `refused` (`rejected_at`), `backoff` (`next_push_at` in the
future), `floor` (`author_seq_floor`), `frontier` (physical part of `hlc_last`), `cursor`, and the
running `push` and `pull` records, one per slot that the scheduler lets overlap. Server: `serverSeq`,
`slotSeq` (the `author_seq` column), `head`. `stray` holds requests whose sender gave up.

| Action | Code |
|---|---|
| `Append` | `applyEventInTransaction`, origin local |
| `ReadOutbox` | `pushEvents` up to the request: the SELECT with its order, limit and backoff gate, sequence numbers only of own rows |
| `ServerPush`, `ServerPushStray` | `PushEvents`: verdicts in the order of its checks, insertion in HLC order, adoption of a number by a duplicate |
| `HandleResponse` | the response transaction, all verdicts together |
| `PushTimeout` | abort after 20 s, or no connection |
| `OpenDrain`, `FetchPage`, `IngestRow`, `AdvanceCursor`, `CloseDrain` | `pullEvents` and `ingestPulledEvents`, with `setLastPulledServerSeq` storing the drain's own position |
| `MeshDeliver` | `applyIncomingBatch` of one event the vectors call for |
| `Crash`, `LocalReset` | the app is killed; the database is lost and the install id kept |
| `BackoffElapsed`, `Tick` | time |

The checks of `PushEvents` that depend on roles, chains and bindings are a choice of the server,
limited to the kinds of refusal a run lists in `Vetoes`: `held` (retryable), `refused` (final, only
for governance events), `shared` (`shared_tally_required`, final, for ledger events).

### AccountBinding

Events are numbered in HLC order; `kind` tells an actor's event (`named`) from those written before
the first sign-in (`anonymous`), between a sign-out and the next sign-in (`lapsed`), and the
`binding`. The sign-in runs in its steps (`SignIn`, `KnowAccount`, `ReadCutoff`,
`AppendAccountBound`), because appends interleave with them: `Compose` reads the account, `Append`
inserts later. `ServerPush` judges a batch in HLC order against bindings stored so far, as
`CheckEventPermission` with `ResolveTx` and `scanBindings`, including the cached denials;
`InvalidateVault` follows the commit as a step of its own. `Backoff` doubles what a row waited for
last, up to the cap; it and `Tick` measure time in units of the first backoff.
A batch that came up empty, or was acknowledged whole, leads to a second look at the log
(`LookAgain`), and one that finds nothing to `MarkPushDone`: two awaited statements without a mutex,
between which the user may append. `unseen` holds the rows that are older than `last_push_at` and
that the look before it did not see.

### ReplicatedLedger

Six variables of one kaata: authors, a history, and per device what it holds, what it knows to be in
the history, and how far it has read. `Publish` appends any line-up of unpublished events; `Read`
moves a device's position over events it holds, or whose author's clock it cannot accept (`Trusted`).
`EventSync` maps its server log to `history`, `log` to `has`, `acked` to `confirmed` and `cursor` to
`seen`; a push that inserts several rows is one `Publish`, the response transaction one `Confirm`, a
lost database `Forget`.

### LedgerFold, Projection

A table holds, for every object and field, the *event* that wrote it, so tables agree exactly when
their values do. `Apply` is the phone's dispatch table, applier by applier: `entry_created` replaces
the row, an amendment wins field by field and freezes the original currency, a deletion is final,
archive and unarchive share a register, the kaata's name is copied to the shop's. `ServerApply` is
`project.go`; `ServerFold` folds in clock order, as `ApplyEvents` does after its sort.

| Action | Code |
|---|---|
| `PullEvent`, `PullEnds`, `PullFails` | `ingestPulledEvents` row by row; the sweep after the drain, or none |
| `MeshEvent` | `applyIncomingBatch` with `verifyAndIngest` (`Verified`): known types only; without a signature no row, with a bad one a tombstone, whatever the type; timer armed |
| `LocalEvent` | `applyEventInTransaction`, origin local |
| `TimerFires`, `SweepStarts`, `NextPass`, `SweepEnds` | `scheduleSweep`, `sweepQuarantine` and its passes |
| `Replay`, `ReplayFails` | `applyAlreadyIngestedEvent`: build, role gate, prerequisites, applier |
| `Stamp`, `StampFails` | `applyVerdict`, the second transaction |
| `Crash`, `Launch`, `Foreground` | process death, start (perhaps of the next build), return |

Signatures are two sets: `Signed` (a good one) and `Unsigned` (none); an event in neither has a bad
one. Pull stores all three kinds. The sweep then gives a membership event without a good signature up
for good and leaves a ledger event waiting (`Refused`); the mesh decides before it stores, for every
type alike. A role is an applied `vault_member_added` with an earlier clock, a
device binding a row of the registry.

### PullCache, LiveSync

`PullCache` has the log as positions `1..head`, the two queries of `PullEvents` (`Enter` reads the
high-water mark, `PageQuery` the rows), the fill, the per-vault mutex (`holder`), expiry, the purge
that a committed push owes, and the ownership transfer that commits and pokes without purging.
`LiveSync` puts a writer (`pushVaultNow` with its dirty flag) before it and a reader behind it: broker
buffer, socket (up, down, or dead and unnoticed), the poke's debounce, tick, sweep and poke pulls with
their coalescing flags, each drain's own position against the stored cursor, background, network loss
and a restart of the server. Time is left out: a timer that is set may fire.

### MutualTab

Server: `rev`, `closed`, `row` per entry, `barred` (refused once by a credit limit). Phone: `cache`,
`cursor`, `shut`, the outbox with what sits out a backoff, `failed`, `full`, the running `syncTab`
(`run`) and a group response on its way (`view`).

| Action | Code |
|---|---|
| `AddEntry`, `Review`, `Withdraw`, `Tap`, `Close` | `queueTabMutation` with its optimistic change, `queueNotificationReview`, `unlinkContact` |
| `Append`, `SetStatus`, `Void`, `CloseTab` (through `ServerRun`, `ServerRunStray`, `ServerRunOther`) | the handlers of `tabs/service.go` under the tab's lock |
| `StartRun`, `Send`, `Acknowledge`, `Reject`, `Timeout`, `BackoffElapsed` | `runSyncTab`'s flush, `rejectTabOp`, `failTabOp` |
| `AskPull`, `ServerGet`, `HandlePull`, `PullFails` | the pull that ends a run; `Ingest` is `upsertTabFromWire` |
| `FetchGroup`, `CloseGroup`, `CacheGroup` | `groups.ts`, `CloseGroup` |
| `Kill` | between any two transactions, also between applying an answer and dropping its operation |

`grouped`, `limited` and `demotable` are chosen at the start: whether the tab is one of a group, which
phones' kaatas have a hard credit limit, and which phones' members may lose the right to write.

### VaultSeats

One kaata on the server. `account[a]` is the accounts row by its deletion state, `seat[a]` the
`vault_members` row, `vault` the vaults row, `votes` the `archive_concurred` rows of the audit log,
`log` who pushed what was committed. `tx[w]` is the transaction of connection `w`: what it does for
whom, the step it has reached, the rows its next statement locks (`todo`) and those it has (`held`).
A statement reads when it has its locks, and everything it writes appears at the commit, which is
when other transactions can see it under READ COMMITTED.

| Action | Code |
|---|---|
| `Invite`, `Accept`, `Leave`, `Transfer`, `SetRole`, `Revoke`, `Archive`, `Unarchive`, `Push` | the begin of the REST handlers of `vaults/service.go` and of `PushEvents` |
| `Lock` | one row of a statement is locked; `Shared` has the modes that do not exclude each other |
| `AccountsLocked` | `lockActiveAccounts`, `lockPushAccounts` |
| `VaultLocked` | the vault row `FOR UPDATE`; for a push the recheck of membership and archive |
| `SeatsLocked` | each handler's checks of roles and states (`Permitted`) |
| `OwnersLocked` | `countActiveOwners`, `countArchiveConcurrences`: all owners' rows, then the count |
| `CommitChange`, `CommitArchive`, `CommitPush` | what the handler has written (`After`, `Heirs` for `bumpEpoch`'s repair of `owner_account_id`) |
| `RequestDeletion`, `SignIn`, `GraceEnds` | `RequestAccountDeletion`, its cancellation, the 30 days |
| `Delete`, `FindOwned`, `DeleteOwned`, `DeleteSeat`, `CommitDelete` | `hardDeleteAccount` and the cascades of the foreign keys |
| `Purge`, `PurgeOwner`, `PurgeVault`, `CommitPurge` | `findPurgeCandidates`, `purgeOneVault` |
| `Rollback` | a lost connection, or the database breaking a deadlock |

`RequestDeletion` and `SignIn` take no locks over time: they are one step each, and happen only when
the rows they write are free.

## 3. Runs

| Run | Instance | Shows |
|---|---|---|
| `clock` | 2 devices, clocks 0..2, drift 1, ingest cap 2, 2 events | `ContainedDrift`, `FreshStamps`, `EditsFollowReceived` |
| `delivery` | 2 writers, one a day ahead, 2 events, one-row pushes and pages, 2 overlapping drains each, crashes, mesh | `AckedIsStored`, `CursorComplete`, `VectorHonest`, `CommitsBeyondCursors`, `ImplementsLedger` |
| `overlap` | 1 device 3 days ahead, 2 push slots, two-row batches of a ledger and a governance event, a stray request, a lost database | `NothingLost`, `NumbersUnique` |
| `binding` | 3 events, one-row pushes; one sign-out, one loss, or one row that slips in before a stamp | `HonestStamp`, `NoStaleDenial`, `CoveredReachServer` |
| `projection` | six stories of 4 or 5 events, two builds, one fault | `EntriesConverge`, `RecordsConverge`, `VerdictsHold`, `Heals` |
| `live` | 2 events, or one and one fault or redaction; pages of one row, a buffer of one frame | `SkipsOnlyRedacted`, `CursorCovers`, `PushesVisible`, `WriteIsOnItsWay`, `PokesSuffice`, `Arrives` |
| `mutual_tab` | a phone and a device of the other party, one entry of each, 2 operations, one fault | `CursorHonest`, `ConfirmedIsFinal`, `IntentKept`, `RefusedIsUndone`, `Settles`, `FirstDecisionStands` |
| `seats` | 2 accounts, 2 connections, 2 requests, 1 push, deletions and purges without a bound | `CanonicalOwns`, `CyclesNeedDeletion`, `WritersAreMembers`, `EndsLawfully` |

Every one of them also checks its module's type invariant, except `delivery`, whose module's is
checked by `overlap`. Four more runs exhibit disagreements between the code and what its comments say
(section 6).

**Bounds.** Two devices suffice for every relation between an author, a relay and a reader that the
properties mention; a third would only add relays. Two events give two authors, two events of one
author, an order, a gap and a contested number; three in `AccountBinding` give an event, its cutoff
and the binding. One-row pushes and pages make every multi-page and multi-batch behaviour happen with
two events; `overlap` uses two-row batches for mixed verdicts. Clock differences are 1, 2 or 3 days
against bounds of 1 (ingest) and 2 (server), hence below, between and above them. In `live` the buffer
holds one frame, so that it is full as soon as another kaata's poke is in it, and every good tick
starts a sweep. In `mutual_tab` two operations of one phone are enough for an operation and the one
that must wait for it, and one entry of each side for a review and a withdrawal. In `seats` two connections
are every pair of overlapping transactions; of two requests, one sets up a situation (a second owner, an
archive) and one races a push, a purge or a deletion in it, or both race each other; three connections
and more are covered by the proofs.

State constraints cut choices of the environment, never a step that fairness demands: `Shallow` bounds
the logical counter at 3 (two ticks above every case of `tickReceive`); `Calm` bounds requests and
drains in flight, over all devices, at 2 (every pair of overlapping activities, no triples);
`OneSetback` allows a sign-out, a loss, or a row between look and stamp, one in all; the `OneStory` of `Projection` confines a
behaviour to the events of one story, since what objects of different stories do to each other is
nothing; the `OneStory` of `MutualTab` takes one complication at a time among groups, credit limits
and demotions, lets a fault happen without the first and the last of them, and queues one operation
where the others are many.

`CHECK_DEADLOCK FALSE` wherever everything may have been written and synchronised, when the system
rightly has nothing to do.

**Fairness.** Nothing is assumed of the user, and faults are finite in number.
`AccountBinding`: the scheduler ticks every 5 s in the foreground (30 s in the background) for as long
as there is a session (`ReadOutbox`, `HandleResponse`, `LookAgain`, `MarkPushDone`); a request that is not lost is
run to its end (`ServerPush`, `InvalidateVault`); time passes (`Tick`, `CacheExpires`), and `Tick`
waits for a push to have been started since it last moved, because a unit (30 s) holds six foreground
intervals. `BackoffCap` exceeds the number of stuck rows at one row per push, as the code's cap of 120
units does for the 500-row batches of `push.ts` up to some sixty thousand stuck rows.
`Projection`: a timer that is armed fires and a sweep that runs goes on; a killed app is opened again
and an open one comes back to the foreground from time to time, which is when `AppState` re-arms the
sweep. `Heals` needs the last of these: a pull that breaks off after storing rows arms nothing.
`LiveSync`: the writer's tick retries, a handler that runs is run to its end, the page mutex is not
withheld for ever from one who asks again and again (strong fairness of `Enter` and `Purge`: Go's
mutex hands over to a waiter that has starved for a millisecond), timers fire, pages expire after
their lifetime, and the network comes back. Sockets, `Dial`, `Watchdog`, `Foreground` and the delivery
of frames get no fairness at all: `Arrives` holds by the polls alone.
`MutualTab`: the loop takes up what `syncAllTabs` selects (`Owed`), requests are answered, backoffs
elapse.
`EventSync`, `HLCClock` and `VaultSeats` assume none and claim no liveness.

## 4. Proofs

All theorems hold for every value of the constants; they rest on the named assumptions of the modules
(`ClockAssumption` and its like: counts are numbers, batches and pages not empty, ids are distinct).

`HLCClockProofs`: `TypeCorrect`, `DriftContained`, `FrontierNeverFallsBack`, `StampsAreFresh`,
`EditsWin`. Every tick yields a stamp later than the frontier it starts from (`LocalAdvances`,
`ReceiveAdvances`, by the cases of the two functions), `Earlier` is a strict order, so the frontier
only moves forward; `FrontierCoversOwn` (no stamp a device has issued is later than its frontier) is
the inductive invariant behind `StampsAreFresh`, as the next stamp is later than the frontier; a
received stamp within the drift stays behind the frontier (`ReceivePasses`, `StaysBehind`), which
gives `EditsWin`.

`EventSyncProofs` and `EventSyncLedgerProofs`. Frame lemmas (`PushChanges`,
`PullChanges`, `RowChanges`, `ServerChanges`, `CursorChanges` and their siblings) go through the
actions once and say which of them touch a variable; the invariants build on them.

* `TypeCorrect`: action by action; the numbers taken as a maximum (`Upto`) need that a finite set of
  numbers has one (`HasLargest`, by well-foundedness of the strict subset order).
* `AcknowledgedAreStored`: `AckedIsStored` is not inductive, since an answer or a page in hand will set
  flags later. `AckInv` adds that every verdict "accepted" or "duplicate" in an answer and every row
  of a page is stored, and the server forgets nothing (`StoredGrows`).
* `QueuedUntilStored`: with `AckInv`, an event not stored is not acknowledged; `AtHome` keeps it on
  its author's device until the database is lost, `FinalAnswers` ties every refusal, in an answer or
  in a row, to a reason that is final.
* `AppendsBeyondCursors`: `WithinHead` bounds positions, cursors and pages by `head`, and a commit
  places what is new after the old head and up to the new one (`CommitPlaces`, by counting the fresh
  events that sort before each).
* `CursorSkipsNothing`: `CursorInv` says of each drain that everything tolerated up to where it
  started is on disk, and everything up to where it will move the cursor is on disk or still in its
  page (`DrainsSound`). That is what makes it harmless that drains overwrite each other's cursor: each
  value one of them stores is sound by itself. A page is a gapless piece of the history
  (`PageReaches`), commits fall beyond all of it (`ReachedStays`), and a tolerated author's event
  passes the ingest cap because `InTime` bounds every stamp by its author's clock and the drift.
* `HistoryIsOne`: the positions `1..head` are taken, each by one event (`Chained`).
* `NumbersAreUnique`: `NumbersInv` says of every bag of numbers there is (logs, requests in flight or
  given up, the server's column) that it gives no number of an author twice. An append is beyond all of
  the author's own (`nextAuthorSeqInTx`), a row that would clash enters without its number
  (`resolveAuthorSeqSlot`), and the server takes an adoption only where the slot is free.
* `VectorsAreHonest`, `ContestsFollowALoss`: until a database is lost, the author's own log is the
  authority. `NothingWiped` says that it has all its events with a number (`Kept`), that every other
  number anywhere is zero or the author's (`Echoed`), and hence that no answer holds a contested
  number (`Uncontested`). Covering number `n` then means holding the event that has it.
* `SyncIsALedger`: the refinement. `History` is the inverse of `serverSeq` (`HistoryIs`); one lemma per
  kind of step shows which step of the ledger it is (`AppendWrites`, `PushPublishes`,
  `ResponseConfirms`, `RowIsFetched`, `CursorReads`, `DeliveryRelays`, `ResetForgets`), and
  `EveryStepSimulated` that the others change nothing of it. `Confirm` needs `AckInv`, `Read` needs
  `CursorInv`.

`AccountBindingProofs`: `TypeCorrect`, `StampsAreHonest`, `DenialsAreCurrent`. The stamp rests on
`AnswersAreTrue`: what an answer accepts and what a row is marked for is stored, so a look that finds
nothing pending has seen only rows the server has, and keeps being right about them until the stamp,
since the server forgets nothing. Of rows appended after the look the theorem says nothing, and
nothing holds (section 6). A denial can only grow stale through
a binding that is stored after it, and a commit that stores anything owes the invalidation.

`ProjectionProofs`: `Invariance` proves the inductive `IInv`, which adds to `TypeOK` and `Grounded` that
the verdict in hand is as sound as one already stamped, and that a table never loses a row or a device
(`PutKeeps`, `AmendedKeeps`, `ApplyKeeps`: what `INSERT OR REPLACE` puts in place of a row is a row).
From it `VerdictsAreTrue`, in its three parts: what is applied is grounded; what is given up lacks a
good signature, and a ledger event is given up only for a bad one (`BuriedForCause`); and no step takes
a verdict back or gives up a ledger event that is stored (`VerdictsLast`). The last is shown step by
step (`StepJudges`): a sweep judges only rows that wait (`SweepsWait`), and the mesh only events the
phone does not have. `ChangesCommute`: two changes of a person, applied in either order, leave the same table.

Convergence rests on a description of a row that does not mention order. `Right(t, D, x)`: in the table
`t`, every field of `x` belongs to the latest of the events of `D` that touch it, the entry is deleted
when `D` has a deletion, its amount is in the unit of the event that wrote it, its original unit is
frozen when `D` has an amendment that names one. Two rows that are right about the same events show the
same (`RightShowsOne`, `LatestIsOne`). `PhoneFollows` takes the phone's appliers one by one: an event
that finds its row keeps the table right, whatever its clock, and a change that was taken in already
changes nothing when it is replayed. `ServerFollows` does so for the server,
where it has the latest clock, and `FoldIsRight` carries it to every finite set; that needs
`FoldUnfolds`, that the fold of a set is its latest event applied to the fold of the rest, since
`ServerFold` is a `CHOOSE` of a function on sets (`FoldsExist`, `FoldsAgree`: there is one, and any two
agree). `TakenIn(D)` says that the table is right about `D`: all the events applied, and those that
were applied but still wait, for want of the mark. `ConvInv` says that there is such a `D`, and
`StepTakesIn` finds the next one for every step. So `TablesStayRight`, and from it `EntriesAgree` and
`RecordsAgree`: `EntriesConverge` and `RecordsConverge` for any events, any clocks, any order, under two
hypotheses that the code does not remove:

* `NoOverwrite`: no creation is applied over a row that it would change. The run `projection_replay`
  refutes both, `EntriesConverge` and this: a creation that was applied and not marked is replayed over
  a correction. The stories of `projection` obey it with their one fault, as the phone corrects only its
  own entries there; a second fault, a failed replay of the unmarked creation, would lose a correction
  of another phone too. `OverwritesNeedAFault` says that this is the only way: if no kill and no failure
  falls between the two transactions of an applied row (`Stamped`), `NoOverwrite` holds, because the
  only creation of a row that is there is marked, and a marked row is never replayed (`MarkedInv`).
* `Sound(x)`: `x` is created once, and changed with later clocks than its creation's. The ids of entries
  and persons are random (`event-log.ts:223`, `db.ts:4508`), and who changes one has received it, so
  that the clock has moved past it (`EditsFollowReceived`, within the drift). The two exceptions are in
  section 6.

`TargetAssumption` (an id belongs to one kind of object) and `FieldsAssumption` (each change of a person
is about one field) are how `event-log.ts` builds its events; TLC evaluates both in every run.

`LiveSyncProofs`: `CacheCorrect` (the invariant of the cache with its requests in every stage:
`PagesAreHonest`, `PushesReachPages`) is inductive for `PullCache` alone; `ComposesPullCache` shows
that every step of `LiveSync` is one of `PullCache` or leaves it alone, so that its theorems carry
over; `LiveCorrect` adds the drains (`CursorIsCovered`: what a drain's position, the page on its way
and the cursor leave behind is stored or redacted) and the push in flight (`WritesAreNotForgotten`).
`TypeCorrect` needs two invariants beside it: `SchedInv` (the tick is always set or running, the
broker's buffer within its size, the active kaata never pulled by a poke) and `LogInv` (pages,
positions and cursors end within the log). `PokesAreEnough`: `PokeInv` says where the news is. What the
reader lacks is `Announced` (an owed purge, a poke unsaid, a frame, a set timer, a poke pull that will
run again), or the poke's pull that runs will see it (`PullWillSee`: it has not asked yet, or what it
waits for is visible in its answer, which rests on `LiveInv`'s purge before the poke). `RequestsTell`
follows a request through the cache, `LastPageDelivers` says that a drain that ends has fetched what it
would see; the pull that ends while a poke came in is restarted, and that is what `again` is for.

`MutualTabProofs`: the law of rows (`Grows`: a request changes one row at most, to the next revision,
and only from nothing or from pending) gives `FirstDecision`, and makes what the server has once said
stay true of its past (`Past`, `Sourced`), which is how an answer applied late can be judged. `CopyInv`
relates a phone's copy, cursor and answer in hand (`HonestAt`, `PullAt`, `AckedAt`, `FinalAt`): from it
`Cursor` and `Confirmed`. `Intent` needs that an operation whose request was granted is done and stays
done (`Kept`, `DoneStable`); `Refused` that whatever makes the server refuse an operation still does
when an earlier request of it arrives late (`Undone`, `RefusalBlocks`).

`VaultSeatsProofs`: `TypeCorrect`, `OwnerIsAnOwner`, `CirclesNeedDeletions`, `OnlyMembersWrite`,
`EndsAreLawful`, for any number of accounts and connections. `CanonicalOwns` is about committed rows,
and a commit is right only if what its transaction has read still holds; so `IInv` adds `Exclusive`
(two transactions have a row only if both share an account) and, for each transaction, `Fine`: what it
may rely on at its step because of the locks it has. Steps that write nothing keep it by
`StepKeeps`; for a commit the question is what it leaves of the others' `Fine`, and the answer depends
on the locks the others cannot have: `WithoutVault` (who lacks the vault row relies on little),
`UnderVault`, `MemberGoneKeeps` and `OutsideKeeps` (deletions and timers, which do not take it).
`CirclesNeedDeletions` follows from `SeatsLast`: requests, pushes and purges lock members last, and
under the vault row's lock, and share accounts, so that everyone in a circle of them, of whatever length,
would wait for the vault row, which only one has. `OnlyMembersWrite`
and `EndsAreLawful` read the commit's guard off `Ready`.

**Only model-checked.** Liveness (`CoveredReachServer`, `Heals`, `Arrives`, `Settles`), which is beyond
the proof system, and the four claims of the code that TLC refutes.

## 5. Not modelled, and the plan

Of `EventSync`: the 403 and archive branches of push and pull, `credit_limit_exceeded`, redacted rows
(see `PullCache`), the re-announcement of migration 018, the cursor rewinds of recovery, restore and
migrations. Of `AccountBinding`: a second account on the device, the limit of ten bindings per scan,
cutoffs named by another device. Of `Projection`: removal and demotion of members and devices, credit
admission, groups, settlements, restored rows, the tombstone of a payload the sweep cannot build; the
cap on events of unknown devices, which leaves no row, so that the mesh offers the event again. Of `LiveSync`: durations and the growth of backoffs,
expired sessions, registration, the pokes of tabs beyond filling the buffer, pushes that arrive late;
a page is ingested at once, since `EventSync` takes it row by row. Of `MutualTab`: settlements,
joining, recording modes without review, labels, the reversing row, `expected_rev`, the administration
of groups. Of `VaultSeats`: the fold of pushed membership events into the seats, invitations of an
account by name and of ownership, readmission, credit, tokens, devices and the epoch; the roles below manager are one, so a writer
demoted to viewer during a push is not represented; and with two accounts votes of former owners
matter in the run only one at a time, for more they rest on `EndsAreLawful`; of an account's
deletion what it does outside the kaata (tabs, installations, sessions). Components without a module
are listed with the reason in `PROJECT.json`.

Order of the modules to come:

1. The membership chain: signed membership events, their fold on phones and into the seats of
   `VaultSeats`.
2. `Restore`: snapshot, tail and primed cursor; recovery's rewinds.
3. `Planner` and `ServerVector`: pure functions against reference definitions; `checkConvergence`.
4. Ownership transfer and member readmission as exchanges of two phones and the server.
5. `CreditAdmission`, then the rest of an account's deletion.

Theorems to come: those of the modules above.

## 6. Where the code and its comments disagree

With a run:

* `future_skip`: the server accepts events dated up to 48 hours ahead, a replica refuses to ingest
  more than 24, and its pull cursor passes what it refused. `pull.ts` says the cursor can never skip
  an event that is not on disk; the event comes back only if a mesh peer has it. `CursorComplete`
  states what holds: no event of an author within the cap is skipped.
* `binding_race`: an event composed before a sign-in and inserted after the cutoff was read is never
  attributed and never accepted.
* `binding_lapsed`: nor is one written after a sign-out, if the same account signs in again: the old
  `account_bound` suppresses the new one.
* `projection_replay`: a row is applied in one transaction and stamped in another; if the second fails,
  the next sweep replays an `entry_created` over every correction made meanwhile.

Without one, met while modelling:

* `push.ts:251` says that a stamp never claims backed up what the server does not have. `last_push_at`
  takes its own time after an unlocked look (`push.ts:262`, `:627`, `cursor.ts:42`), so a row appended
  in between is older than the stamp and not on the server; the next push sends it. `HonestStamp` is
  about the rows the look has seen.
* `replay.ts:139` says that user ledger data must never reach a tombstone on a signature condition.
  The sweep keeps to it; `verifyAndIngest` (`ingest-types.ts:223`) tombstones a badly signed event of any
  type that comes over the mesh, and a pull of the same event, which would have quarantined it, then
  finds the row taken. `VerdictsLast` holds what is left of the promise: not once it is stored.
* `hlc.ts:46` promises that the next local stamp sorts after a received event; beyond the drift of 60 s
  it does not. `EditsFollowReceived` states it within the drift.
* The accepting of an ownership transfer (`ownership_invites.go:446`) pokes without purging the page
  cache, so the member that is poked may be served the page from before, for up to its lifetime.
* A rename of the kaata moves the clock of the shop's name on the server (`project.go:754`) and not on
  the phone (`vault_settings.ts:116`), so a shop rename with a clock in between wins on one side only;
  `NamesConverge` excludes the case.
* A person archived and brought back keeps the phone number on a phone that saw the events in one order
  (`persons.ts:246`, `:252`), and has none on the server (`project.go:653`, `:669`); `RecordsConverge`
  excludes the number then.
* A contact discovered through tabs has a derived id (`people-connections.ts:227`), so two phones that
  have not met may both create it. `applyPersonAdded` is INSERT OR REPLACE without a clock
  (`persons.ts:21`): the second creation, when it arrives, overwrites a rename made meanwhile on the
  phone; the server folds it in before the rename. `RecordsAgree` is about persons created once.
* A phone whose clock is behind the creator's by more than the drift dates its correction before the
  creation. Phones apply it, having the row; the server's fold meets it first and skips it
  (`project.go:356`). `EntriesAgree` is about corrections with later clocks.
* `countArchiveConcurrences` (`vaults/service.go:2161`) counts the `archive_concurred` rows of all time.
  After an unarchive the old ones still count, so that one owner's request can archive a kaata of several
  owners, where `sync-implementation-plan.md:1340` wants them unanimous. `EndsLawfully` states what
  holds: every owner of the moment has asked for it once.
* `vaults/service.go:1938` has every request lock accounts before anything else; `bumpEpoch`'s repair of
  `owner_account_id` takes the foreign key's lock on a co-owner's account after the vault's and the
  members'. With the deletion of that account waiting for a locked member the two wait in a circle, of
  which the database aborts one; hence the exception in `CyclesNeedDeletion`.
* A buffer full of other kaatas' pokes drops ours (`live.go:209`), although its reader will not pull
  ours for theirs; a sweep asked for while one runs is forgotten; a tick that ends sets the timer to
  the whole interval over a poke's zero. The polls make up for all three (`Arrives`).
* Tabs: a withdrawal whose answer was lost is retried, refused as `already_voided` and reported as not
  recorded, though it was; a pull in flight overwrites an optimistic decision while its operation is
  queued, so that a second one can be queued, against `mutual-tab-design.md:245`; a pull while a close
  waits shows the tab open again, and what is written then is refused.

## 7. Running

    tlc -workers 2 -config Delivery.cfg MCEventSync
    tlc -workers 2 -config VaultSeats.cfg MCVaultSeats
    tlapm HLCClockProofs.tla

and likewise for the other runs of `PROJECT.json` and the other `*Proofs.tla`.
