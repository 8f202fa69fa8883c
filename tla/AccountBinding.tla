--------------------------- MODULE AccountBinding ---------------------------
(***************************************************************************)
(* Events written on a signed-out phone carry no actor.  Signing in writes *)
(* one account_bound event naming the last event it speaks for, and the    *)
(* server attributes the nameless events up to that cutoff to the account. *)
(* Until it can, it refuses them (unauthored_pre_binding) and the outbox   *)
(* puts them aside with an exponential backoff.                            *)
(*                                                                         *)
(* One kaata, one device, one account.  Events are numbered in HLC order;  *)
(* waits are counted in units of the first backoff (30 s).                 *)
(*                                                                         *)
(* Translated from apps/mobile/lib/{auth,event-log,db-tx}.ts,              *)
(* lib/sync/push.ts and apps/backend/internal/sync/account_binding.go,     *)
(* permissions.go, service.go.                                             *)
(***************************************************************************)
EXTENDS Integers, FiniteSets

CONSTANTS
    MaxEvents,    \* bound: events ever written, account_bound included
    MaxBatch,     \* MAX_BATCH_SIZE
    BackoffCap,   \* REJECT_BACKOFF_CAP_MS, in units of REJECT_BACKOFF_BASE_MS
    MaxSignOuts,  \* bound: sessions that end
    MaxLosses     \* bound: restarts and requests or answers lost

ASSUME BindingAssumption ==
    /\ MaxEvents \in Nat /\ MaxBatch \in Nat \ {0} /\ BackoffCap \in Nat \ {0}
    /\ MaxSignOuts \in Nat /\ MaxLosses \in Nat

Event == 1..MaxEvents

VARIABLES
    session,   \* the JWT is stored
    account,   \* the account cache of getAccountIdSync is set
    known,     \* app_meta.account_id, which a sign-out keeps
    signin,    \* how far a sign-in has come
    last,      \* the cutoff postSignInHousekeeping has read
    draft,     \* an event built by its helper, waiting for the write mutex
    kind,      \* kind[e]: what e is, "none" before it is written
    cutoff,    \* retroactive_through_event_id of the account_bound event
    acked,     \* rows with server_acked_at set
    backoff,   \* backoff[e]: the last one; all push_attempts is counted for
    wait,      \* wait[e]: until next_push_at
    push,      \* the push in flight
    pushed,    \* a push has been started since the clock last moved
    stored,    \* the server's events
    denied,    \* the resolver's cached "no binding covers this"
    stale,     \* a committed push has yet to invalidate that cache
    unseen,    \* rows older than last_push_at that the look before it did not see
    signouts, losses

authVars == <<session, account, known, signin, last, signouts>>
logVars == <<draft, kind, cutoff>>
rowVars == <<acked, backoff, wait>>
serverVars == <<stored, denied, stale>>
vars == <<authVars, logVars, rowVars, push, pushed, serverVars, unseen, losses>>

Written == {e \in Event : kind[e] # "none"}
Nameless == {e \in Written : kind[e] \in {"anonymous", "lapsed"}}
Bindings == {e \in Written : kind[e] = "binding"}
Pending == Written \ acked
Outbox == {e \in Pending : wait[e] = 0}
Batch == {e \in Outbox : Cardinality({f \in Outbox : f < e}) < MaxBatch}
Idle == [phase |-> "idle", batch |-> {}, refused |-> {}]

\* mutants: one wait for every attempt, and the next power, uncapped
Flat(b) == 1
Steeper(b) == IF b = 0 THEN 1 ELSE 2 * b

\* rejectBackoffMs: the first backoff, then twice the last one, up to the cap.
Backoff(b) ==
    IF b = 0 THEN 1
    ELSE IF 2 * b > BackoffCap THEN BackoffCap ELSE 2 * b

----------------------------------------------------------------------------
\* Writing.

(* An append helper (appendEntryCreated and its siblings) reads the account *)
(* before it queues for the mutex.  "lapsed" is an anonymous event of a     *)
(* phone that was signed in once.                                           *)
Compose ==
    /\ draft = "none"
    /\ draft' = IF account THEN "named" ELSE IF known THEN "lapsed" ELSE "anonymous"
    /\ UNCHANGED <<authVars, kind, cutoff, rowVars, push, pushed, serverVars, unseen, losses>>

Write(k) ==
    \E e \in Event :
        /\ Written = 1..(e - 1)
        /\ kind' = [kind EXCEPT ![e] = k]

Append ==
    /\ draft # "none"
    /\ Write(draft)
    /\ draft' = "none"
    /\ UNCHANGED <<authVars, cutoff, rowVars, push, pushed, serverVars, unseen, losses>>

----------------------------------------------------------------------------
\* Signing in and out; mutateLocalSession lets one finish before the next.

\* installAuthResponse stores the session
SignIn ==
    /\ ~session /\ signin = "none"
    /\ session' = TRUE
    /\ signin' = "session"
    /\ UNCHANGED <<account, known, last, signouts, logVars, rowVars, push, pushed,
                   serverVars, unseen, losses>>

\* postSignInHousekeeping, first half
KnowAccount ==
    /\ signin = "session"
    /\ account' = TRUE /\ known' = TRUE
    /\ signin' = "account"
    /\ UNCHANGED <<session, last, signouts, logVars, rowVars, push, pushed,
                   serverVars, unseen, losses>>

\* ... which then looks for the latest event; an empty log gives no cutoff
ReadCutoff ==
    /\ signin = "account"
    /\ last' = Cardinality(Written)
    /\ signin' = "cutoff"
    /\ UNCHANGED <<session, account, known, signouts, logVars, rowVars, push, pushed,
                   serverVars, unseen, losses>>

\* ... and appends account_bound, unless the log has one of this account
AppendAccountBound ==
    /\ signin = "cutoff"
    /\ IF Bindings = {}
       THEN Write("binding") /\ cutoff' = last
       ELSE UNCHANGED <<kind, cutoff>>
    /\ signin' = "none" /\ last' = 0
    /\ UNCHANGED <<session, account, known, signouts, draft, rowVars, push, pushed,
                   serverVars, unseen, losses>>

\* signOut, or clearLocalSession on a 401
SignOut ==
    /\ session /\ signin = "none" /\ signouts < MaxSignOuts
    /\ session' = FALSE /\ account' = FALSE
    /\ signouts' = signouts + 1
    /\ UNCHANGED <<known, signin, last, logVars, rowVars, push, pushed,
                   serverVars, unseen, losses>>

(* The app is killed and started again: refreshAccountIdCache.  A request   *)
(* on its way to the server is lost, or has been run already.               *)
Relaunch ==
    /\ losses < MaxLosses
    /\ losses' = losses + 1
    /\ account' = known
    /\ signin' = "none" /\ last' = 0
    /\ draft' = "none"
    /\ push' = Idle
    /\ UNCHANGED <<session, known, signouts, kind, cutoff, rowVars, pushed, serverVars, unseen>>

----------------------------------------------------------------------------
\* Pushing, the client's half.

\* an empty batch goes on to ask whether the outbox is empty too
ReadOutbox ==
    /\ session /\ push.phase = "idle"
    /\ push' = IF Batch = {} THEN [Idle EXCEPT !.phase = "look"]
                             ELSE [Idle EXCEPT !.phase = "sent", !.batch = Batch]
    /\ pushed' = TRUE
    /\ UNCHANGED <<authVars, logVars, rowVars, serverVars, unseen, losses>>

\* PUSH_TIMEOUT_MS, or no connection
PushLost ==
    /\ push.phase \in {"sent", "answered"} /\ losses < MaxLosses
    /\ push' = Idle
    /\ losses' = losses + 1
    /\ UNCHANGED <<authVars, logVars, rowVars, pushed, serverVars, unseen>>

\* the response transaction
HandleResponse ==
    /\ push.phase = "answered"
    /\ acked' = acked \cup (push.batch \ push.refused)
    /\ backoff' = [e \in Event |-> IF e \in push.refused THEN Backoff(backoff[e]) ELSE backoff[e]]
    /\ wait' = [e \in Event |-> IF e \in push.refused THEN Backoff(backoff[e]) ELSE wait[e]]
    /\ push' = IF push.refused = {} THEN [Idle EXCEPT !.phase = "look"] ELSE Idle
    /\ UNCHANGED <<authVars, logVars, pushed, serverVars, unseen, losses>>

\* mutant: the look skips rows sitting out a backoff, as the batch does
LookAtBatch ==
    /\ push.phase = "look"
    /\ push' = IF Outbox = {} THEN [Idle EXCEPT !.phase = "stamp", !.batch = Written] ELSE Idle
    /\ UNCHANGED <<authVars, logVars, rowVars, pushed, serverVars, unseen, losses>>

(* A second look at the log, for any row that is pending.  It holds no      *)
(* mutex; what it has seen is kept here as the batch.                       *)
LookAgain ==
    /\ push.phase = "look"
    /\ push' = IF Pending = {} THEN [Idle EXCEPT !.phase = "stamp", !.batch = Written] ELSE Idle
    /\ UNCHANGED <<authVars, logVars, rowVars, pushed, serverVars, unseen, losses>>

(* markPushDone, a statement of its own with a time of its own: what was    *)
(* appended after the look is older than last_push_at all the same.         *)
MarkPushDone ==
    /\ push.phase = "stamp"
    /\ unseen' = Written \ push.batch
    /\ push' = Idle
    /\ UNCHANGED <<authVars, logVars, rowVars, pushed, serverVars, losses>>

(* The clock moves on.  Foreground ticks come every 5 s, six to a unit, so  *)
(* a signed-in phone starts a push before it does.                          *)
Tick ==
    /\ session => pushed
    /\ \E e \in Event : wait[e] > 0
    /\ wait' = [e \in Event |-> IF wait[e] > 0 THEN wait[e] - 1 ELSE 0]
    /\ pushed' = FALSE
    /\ UNCHANGED <<authVars, logVars, acked, backoff, push, serverVars, unseen, losses>>

----------------------------------------------------------------------------
\* Pushing, the server's half.

(* scanBindings over the stored account_bound: a nameless event up to the   *)
(* cutoff is the account's, once the cutoff is there to compare with; until *)
(* then only the cutoff itself is.                                          *)
Attributed(e, S) ==
    /\ Bindings \cap S # {}
    /\ IF cutoff \in S THEN e <= cutoff ELSE e = cutoff

(* PushEvents runs the batch in HLC order: an event sees those before it in *)
(* the batch that were admitted, and a cached denial is not looked into.    *)
(* The cache is dropped as soon as account_bound is inserted.               *)
Admitted(batch) ==
    LET bound == (batch \cap Bindings) \ stored
        Earlier(e) == stored \cup {f \in batch : f < e /\ (f \notin Nameless \/ f = cutoff)}
        Denied(e) == e \in denied /\ ~\E b \in bound : b < e
    IN  {e \in batch : e \notin Nameless \/ (~Denied(e) /\ Attributed(e, Earlier(e)))}

NewBindingOnly(fresh) == fresh \cap Bindings # {}  \* mutant: a late cutoff does not count
Invalidates(fresh) == fresh # {}

ServerPush ==
    LET ok == Admitted(push.batch)
        refused == push.batch \ ok
        fresh == ok \ stored
        bound == Bindings \cap fresh
    IN
    /\ push.phase = "sent"
    /\ push' = [push EXCEPT !.phase = "answered", !.refused = refused]
    /\ stored' = stored \cup fresh
    /\ denied' = IF bound = {} THEN denied \cup refused
                 ELSE {e \in refused : \A b \in bound : b < e}
    /\ stale' = (stale \/ Invalidates(fresh))
    /\ UNCHANGED <<authVars, logVars, rowVars, pushed, unseen, losses>>

\* InvalidateVault, after the commit of a push that had something accepted
InvalidateVault ==
    /\ stale
    /\ stale' = FALSE /\ denied' = {}
    /\ UNCHANGED <<authVars, logVars, rowVars, push, pushed, stored, unseen, losses>>

\* boundingCacheTTL
CacheExpires ==
    \E e \in denied :
        /\ denied' = denied \ {e}
        /\ UNCHANGED <<authVars, logVars, rowVars, push, pushed, stored, stale, unseen, losses>>

----------------------------------------------------------------------------
Init ==
    /\ session = FALSE /\ account = FALSE /\ known = FALSE
    /\ signin = "none" /\ last = 0 /\ draft = "none"
    /\ kind = [e \in Event |-> "none"] /\ cutoff = 0
    /\ acked = {}
    /\ backoff = [e \in Event |-> 0] /\ wait = [e \in Event |-> 0]
    /\ push = Idle /\ pushed = FALSE
    /\ stored = {} /\ denied = {} /\ stale = FALSE
    /\ unseen = {}
    /\ signouts = 0 /\ losses = 0

Phone == Compose \/ Append \/ SignIn \/ SignOut \/ Relaunch
Housekeeping == KnowAccount \/ ReadCutoff \/ AppendAccountBound
Transfer == ReadOutbox \/ HandleResponse \/ LookAgain \/ MarkPushDone \/ ServerPush
            \/ InvalidateVault

Next == Phone \/ Housekeeping \/ Transfer \/ PushLost \/ Tick \/ CacheExpires

(* The scheduler keeps pushing, requests that are not lost are answered,    *)
(* and time passes.  Nothing makes a user write, sign in or sign out.       *)
Fairness ==
    /\ WF_vars(ReadOutbox) /\ WF_vars(HandleResponse) /\ WF_vars(LookAgain)
    /\ WF_vars(MarkPushDone) /\ WF_vars(ServerPush) /\ WF_vars(InvalidateVault)
    /\ WF_vars(Tick) /\ WF_vars(CacheExpires)

Spec == Init /\ [][Next]_vars /\ Fairness

----------------------------------------------------------------------------
TypeOK ==
    /\ {session, account, known, pushed, stale} \subseteq BOOLEAN
    /\ signin \in {"none", "session", "account", "cutoff"}
    /\ draft \in {"none", "anonymous", "lapsed", "named"}
    /\ kind \in [Event -> {"none", "anonymous", "lapsed", "named", "binding"}]
    /\ last \in Nat /\ cutoff \in Nat
    /\ {backoff, wait} \subseteq [Event -> 0..BackoffCap]
    /\ push \in [phase : {"idle", "sent", "answered", "look", "stamp"},
                 batch : SUBSET Written, refused : SUBSET Written]
    /\ acked \subseteq Written /\ stored \subseteq Written
    /\ denied \subseteq Nameless /\ unseen \subseteq Written

\* the account answers for e
Covered(e) ==
    e \in Written /\ (e \in Nameless => Bindings # {} /\ e <= cutoff)

(* Whenever last_push_at is stamped, the server has every row on disk but   *)
(* those written since the outbox was found empty, even if rows sit out a   *)
(* backoff and the batch came up empty (push.ts, cursor.ts).                *)
HonestStamp == [][MarkPushDone => Written \ stored \subseteq unseen']_vars

(* An event the stored account_bound has come to cover is not held back by  *)
(* an answer from before, beyond the moment between commit and              *)
(* invalidation: neither a new binding nor a late cutoff leaves one behind  *)
(* (service.go).                                                            *)
NoStaleDenial == stale \/ \A e \in denied : ~Attributed(e, stored)

(* Refused events are older than the account_bound that would admit them    *)
(* and sort before it in every batch; the backoff lets it through all the   *)
(* same (push.ts), and each of them after it, for as long as the session    *)
(* lasts.                                                                   *)
CoveredReachServer == []<>(~session \/ \A e \in Event : Covered(e) => e \in stored)

\* state constraint of a run: one session that ends, one loss, or one row that
\* slips in between a look at the outbox and its stamp
OneSetback ==
    LET slipped == IF push.phase = "stamp" THEN Written \ push.batch ELSE unseen
    IN  signouts + losses + Cardinality(slipped) <= 1

(* "Pre-sign-in this is null and a later account_bound event covers         *)
(* retroactive re-attribution" (event-log.ts).                              *)
PreSignInCovered ==
    Bindings # {} => \A e \in Written : kind[e] = "anonymous" => e <= cutoff

(* The same of what is written between a sign-out and the next sign-in.     *)
SignedOutCovered ==
    session /\ signin = "none" => \A e \in Written : kind[e] = "lapsed" => e <= cutoff
=============================================================================
