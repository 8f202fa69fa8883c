------------------------------ MODULE PullCache ------------------------------
(***************************************************************************)
(* GET /v1/sync/pull of one kaata: pages of the event log in server_seq    *)
(* order, cached by the position they start after, and purged by the pushes *)
(* that make them old (apps/backend/internal/sync/service.go).  A page is  *)
(* read by two queries, so commits and redactions may fall between them.   *)
(***************************************************************************)
EXTENDS Integers, FiniteSets

CONSTANTS
    Reader,      \* the clients that pull
    None,        \* no client
    Limit,       \* events per page
    MaxEvents    \* bound: events the server ever has

ASSUME CacheAssumption ==
    /\ None \notin Reader
    /\ Limit \in Nat \ {0} /\ MaxEvents \in Nat

VARIABLES
    head,        \* the events are 1..head
    redacted,    \* those with redacted_at
    direct,      \* those written by an ownership transfer, past PushEvents
    cache,       \* pullCache: after |-> page
    holder,      \* who holds pullMu for a page; the purge's own step is one
    owed,        \* committed pushes that have yet to purge
    unsaid,      \* commits that have yet to poke
    req          \* each client's request

serverVars == <<head, redacted, direct, cache, holder, owed, unsaid>>
cacheVars == <<serverVars, req>>

Position == 0..MaxEvents

Page == [rows : SUBSET (1..MaxEvents), next : Position, more : BOOLEAN]

NoPage == [rows |-> {}, next |-> 0, more |-> FALSE, absent |-> TRUE]

Request == [phase : {"idle", "waiting", "window", "rows", "reply"},
            after : Position, high : Position, page : Page \cup {NoPage}]

Quiet == [phase |-> "idle", after |-> 0, high |-> 0, page |-> NoPage]

Live == 1..head \ redacted

-----------------------------------------------------------------------------
(* A page *)

\* The first Limit of S behind a position: WHERE server_seq > a ORDER BY LIMIT.
FirstOf(S, a) == {e \in S : a < e /\ Cardinality({d \in S : a < d /\ d <= e}) <= Limit}

Last(S, a) == IF S = {} THEN a ELSE CHOOSE e \in S : \A d \in S : d <= e

\* The page's high-water mark: redacted rows count.
WindowHigh(a) == Last(FirstOf(1..head, a), a)

\* next_after_server_seq and has_more.
PageOf(a, rows, high) ==
    [rows |-> rows,
     next |-> IF rows # {} THEN Last(rows, a) ELSE high,
     more |-> Cardinality(rows) = Limit]

CacheInit ==
    /\ head = 0 /\ redacted = {} /\ direct = {}
    /\ cache = [a \in Position |-> NoPage]
    /\ holder = None
    /\ owed = 0 /\ unsaid = 0
    /\ req = [r \in Reader |-> Quiet]

-----------------------------------------------------------------------------
(* Requests *)

\* r's request moves on.
Stage(r, phase, a, high, page) ==
    [req EXCEPT ![r] = [phase |-> phase, after |-> a, high |-> high, page |-> page]]

Reply(r, a, page) == Stage(r, "reply", a, 0, page)

\* The request comes in; a first look, without the mutex.
Ask(r, a) ==
    /\ req[r].phase = "idle"
    /\ req' = IF cache[a] # NoPage THEN Reply(r, a, cache[a])
              ELSE Stage(r, "waiting", a, 0, NoPage)
    /\ UNCHANGED serverVars

\* The mutex, a second look under it, and the first query.
Enter(r) ==
    LET a == req[r].after IN
    /\ req[r].phase = "waiting" /\ holder = None
    /\ IF cache[a] # NoPage
       THEN req' = Reply(r, a, cache[a]) /\ UNCHANGED holder
       ELSE req' = Stage(r, "window", a, WindowHigh(a), NoPage) /\ holder' = r
    /\ UNCHANGED <<head, redacted, direct, cache, owed, unsaid>>

\* The second query: its rows, and the page they and the first one make.
PageQuery(r) ==
    LET a == req[r].after IN
    /\ req[r].phase = "window"
    /\ req' = Stage(r, "rows", a, 0, PageOf(a, FirstOf(Live, a), req[r].high))
    /\ UNCHANGED serverVars

\* mutant: the high-water mark is read after the rows
HeadAfterRows(r) ==
    LET a == req[r].after
        page == PageOf(a, req[r].page.rows, WindowHigh(a))
    IN
    /\ req[r].phase = "rows"
    /\ req' = Reply(r, a, page)
    /\ cache' = [cache EXCEPT ![a] = page]
    /\ holder' = None
    /\ UNCHANGED <<head, redacted, direct, owed, unsaid>>

\* The page goes into the cache, the mutex is released.
Fill(r) ==
    LET a == req[r].after IN
    /\ req[r].phase = "rows"
    /\ req' = Reply(r, a, req[r].page)
    /\ cache' = [cache EXCEPT ![a] = req[r].page]
    /\ holder' = None
    /\ UNCHANGED <<head, redacted, direct, owed, unsaid>>

\* The client has the answer, or has gone: its context ends the queries.
Leave(r) ==
    /\ req[r].phase # "idle"
    /\ req' = [req EXCEPT ![r] = Quiet]
    /\ holder' = IF holder = r THEN None ELSE holder
    /\ UNCHANGED <<head, redacted, direct, cache, owed, unsaid>>

NeverExpires(a) == FALSE /\ UNCHANGED cacheVars  \* mutant: a page stays until a push

\* pullCacheTTL, or the LRU's eviction.
Expire(a) ==
    /\ cache[a] # NoPage
    /\ cache' = [cache EXCEPT ![a] = NoPage]
    /\ UNCHANGED <<head, redacted, direct, holder, owed, unsaid, req>>

-----------------------------------------------------------------------------
(* Writes *)

\* A push of n new events commits.
Commit(n) ==
    /\ head + n <= MaxEvents
    /\ head' = head + n
    /\ owed' = owed + 1
    /\ UNCHANGED <<redacted, direct, cache, holder, unsaid, req>>

\* mutant: a purge that does not wait for a page being read
PurgeAnyway ==
    /\ owed > 0
    /\ cache' = [a \in Position |-> NoPage]
    /\ owed' = owed - 1 /\ unsaid' = unsaid + 1
    /\ UNCHANGED <<head, redacted, direct, holder, req>>

\* invalidatePullCacheForVault: under the mutex, after the commit.
Purge ==
    /\ owed > 0 /\ holder = None
    /\ cache' = [a \in Position |-> NoPage]
    /\ owed' = owed - 1 /\ unsaid' = unsaid + 1
    /\ UNCHANGED <<head, redacted, direct, holder, req>>

\* AcceptOwnershipInvite: its event, its commit, and the poke without a purge.
Transfer ==
    /\ head < MaxEvents
    /\ head' = head + 1 /\ direct' = direct \cup {head + 1}
    /\ unsaid' = unsaid + 1
    /\ UNCHANGED <<redacted, cache, holder, owed, req>>

\* redacted_at is set in the database, by nothing in the server.
Redact(e) ==
    /\ e \in Live
    /\ redacted' = redacted \cup {e}
    /\ UNCHANGED <<head, direct, cache, holder, owed, unsaid, req>>

\* The process restarts: the cache, the mutex and the handlers go, their clients
\* get an error.
Broken == [phase |-> "reply", after |-> 0, high |-> 0, page |-> NoPage]
Failed(r) == req[r].phase = "reply" /\ req[r].page = NoPage

Crash ==
    /\ cache' = [a \in Position |-> NoPage]
    /\ holder' = None
    /\ owed' = 0 /\ unsaid' = 0
    /\ req' = [r \in Reader |-> IF req[r].phase \in {"idle", "reply"} THEN req[r]
                                ELSE Broken]
    /\ UNCHANGED <<head, redacted, direct>>

\* NotifyLive returns; who hears it is module LiveSync's.
Poke ==
    /\ unsaid > 0
    /\ unsaid' = unsaid - 1
    /\ UNCHANGED <<head, redacted, direct, cache, holder, owed, req>>

CacheNext ==
    \/ \E r \in Reader : Enter(r) \/ PageQuery(r) \/ Fill(r) \/ Leave(r)
    \/ \E r \in Reader, a \in Position : Ask(r, a)
    \/ \E a \in Position : Expire(a)
    \/ \E n \in 1..MaxEvents : Commit(n)
    \/ \E e \in 1..MaxEvents : Redact(e)
    \/ Purge \/ Transfer \/ Poke \/ Crash

CacheSpec == CacheInit /\ [][CacheNext]_cacheVars

-----------------------------------------------------------------------------
(* Properties *)

CacheTypeOK ==
    /\ head \in Position
    /\ redacted \subseteq 1..head /\ direct \subseteq 1..head
    /\ cache \in [Position -> Page \cup {NoPage}]
    /\ holder \in Reader \cup {None}
    /\ owed \in Nat /\ unsaid \in Nat
    /\ req \in [Reader -> Request]

\* A page that starts after a steps over nothing that is not redacted.
Honest(a, p) ==
    p # NoPage => \A e \in a + 1 .. p.next : e \notin p.rows => e \in redacted

\* The events behind a that a page says are not there.
Hidden(a, p) == IF p = NoPage \/ p.more THEN {} ELSE {e \in Live : a < e /\ p.next < e}

\* A page moves a cursor over the rows it carries and over redacted ones, and
\* over nothing else: whatever commits and is redacted between its two queries,
\* however old it is, and with a hole as wide as a page.
SkipsOnlyRedacted ==
    /\ \A a \in Position : Honest(a, cache[a])
    /\ \A r \in Reader : Honest(req[r].after, req[r].page)

\* Once a push has purged, no page in the cache hides its events: not even one
\* whose queries ran before the commit and whose fill came after it.
PushesVisible ==
    owed = 0 => \A a \in Position : Hidden(a, cache[a]) \subseteq direct

=============================================================================
