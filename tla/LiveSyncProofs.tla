---------------------------- MODULE LiveSyncProofs ----------------------------
(***************************************************************************)
(* Proofs about modules PullCache and LiveSync, for every number of        *)
(* events, page size, buffer and fault budget.                             *)
(*                                                                         *)
(* A page is right when it is read (PageIsRight).  It stays right because  *)
(* redaction only shrinks what it may hide, because a commit owes a purge  *)
(* before it counts, and because the purge waits for the page being read:  *)
(* CacheInv carries the holder of the mutex for that.  LiveInv adds the    *)
(* push in flight and what every position of the reader covers, LogInv     *)
(* that none lies past the log's end, SchedInv the scheduler's loop, and   *)
(* PokeInv, beside them, what tells the reader of an event it misses.      *)
(***************************************************************************)
EXTENDS LiveSync, FiniteSetTheorems, WellFoundedInduction, TLAPS

-----------------------------------------------------------------------------
(* Pages *)

(* A set of numbers that is not empty has a smallest one.                  *)
LEMMA SmallestExists ==
    ASSUME NEW S \in SUBSET Nat, S # {}
    PROVE  \E m \in S : \A d \in S : m <= d
PROOF
  <1> DEFINE R == OpToRel(<, Nat)
  <1>1. IsWellFoundedOn(R, Nat)
    BY NatLessThanWellFounded
  <1>2. PICK m \in S : \A k \in S : ~(<<k, m>> \in R)
    <2> HIDE DEF R
    <2> QED  BY <1>1, WFMin
  <1>3. ASSUME NEW d \in S PROVE m <= d
    <2>1. m \in Nat /\ d \in Nat /\ ~(d < m)
      BY <1>2 DEF OpToRel
    <2> QED  BY <2>1
  <1> QED  BY <1>3

(* A set of numbers up to n that is not empty has a largest one.           *)
LEMMA LastIsLargest ==
    ASSUME NEW n \in Nat, NEW S \in SUBSET (1..n), S # {}, NEW a
    PROVE  Last(S, a) \in S /\ \A d \in S : d <= Last(S, a)
PROOF
  <1> DEFINE T == {n - e : e \in S}
  <1>1. T \in SUBSET Nat /\ T # {}
    <2>1. ASSUME NEW e \in S PROVE n - e \in Nat
      OBVIOUS
    <2> QED  BY <2>1
  <1>2. PICK m \in T : \A d \in T : m <= d
    <2> HIDE DEF T
    <2> QED  BY <1>1, SmallestExists
  <1>3. PICK e \in S : m = n - e
    BY <1>2
  <1>4. \A d \in S : d <= e
    <2> TAKE d \in S
    <2>1. n - e <= n - d
      BY <1>2, <1>3
    <2> QED  BY <2>1
  <1>5. \E x \in S : \A d \in S : d <= x
    BY <1>4
  <1>6. Last(S, a) = CHOOSE x \in S : \A d \in S : d <= x
    BY DEF Last
  <1> QED  BY <1>5, <1>6, Zenon

(* The first events behind a position: none is left out before the last of *)
(* them, and when any is left out after it, there are Limit of them.       *)
LEMMA FirstOfIsPrefix ==
    ASSUME NEW n \in Nat, NEW L \in SUBSET (1..n), NEW a \in Nat
    PROVE  /\ FirstOf(L, a) \in SUBSET L
           /\ \A e \in FirstOf(L, a) : a < e
           /\ \A e \in L, f \in FirstOf(L, a) : a < e /\ e <= f => e \in FirstOf(L, a)
           /\ \A e \in L : a < e /\ e \notin FirstOf(L, a) => Cardinality(FirstOf(L, a)) = Limit
PROOF
  <1> DEFINE F == FirstOf(L, a)
             Before(e) == {d \in L : a < d /\ d <= e}
  <1>0. Limit \in Nat /\ Limit > 0 /\ \A e \in L : e \in Nat
    BY CacheAssumption
  <1>1. \A S \in SUBSET L : IsFiniteSet(S) /\ Cardinality(S) \in Nat
    <2>1. IsFiniteSet(1..n)
      BY FS_Interval
    <2> QED  BY <2>1, FS_Subset, FS_CardinalityType
  <1>2. \A e : e \in F <=> e \in L /\ a < e /\ Cardinality(Before(e)) <= Limit
    BY DEF FirstOf
  <1>3. ASSUME NEW e \in L, NEW f \in F, a < e, e <= f
        PROVE  e \in F
    <2>1. Before(e) \in SUBSET Before(f) /\ Before(f) \in SUBSET L /\ Before(e) \in SUBSET L
      <3>1. f \in L
        BY <1>2
      <3>2. ASSUME NEW d \in L, d <= e PROVE d <= f
        BY <1>0, <1>3, <3>1, <3>2
      <3> QED  BY <3>2
    <2>2. Cardinality(Before(e)) <= Cardinality(Before(f))
      BY <1>1, <2>1, FS_Subset
    <2>3. Cardinality(Before(f)) <= Limit
      BY <1>2
    <2>4. Cardinality(Before(e)) \in Nat /\ Cardinality(Before(f)) \in Nat
      BY <1>1, <2>1
    <2> HIDE DEF Before, F
    <2>5. Cardinality(Before(e)) <= Limit
      BY <1>0, <2>2, <2>3, <2>4
    <2> QED  BY <1>2, <1>3, <2>5
  <1>4. ASSUME NEW e \in L, a < e, e \notin F
        PROVE  Cardinality(F) = Limit
    <2> DEFINE B == {d \in L : a < d /\ d \notin F}
    <2>1. PICK m \in B : \A d \in B : m <= d
      <3>1. B \in SUBSET Nat /\ B # {}
        <4>1. e \in B
          BY <1>4
        <4>2. \A d \in B : d \in Nat
          BY <1>0
        <4> HIDE DEF B
        <4> QED  BY <4>1, <4>2
      <3> HIDE DEF B
      <3> QED  BY <3>1, SmallestExists
    <2>2. Before(m) = F \cup {m}
      <3>1. ASSUME NEW d \in Before(m) PROVE d \in F \cup {m}
        BY <2>1
      <3>2. ASSUME NEW d \in F PROVE d \in Before(m)
        <4>1. d \in L /\ a < d /\ m \in L /\ a < m /\ m \notin F
          BY <1>2, <2>1
        <4>2. ~(m <= d)
          BY <1>3, <4>1
        <4> QED  BY <4>1, <4>2
      <3>3. m \in Before(m)
        BY <2>1
      <3> QED  BY <3>1, <3>2, <3>3
    <2>3. m \notin F /\ F \in SUBSET L /\ Before(m) \in SUBSET L
      BY <1>2, <2>1
    <2>4. Cardinality(Before(m)) = Cardinality(F) + 1 /\ Cardinality(F) \in Nat
      BY <1>1, <2>2, <2>3, FS_AddElement
    <2>5. ~(Cardinality(Before(m)) <= Limit)
      BY <1>2, <2>1
    <2>6. Cardinality(F) >= Limit
      <3> HIDE DEF F, Before, B
      <3> QED  BY <1>0, <2>4, <2>5
    <2>7. F # {}
      BY <1>0, <2>6, FS_EmptySet
    <2>8. PICK l \in F : \A d \in F : d <= l
      <3>1. F \in SUBSET (1..n)
        BY <2>3
      <3> QED  BY <2>7, <3>1, LastIsLargest
    <2>9. Before(l) = F
      <3>1. \A d \in F : d \in Before(l)
        BY <1>2, <2>8
      <3>2. \A d \in Before(l) : d \in F
        BY <1>3, <2>8
      <3> QED  BY <3>1, <3>2
    <2>10. Cardinality(F) <= Limit
      BY <1>2, <2>8, <2>9
    <2> HIDE DEF F, Before, B
    <2> QED  BY <1>0, <2>4, <2>6, <2>10
  <1>5. F \in SUBSET L /\ \A e \in F : a < e
    BY <1>2
  <1> HIDE DEF F, Before
  <1> QED  BY <1>3, <1>4, <1>5 DEF F

(* The first query's answer is a position that no unseen event precedes.   *)
LEMMA HighIsPosition ==
    ASSUME CacheTypeOK, NEW a \in Position
    PROVE  WindowHigh(a) \in Position /\ (WindowHigh(a) <= head \/ WindowHigh(a) = a)
PROOF
  <1>1. head \in Nat /\ head <= MaxEvents /\ a \in Nat /\ MaxEvents \in Nat
    BY CacheAssumption DEF CacheTypeOK, Position
  <1>2. FirstOf(1..head, a) \in SUBSET (1..head)
    BY <1>1, FirstOfIsPrefix
  <1>3. CASE FirstOf(1..head, a) = {}
    BY <1>3 DEF WindowHigh, Last
  <1>4. CASE FirstOf(1..head, a) # {}
    <2>1. WindowHigh(a) \in 1..head
      BY <1>1, <1>2, <1>4, LastIsLargest DEF WindowHigh
    <2> QED  BY <1>1, <2>1 DEF Position
  <1> QED  BY <1>3, <1>4

(* A page as its two queries make it steps over nothing but redacted events *)
(* and hides nothing, if the high-water mark was a position of the log.     *)
LEMMA PageIsRight ==
    ASSUME CacheTypeOK, NEW a \in Position, NEW high \in Position, high <= head \/ high = a
    PROVE  LET p == PageOf(a, FirstOf(Live, a), high) IN
           p \in Page /\ Honest(a, p) /\ Hidden(a, p) = {}
PROOF
  <1> DEFINE F == FirstOf(Live, a)
             p == PageOf(a, F, high)
  <1>1. head \in Nat /\ head <= MaxEvents /\ a \in Nat /\ MaxEvents \in Nat /\ high \in Nat
    BY CacheAssumption DEF CacheTypeOK, Position
  <1>2. Live \in SUBSET (1..head) /\ \A e \in 1..head : e \notin Live => e \in redacted
    BY DEF Live
  <1>3. /\ F \in SUBSET Live /\ \A e \in F : a < e
        /\ \A e \in Live, f \in F : a < e /\ e <= f => e \in F
        /\ \A e \in Live : a < e /\ e \notin F => Cardinality(F) = Limit
    <2> HIDE DEF F
    <2> QED  BY <1>1, <1>2, FirstOfIsPrefix DEF F
  <1>4. /\ F # {} => Last(F, a) \in F /\ \A d \in F : d <= Last(F, a)
        /\ F = {} => \A e \in Live : ~(a < e)
    <2>1. F # {} => Last(F, a) \in F /\ \A d \in F : d <= Last(F, a)
      BY <1>1, <1>2, <1>3, LastIsLargest
    <2>2. F = {} => \A e \in Live : ~(a < e)
      <3>1. Cardinality({}) # Limit
        BY FS_EmptySet, CacheAssumption
      <3> QED  BY <1>3, <3>1
    <2> QED  BY <2>1, <2>2
  <1>5. /\ p.rows = F /\ p.more = (Cardinality(F) = Limit)
        /\ p.next = IF F # {} THEN Last(F, a) ELSE high
        /\ p \in Page
    <2>1. p = [rows |-> F, next |-> IF F # {} THEN Last(F, a) ELSE high,
               more |-> Cardinality(F) = Limit]
      BY DEF PageOf
    <2>2. F \in SUBSET (1..MaxEvents)
      <3>1. \A e \in 1..head : e \in 1..MaxEvents
        BY <1>1
      <3> HIDE DEF F
      <3> QED  BY <1>2, <1>3, <3>1
    <2>3. (IF F # {} THEN Last(F, a) ELSE high) \in Position
      BY <1>4, <2>2 DEF Position
    <2> HIDE DEF F, p
    <2> QED  BY <2>1, <2>2, <2>3 DEF Page
  <1>6. Honest(a, p)
    <2> SUFFICES ASSUME NEW e \in a + 1 .. p.next, e \notin F PROVE e \in redacted
      BY <1>5 DEF Honest
    <2>1. CASE F # {}
      <3>1. e <= Last(F, a) /\ Last(F, a) \in 1..head /\ a < e
        <4>1. Last(F, a) \in 1..head /\ p.next = Last(F, a)
          BY <1>2, <1>3, <1>4, <1>5, <2>1
        <4> HIDE DEF F, p
        <4> QED  BY <1>1, <4>1
      <3>2. e \in 1..head /\ e \notin Live
        BY <1>1, <1>3, <1>4, <2>1, <3>1
      <3> QED  BY <1>2, <3>2
    <2>2. CASE F = {}
      <3>1. a < e /\ e <= high
        BY <1>1, <1>5, <2>2
      <3>2. e \in 1..head /\ e \notin Live
        BY <1>1, <1>4, <2>2, <3>1
      <3> QED  BY <1>2, <3>2
    <2> QED  BY <2>1, <2>2
  <1>7. Hidden(a, p) = {}
    <2> SUFFICES ASSUME ~p.more, NEW e \in Live, a < e, p.next < e PROVE FALSE
      BY DEF Hidden
    <2>1. e \in F
      BY <1>3, <1>5
    <2>2. e <= Last(F, a) /\ p.next = Last(F, a) /\ Last(F, a) \in 1..head /\ e \in 1..head
      BY <1>2, <1>3, <1>4, <1>5, <2>1
    <2> HIDE DEF F, p
    <2> QED  BY <1>1, <2>2
  <1> HIDE DEF p, F
  <1> QED  BY <1>5, <1>6, <1>7 DEF p, F

-----------------------------------------------------------------------------
(* The invariant of the cache *)

Reading(r) == req[r].phase \in {"window", "rows"}

\* The mutex is held by the request whose queries run, and by no other.
Holds == \A r \in Reader : Reading(r) <=> holder = r

\* The first query's answer stays a position of the log.
Windows == \A r \in Reader :
    req[r].phase = "window" => req[r].high <= head \/ req[r].high = req[r].after

\* Honest and Hidden as relations of their arguments alone, to speak of two states.
HonestIn(R, a, p) == p # NoPage => \A e \in a + 1 .. p.next : e \notin p.rows => e \in R
VisibleIn(L, D, a, p) ==
    p = NoPage \/ p.more \/ \A e \in L : a < e /\ p.next < e => e \in D

\* A page read, and about to go into the cache, hides no push that has purged.
Fresh == owed = 0 => \A r \in Reader :
    req[r].phase = "rows" => VisibleIn(Live, direct, req[r].after, req[r].page)

CacheInv == CacheTypeOK /\ Holds /\ Windows /\ SkipsOnlyRedacted /\ PushesVisible /\ Fresh

\* The reader's steps on the cache, with what they leave alone.
LEMMA Restated ==
    /\ SkipsOnlyRedacted <=> /\ \A a \in Position : HonestIn(redacted, a, cache[a])
                             /\ \A r \in Reader : HonestIn(redacted, req[r].after, req[r].page)
    /\ PushesVisible <=> (owed = 0 => \A a \in Position : VisibleIn(Live, direct, a, cache[a]))
PROOF
  <1>1. SkipsOnlyRedacted <=> /\ \A a \in Position : HonestIn(redacted, a, cache[a])
                              /\ \A r \in Reader : HonestIn(redacted, req[r].after, req[r].page)
    BY DEF SkipsOnlyRedacted, Honest, HonestIn
  <1>2. \A a, p : Hidden(a, p) \subseteq direct <=> VisibleIn(Live, direct, a, p)
    BY DEF Hidden, VisibleIn
  <1>3. PushesVisible <=> (owed = 0 => \A a \in Position : VisibleIn(Live, direct, a, cache[a]))
    BY <1>2 DEF PushesVisible
  <1> QED  BY <1>1, <1>3

(* The same of the next state.                                             *)
LEMMA RestatedNext ==
    /\ SkipsOnlyRedacted' <=> /\ \A a \in Position : HonestIn(redacted', a, cache'[a])
                              /\ \A r \in Reader : HonestIn(redacted', req'[r].after, req'[r].page)
    /\ PushesVisible' <=> (owed' = 0 => \A a \in Position : VisibleIn(Live', direct', a, cache'[a]))
    /\ Fresh' <=> (owed' = 0 => \A r \in Reader : req'[r].phase = "rows" =>
                                   VisibleIn(Live', direct', req'[r].after, req'[r].page))
PROOF
  <1>1. SkipsOnlyRedacted' <=> /\ \A a \in Position : HonestIn(redacted', a, cache'[a])
                               /\ \A r \in Reader : HonestIn(redacted', req'[r].after, req'[r].page)
    BY DEF SkipsOnlyRedacted, Honest, HonestIn
  <1>2. PushesVisible' <=> (owed' = 0 => \A a \in Position : VisibleIn(Live', direct', a, cache'[a]))
    <2> SUFFICES ASSUME NEW a \in Position
                 PROVE  Hidden(a, cache[a])' \subseteq direct' <=> VisibleIn(Live', direct', a, cache'[a])
      BY DEF PushesVisible
    <2> QED  BY DEF Hidden, VisibleIn
  <1>3. Fresh' <=> (owed' = 0 => \A r \in Reader : req'[r].phase = "rows" =>
                                   VisibleIn(Live', direct', req'[r].after, req'[r].page))
    BY DEF Fresh
  <1> QED  BY <1>1, <1>2, <1>3

(* One request moves on, to a stage that is a request.                     *)
LEMMA StageMoves ==
    ASSUME CacheTypeOK, NEW r \in Reader, NEW phase, NEW a, NEW high, NEW page,
           phase \in {"idle", "waiting", "window", "rows", "reply"},
           a \in Position, high \in Position, page \in Page \cup {NoPage},
           req' = Stage(r, phase, a, high, page)
    PROVE  /\ req' \in [Reader -> Request]
           /\ req'[r].phase = phase /\ req'[r].after = a
           /\ req'[r].high = high /\ req'[r].page = page
           /\ \A q \in Reader : q # r => req'[q] = req[q]
PROOF
  <1> DEFINE x == [phase |-> phase, after |-> a, high |-> high, page |-> page]
  <1>1. x \in Request /\ x.phase = phase /\ x.after = a /\ x.high = high /\ x.page = page
    BY DEF Request
  <1>2. req' = [req EXCEPT ![r] = x] /\ req \in [Reader -> Request]
    BY DEF Stage, CacheTypeOK
  <1> HIDE DEF x
  <1> QED  BY <1>1, <1>2

(* The parts of a request have their types.                                *)
LEMMA RequestParts ==
    ASSUME CacheTypeOK, NEW r \in Reader
    PROVE  /\ req[r].after \in Position /\ req[r].high \in Position
           /\ req[r].page \in Page \cup {NoPage}
           /\ req[r].phase \in {"idle", "waiting", "window", "rows", "reply"}
PROOF
  <1>1. req[r] \in Request
    BY DEF CacheTypeOK
  <1> QED  BY <1>1 DEF Request

(* An empty cache and no request.                                          *)
LEMMA CacheStarts == CacheInit => CacheInv
PROOF
  <1> SUFFICES ASSUME CacheInit PROVE CacheInv
    OBVIOUS
  <1> USE DEF CacheInit
  <1>0. MaxEvents \in Nat /\ 0 \in Position /\ \A r \in Reader : None # r
    BY CacheAssumption DEF Position
  <1>1. Quiet \in Request /\ Quiet.phase = "idle" /\ Quiet.page = NoPage
    BY <1>0 DEF Quiet, Request
  <1>2. CacheTypeOK
    BY <1>0, <1>1 DEF CacheTypeOK
  <1>3. Holds /\ Windows /\ Fresh
    BY <1>0, <1>1 DEF Holds, Windows, Fresh, Reading
  <1>4. SkipsOnlyRedacted
    BY <1>1 DEF SkipsOnlyRedacted, Honest
  <1>5. PushesVisible
    BY DEF PushesVisible, Hidden
  <1> QED  BY <1>2, <1>3, <1>4, <1>5 DEF CacheInv

(* A request that moves on keeps it, when its page is right for its stage,  *)
(* the mutex follows, and a page that goes into the cache is its own.       *)
LEMMA StageKeeps ==
    ASSUME CacheInv, NEW CONSTANT r \in Reader,
           NEW CONSTANT phase, NEW CONSTANT a, NEW CONSTANT high, NEW CONSTANT page,
           phase \in {"idle", "waiting", "window", "rows", "reply"},
           a \in Position, high \in Position, page \in Page \cup {NoPage},
           req' = Stage(r, phase, a, high, page),
           UNCHANGED <<head, redacted, direct, owed, unsaid>>,
           phase = "window" => high <= head \/ high = a,
           HonestIn(redacted, a, page),
           phase = "rows" /\ owed = 0 => VisibleIn(Live, direct, a, page),
           phase \in {"window", "rows"} => holder \in {None, r} /\ holder' = r,
           phase \notin {"window", "rows"} => holder' = IF holder = r THEN None ELSE holder,
           cache' \in [Position -> Page \cup {NoPage}],
           \A b \in Position : \/ cache'[b] = cache[b]
                              \/ /\ b = a /\ cache'[b] = page
                                 /\ owed = 0 => VisibleIn(Live, direct, a, page)
    PROVE  CacheInv'
PROOF
  <1> USE DEF CacheInv
  <1>0. \A q \in Reader : None # q
    BY CacheAssumption
  <1>1. /\ req' \in [Reader -> Request]
        /\ req'[r].phase = phase /\ req'[r].after = a
        /\ req'[r].high = high /\ req'[r].page = page
        /\ \A q \in Reader : q # r => req'[q] = req[q]
    BY StageMoves
  <1>2. Live' = Live
    BY DEF Live
  <1>3. /\ \A b \in Position : HonestIn(redacted, b, cache[b])
        /\ \A q \in Reader : HonestIn(redacted, req[q].after, req[q].page)
        /\ owed = 0 => \A b \in Position : VisibleIn(Live, direct, b, cache[b])
    BY Restated
  <1>5. CacheTypeOK'
    BY <1>1 DEF CacheTypeOK
  <1>6. Holds'
    <2> SUFFICES ASSUME NEW q \in Reader PROVE Reading(q)' <=> holder' = q
      BY DEF Holds
    <2>1. CASE q = r
      BY <1>0, <1>1, <2>1 DEF Reading
    <2>2. CASE q # r
      <3>1. Reading(q)' <=> Reading(q)
        BY <1>1, <2>2 DEF Reading
      <3>2. Reading(q) <=> holder = q
        BY DEF Holds
      <3> QED  BY <1>0, <2>2, <3>1, <3>2
    <2> QED  BY <2>1, <2>2
  <1>7. Windows'
    <2> SUFFICES ASSUME NEW q \in Reader, req'[q].phase = "window"
                 PROVE  req'[q].high <= head \/ req'[q].high = req'[q].after
      BY DEF Windows
    <2> QED  BY <1>1 DEF Windows
  <1>8. SkipsOnlyRedacted'
    <2>1. ASSUME NEW b \in Position PROVE HonestIn(redacted, b, cache'[b])
      BY <1>3
    <2>2. ASSUME NEW q \in Reader PROVE HonestIn(redacted, req'[q].after, req'[q].page)
      BY <1>1, <1>3
    <2> QED  BY <2>1, <2>2, RestatedNext
  <1>9. PushesVisible'
    <2>1. ASSUME owed = 0, NEW b \in Position PROVE VisibleIn(Live, direct, b, cache'[b])
      BY <1>3, <2>1
    <2> QED  BY <1>2, <2>1, RestatedNext
  <1>10. Fresh'
    <2>1. ASSUME owed = 0, NEW q \in Reader, req'[q].phase = "rows"
          PROVE  VisibleIn(Live, direct, req'[q].after, req'[q].page)
      BY <1>1, <2>1 DEF Fresh
    <2> QED  BY <1>2, <2>1, RestatedNext
  <1> QED  BY <1>5, <1>6, <1>7, <1>8, <1>9, <1>10

(* What a request does keeps it.                                           *)
LEMMA RequestsKeep ==
    ASSUME CacheInv, NEW r \in Reader,
           (\E a \in Position : Ask(r, a)) \/ Enter(r) \/ PageQuery(r) \/ Fill(r) \/ Leave(r)
    PROVE  CacheInv'
PROOF
  <1>0. /\ CacheTypeOK /\ Holds /\ Windows /\ SkipsOnlyRedacted /\ PushesVisible /\ Fresh
        /\ None # r /\ 0 \in Position /\ NoPage \in Page \cup {NoPage} /\ MaxEvents \in Nat
        /\ cache \in [Position -> Page \cup {NoPage}]
    BY CacheAssumption DEF Position, CacheInv, CacheTypeOK
  <1>1. /\ req[r].after \in Position /\ req[r].high \in Position
        /\ req[r].page \in Page \cup {NoPage}
        /\ \A a \in Position : cache[a] \in Page \cup {NoPage} /\ HonestIn(redacted, a, cache[a])
        /\ HonestIn(redacted, req[r].after, req[r].page)
        /\ \A a : HonestIn(redacted, a, NoPage)
    <2>1. \A a : HonestIn(redacted, a, NoPage)
      BY DEF HonestIn
    <2> QED  BY <1>0, <2>1, RequestParts, Restated DEF CacheTypeOK
  <1>2. Reading(r) <=> holder = r
    BY <1>0 DEF Holds
  <1>3. CASE \E a \in Position : Ask(r, a)
    <2> PICK a \in Position : Ask(r, a)
      BY <1>3
    <2>1. holder # r
      BY <1>2 DEF Ask, Reading
    <2>2. CASE cache[a] # NoPage
      BY <1>0, <1>1, <2>1, <2>2, StageKeeps DEF Ask, Reply, serverVars
    <2>3. CASE cache[a] = NoPage
      BY <1>0, <1>1, <2>1, <2>3, StageKeeps DEF Ask, serverVars
    <2> QED  BY <2>2, <2>3
  <1>4. CASE Enter(r)
    <2>1. holder = None /\ holder # r
      BY <1>0, <1>4 DEF Enter
    <2>2. CASE cache[req[r].after] # NoPage
      BY <1>0, <1>1, <1>4, <2>1, <2>2, StageKeeps DEF Enter, Reply
    <2>3. CASE cache[req[r].after] = NoPage
      <3>1. /\ WindowHigh(req[r].after) \in Position
            /\ WindowHigh(req[r].after) <= head \/ WindowHigh(req[r].after) = req[r].after
        BY <1>0, <1>1, HighIsPosition
      <3> QED  BY <1>0, <1>1, <1>4, <2>1, <2>3, <3>1, StageKeeps DEF Enter
    <2> QED  BY <2>2, <2>3
  <1>5. CASE PageQuery(r)
    <2> DEFINE page == PageOf(req[r].after, FirstOf(Live, req[r].after), req[r].high)
    <2>1. holder = r /\ (req[r].high <= head \/ req[r].high = req[r].after)
      BY <1>0, <1>2, <1>5 DEF PageQuery, Reading, Windows
    <2>2. /\ page \in Page /\ HonestIn(redacted, req[r].after, page)
          /\ VisibleIn(Live, direct, req[r].after, page)
      <3>1. page \in Page /\ Honest(req[r].after, page) /\ Hidden(req[r].after, page) = {}
        BY <1>0, <1>1, <2>1, PageIsRight
      <3> HIDE DEF page
      <3> QED  BY <3>1 DEF Honest, HonestIn, Hidden, VisibleIn
    <2>3. req' = Stage(r, "rows", req[r].after, 0, page) /\ UNCHANGED serverVars
      BY <1>5 DEF PageQuery
    <2> HIDE DEF page
    <2> QED  BY <1>0, <1>1, <2>1, <2>2, <2>3, StageKeeps DEF serverVars
  <1>6. CASE Fill(r)
    <2> DEFINE a == req[r].after
               page == req[r].page
    <2>1. holder = r /\ (owed = 0 => VisibleIn(Live, direct, a, page))
      BY <1>0, <1>2, <1>6 DEF Fill, Reading, Fresh
    <2>2. /\ req' = Stage(r, "reply", a, 0, page) /\ cache' = [cache EXCEPT ![a] = page]
          /\ holder' = None /\ UNCHANGED <<head, redacted, direct, owed, unsaid>>
      BY <1>6 DEF Fill, Reply
    <2>3. a \in Position /\ page \in Page \cup {NoPage} /\ HonestIn(redacted, a, page)
      BY <1>1
    <2> HIDE DEF a, page
    <2>4. /\ cache' \in [Position -> Page \cup {NoPage}]
          /\ \A b \in Position : cache'[b] = cache[b] \/ (b = a /\ cache'[b] = page)
      BY <1>0, <2>2, <2>3 DEF CacheTypeOK
    <2> QED  BY <1>0, <2>1, <2>2, <2>3, <2>4, StageKeeps
  <1>7. CASE Leave(r)
    <2>1. req' = Stage(r, "idle", 0, 0, NoPage)
      BY <1>7 DEF Leave, Stage, Quiet
    <2> QED  BY <1>0, <1>1, <1>7, <2>1, StageKeeps DEF Leave
  <1> QED  BY <1>3, <1>4, <1>5, <1>6, <1>7

(* A step that leaves the requests alone keeps it, if the log only grows,   *)
(* what it hides is accounted for, and pages are at most forgotten.         *)
LEMMA LogKeeps ==
    ASSUME CacheInv, CacheTypeOK', UNCHANGED <<req, holder>>,
           head <= head', redacted \subseteq redacted', direct \subseteq direct',
           \A a \in Position : cache'[a] = cache[a] \/ cache'[a] = NoPage,
           \/ owed' # 0
           \/ Live' \subseteq Live \cup direct' /\ owed = 0
           \/ /\ \A a \in Position : cache'[a] = NoPage
              /\ \A r \in Reader : req[r].phase # "rows"
    PROVE  CacheInv'
PROOF
  <1> USE DEF CacheInv
  <1>1. Holds'
    BY DEF Holds, Reading
  <1>2. Windows'
    <2> SUFFICES ASSUME NEW r \in Reader, req[r].phase = "window"
                 PROVE  req[r].high <= head' \/ req[r].high = req[r].after
      BY DEF Windows
    <2>1. req[r].high \in Int /\ head \in Int /\ head' \in Int
      BY RequestParts DEF CacheTypeOK, Position
    <2>2. req[r].high <= head \/ req[r].high = req[r].after
      BY DEF Windows
    <2> QED  BY <2>1, <2>2
  <1>3. SkipsOnlyRedacted'
    <2>1. \A a, p : HonestIn(redacted, a, p) => HonestIn(redacted', a, p)
      BY DEF HonestIn
    <2>2. \A a : HonestIn(redacted', a, NoPage)
      BY DEF HonestIn
    <2>3. \A a \in Position : HonestIn(redacted', a, cache'[a])
      BY <2>1, <2>2, Restated
    <2> QED  BY <2>1, <2>3, Restated, RestatedNext
  <1>4. PushesVisible' /\ Fresh'
    <2>1. CASE owed' # 0
      BY <2>1, RestatedNext
    <2>2. CASE Live' \subseteq Live \cup direct' /\ owed = 0
      <3>1. \A a, p : VisibleIn(Live, direct, a, p) => VisibleIn(Live', direct', a, p)
        BY <2>2 DEF VisibleIn
      <3>2. \A a : VisibleIn(Live', direct', a, NoPage)
        BY DEF VisibleIn
      <3>3. \A a \in Position : VisibleIn(Live', direct', a, cache'[a])
        BY <2>2, <3>1, <3>2, Restated
      <3>4. \A r \in Reader : req'[r].phase = "rows" =>
                VisibleIn(Live', direct', req'[r].after, req'[r].page)
        BY <2>2, <3>1 DEF Fresh
      <3> QED  BY <3>3, <3>4, RestatedNext
    <2>3. CASE /\ \A a \in Position : cache'[a] = NoPage
               /\ \A r \in Reader : req[r].phase # "rows"
      <3>1. \A a \in Position : VisibleIn(Live', direct', a, cache'[a])
        BY <2>3 DEF VisibleIn
      <3> QED  BY <2>3, <3>1, RestatedNext
    <2> QED  BY <2>1, <2>2, <2>3
  <1> QED  BY <1>1, <1>2, <1>3, <1>4

(* A step of the server's log, or of its process, keeps it.                *)
LEMMA ServerKeeps ==
    ASSUME CacheInv,
           \/ \E a \in Position : Expire(a)
           \/ \E n \in 1..MaxEvents : Commit(n)
           \/ \E e \in 1..MaxEvents : Redact(e)
           \/ Purge \/ Transfer \/ Poke
    PROVE  CacheInv'
PROOF
  <1>0. /\ CacheTypeOK /\ Holds /\ MaxEvents \in Nat /\ \A r \in Reader : None # r
        /\ head \in Nat /\ head <= MaxEvents /\ redacted \subseteq 1..head /\ direct \subseteq 1..head
        /\ cache \in [Position -> Page \cup {NoPage}] /\ NoPage \in Page \cup {NoPage}
        /\ owed \in Nat /\ unsaid \in Nat
    BY CacheAssumption DEF CacheInv, CacheTypeOK, Position
  <1>1. CASE \E a \in Position : Expire(a)
    <2> PICK a \in Position : Expire(a)
      BY <1>1
    <2>1. /\ cache' \in [Position -> Page \cup {NoPage}]
          /\ \A b \in Position : cache'[b] = cache[b] \/ cache'[b] = NoPage
          /\ UNCHANGED <<head, redacted, direct, holder, owed, unsaid, req>>
      BY <1>0 DEF Expire
    <2>2. CacheTypeOK'
      BY <1>0, <2>1 DEF CacheTypeOK
    <2>3. Live' \subseteq Live \cup direct'
      BY <2>1 DEF Live
    <2>4. head <= head'
      BY <1>0, <2>1
    <2> QED  BY <2>1, <2>2, <2>3, <2>4, LogKeeps
  <1>2. CASE \E n \in 1..MaxEvents : Commit(n)
    <2> PICK n \in 1..MaxEvents : Commit(n)
      BY <1>2
    <2>1. /\ head' \in Nat /\ head <= head' /\ head' <= MaxEvents /\ owed' \in Nat /\ owed' # 0
          /\ UNCHANGED <<redacted, direct, cache, holder, unsaid, req>>
      BY <1>0 DEF Commit
    <2>2. CacheTypeOK'
      <3>1. 1..head \subseteq 1..head'
        BY <1>0, <2>1
      <3> QED  BY <1>0, <2>1, <3>1 DEF CacheTypeOK, Position
    <2> QED  BY <2>1, <2>2, LogKeeps
  <1>3. CASE \E e \in 1..MaxEvents : Redact(e)
    <2> PICK e \in 1..MaxEvents : Redact(e)
      BY <1>3
    <2>1. /\ redacted' = redacted \cup {e} /\ e \in 1..head
          /\ UNCHANGED <<head, direct, cache, holder, owed, unsaid, req>>
      BY DEF Redact, Live
    <2>2. CacheTypeOK'
      BY <1>0, <2>1 DEF CacheTypeOK
    <2>3. Live' \subseteq Live \cup direct'
      BY <2>1 DEF Live
    <2>4. head <= head'
      BY <1>0, <2>1
    <2> QED  BY <1>0, <2>1, <2>2, <2>3, <2>4, LogKeeps
  <1>4. CASE Purge
    <2>1. /\ \A a \in Position : cache'[a] = NoPage
          /\ cache' \in [Position -> Page \cup {NoPage}]
          /\ owed' \in Nat /\ unsaid' \in Nat /\ holder = None
          /\ UNCHANGED <<head, redacted, direct, holder, req>>
      BY <1>0, <1>4 DEF Purge
    <2>2. CacheTypeOK'
      BY <1>0, <2>1 DEF CacheTypeOK
    <2>3. \A r \in Reader : req[r].phase # "rows"
      BY <1>0, <2>1 DEF Holds, Reading
    <2>4. head <= head'
      BY <1>0, <2>1
    <2> QED  BY <2>1, <2>2, <2>3, <2>4, LogKeeps
  <1>5. CASE Transfer
    <2>1. /\ head' = head + 1 /\ head' <= MaxEvents /\ direct' = direct \cup {head + 1}
          /\ unsaid' = unsaid + 1 /\ UNCHANGED <<redacted, cache, holder, owed, req>>
      BY <1>0, <1>5 DEF Transfer
    <2>2. CacheTypeOK'
      <3>1. 1..head \subseteq 1..head' /\ head + 1 \in 1..head' /\ head' \in Position /\ unsaid' \in Nat
        BY <1>0, <2>1 DEF Position
      <3> QED  BY <1>0, <2>1, <3>1 DEF CacheTypeOK
    <2>3. Live' \subseteq Live \cup direct'
      <3>1. \A e \in 1..head' : e \in 1..head \/ e = head + 1
        BY <1>0, <2>1
      <3> QED  BY <2>1, <3>1 DEF Live
    <2>4. head <= head'
      BY <1>0, <2>1
    <2> QED  BY <2>1, <2>2, <2>3, <2>4, LogKeeps
  <1>6. CASE Poke
    <2>1. unsaid' \in Nat /\ UNCHANGED <<head, redacted, direct, cache, holder, owed, req>>
      BY <1>0, <1>6 DEF Poke
    <2>2. CacheTypeOK'
      BY <1>0, <2>1 DEF CacheTypeOK
    <2>3. Live' \subseteq Live \cup direct' /\ head <= head'
      BY <1>0, <2>1 DEF Live
    <2> QED  BY <2>1, <2>2, <2>3, LogKeeps
  <1> QED  BY <1>1, <1>2, <1>3, <1>4, <1>5, <1>6

(* So does a restart, which takes the requests along.                      *)
LEMMA CrashKeeps == CacheInv /\ Crash => CacheInv'
PROOF
  <1> SUFFICES ASSUME CacheInv, Crash PROVE CacheInv'
    OBVIOUS
  <1>0. /\ CacheTypeOK /\ Holds /\ Windows /\ \A r \in Reader : None # r
        /\ 0 \in Position /\ MaxEvents \in Nat
    BY CacheAssumption DEF CacheInv, Position
  <1>1. Broken \in Request /\ Broken.phase = "reply" /\ Broken.page = NoPage
    BY <1>0 DEF Broken, Request
  <1>2. /\ req' \in [Reader -> Request]
        /\ \A r \in Reader : /\ ~(req'[r].phase \in {"window", "rows"})
                             /\ req'[r] = req[r] \/ req'[r].page = NoPage
    BY <1>0, <1>1 DEF Crash, CacheTypeOK
  <1>3. /\ cache' = [a \in Position |-> NoPage] /\ holder' = None /\ owed' = 0 /\ unsaid' = 0
        /\ UNCHANGED <<head, redacted, direct>>
    BY DEF Crash
  <1>4. CacheTypeOK'
    BY <1>0, <1>2, <1>3 DEF CacheTypeOK
  <1>5. Holds' /\ Windows'
    BY <1>0, <1>2, <1>3 DEF Holds, Windows, Reading
  <1>6. \A a : HonestIn(redacted', a, NoPage) /\ VisibleIn(Live', direct', a, NoPage)
    BY DEF HonestIn, VisibleIn
  <1>7. SkipsOnlyRedacted'
    <2>1. \A r \in Reader : HonestIn(redacted, req[r].after, req[r].page)
      BY Restated DEF CacheInv
    <2>2. \A r \in Reader : HonestIn(redacted', req'[r].after, req'[r].page)
      BY <1>2, <1>3, <1>6, <2>1
    <2> QED  BY <1>3, <1>6, <2>2, RestatedNext
  <1>8. PushesVisible' /\ Fresh'
    BY <1>2, <1>3, <1>6, RestatedNext
  <1> QED  BY <1>4, <1>5, <1>7, <1>8 DEF CacheInv

(* One step of anyone keeps the invariant of the cache.                    *)
LEMMA CacheStep == CacheInv /\ [CacheNext]_cacheVars => CacheInv'
PROOF
  <1> SUFFICES ASSUME CacheInv, [CacheNext]_cacheVars PROVE CacheInv'
    OBVIOUS
  <1>1. CASE UNCHANGED cacheVars
    <2>1. UNCHANGED <<head, redacted, direct, cache, holder, owed, unsaid, req>>
      BY <1>1 DEF cacheVars, serverVars
    <2>2. Live' = Live /\ CacheTypeOK' /\ Holds' /\ Windows'
      BY <2>1 DEF Live, CacheInv, CacheTypeOK, Holds, Windows, Reading
    <2>3. SkipsOnlyRedacted' /\ PushesVisible' /\ Fresh'
      BY <2>1, <2>2, Restated, RestatedNext DEF CacheInv, Fresh
    <2> QED  BY <2>2, <2>3 DEF CacheInv
  <1>2. CASE CacheNext
    BY <1>2, RequestsKeep, ServerKeeps, CrashKeeps DEF CacheNext
  <1> QED  BY <1>1, <1>2

(* The requests, the mutex and the cache keep their invariant, whoever       *)
(* pulls, as often and from wherever.                                      *)
THEOREM CacheCorrect == CacheSpec => []CacheInv
PROOF
  <1> QED  BY CacheStarts, CacheStep, PTL DEF CacheSpec

-----------------------------------------------------------------------------
(* The composition *)

FlightInv ==
    /\ written \in Nat /\ acked \in Nat /\ acked <= written
    /\ flight \in [phase : {"idle", "reading", "sent", "landed"}, upto : Nat, again : BOOLEAN]
    /\ flight.phase \in {"sent", "landed"} =>
         flight.upto <= written /\ (flight.upto < written => flight.again)
    /\ WriteIsOnItsWay

CoveredBy(H, R, n) == \A e \in 1..n : e \in H \cup R

DrainInv ==
    /\ cursor \in Position /\ CoveredBy(has, redacted, cursor)
    /\ \A r \in Reader : CoveredBy(has, redacted, req[r].after)
    /\ at \in [Reader -> Position]
    /\ \A r \in Reader : CoveredBy(has, redacted, at[r])

LiveInv == CacheInv /\ FlightInv /\ DrainInv

(* The composition starts with nothing written, stored or passed.          *)
LEMMA LiveStarts == Init => LiveInv
PROOF
  <1> SUFFICES ASSUME Init PROVE LiveInv
    OBVIOUS
  <1>1. CacheInv /\ 0 \in Position
    BY CacheStarts, CacheAssumption DEF Init, Position
  <1>2. FlightInv
    BY DEF Init, FlightInv, Idle, WriteIsOnItsWay
  <1>3. \A r \in Reader : req[r].after = 0
    BY DEF Init, CacheInit, Quiet
  <1>4. DrainInv
    <2>1. CoveredBy(has, redacted, 0)
      BY DEF CoveredBy
    <2> QED  BY <1>1, <1>3, <2>1 DEF Init, DrainInv
  <1> QED  BY <1>1, <1>2, <1>4 DEF LiveInv

(* A push in flight, from its parts.                                       *)
LEMMA FlightRecord ==
    \A p \in {"idle", "reading", "sent", "landed"}, n \in Nat, b \in BOOLEAN :
       [phase |-> p, upto |-> n, again |-> b]
         \in [phase : {"idle", "reading", "sent", "landed"}, upto : Nat, again : BOOLEAN]
PROOF
  <1> QED  OBVIOUS

(* The writer's half: an idle writer has nothing to push, or has failed.    *)
LEMMA FlightKeeps == LiveInv /\ [Next]_vars => FlightInv'
PROOF
  <1> SUFFICES ASSUME LiveInv, [Next]_vars PROVE FlightInv'
    OBVIOUS
  <1>0. FlightInv
    BY DEF LiveInv
  <1>1. CASE UNCHANGED writerVars
    BY <1>0, <1>1 DEF writerVars, FlightInv, WriteIsOnItsWay
  <1>2. CASE Write
    <2>1. /\ written' = written + 1 /\ UNCHANGED <<acked, failed>>
          /\ IF flight.phase = "idle"
             THEN flight' = [phase |-> "reading", upto |-> 0, again |-> FALSE]
             ELSE flight' = [phase |-> flight.phase, upto |-> flight.upto, again |-> TRUE]
      BY <1>0, <1>2 DEF Write, FlightInv, Idle
    <2>2. written' \in Nat /\ acked' \in Nat /\ acked' <= written' /\ flight'.phase # "idle"
      BY <1>0, <2>1 DEF FlightInv
    <2>3. flight' \in [phase : {"idle", "reading", "sent", "landed"}, upto : Nat, again : BOOLEAN]
      <3>1. CASE flight.phase = "idle"
        BY <2>1, <3>1, FlightRecord
      <3>2. CASE flight.phase # "idle"
        <4>1. flight.phase \in {"idle", "reading", "sent", "landed"} /\ flight.upto \in Nat
          BY <1>0 DEF FlightInv
        <4>2. flight' = [phase |-> flight.phase, upto |-> flight.upto, again |-> TRUE]
          BY <2>1, <3>2
        <4>3. [phase |-> flight.phase, upto |-> flight.upto, again |-> TRUE]
                \in [phase : {"idle", "reading", "sent", "landed"}, upto : Nat, again : BOOLEAN]
          BY <4>1, FlightRecord
        <4> QED  BY <4>2, <4>3, Zenon
      <3> QED  BY <3>1, <3>2
    <2>4. flight'.phase \in {"sent", "landed"} => flight'.upto <= written' /\ flight'.again
      BY <1>0, <2>1 DEF FlightInv
    <2> QED  BY <2>2, <2>3, <2>4 DEF FlightInv, WriteIsOnItsWay
  <1>3. CASE ReadOutbox
    <2>1. UNCHANGED <<written, acked, failed>>
      BY <1>3 DEF ReadOutbox
    <2>2. CASE acked = written
      <3>1. \/ flight' = [phase |-> "idle", upto |-> 0, again |-> FALSE]
            \/ flight' = [phase |-> "reading", upto |-> 0, again |-> FALSE]
        BY <1>3, <2>2 DEF ReadOutbox, Finished, Idle
      <3>2. /\ flight' \in [phase : {"idle", "reading", "sent", "landed"}, upto : Nat, again : BOOLEAN]
            /\ flight'.phase \notin {"sent", "landed"}
        <4>1. CASE flight' = [phase |-> "idle", upto |-> 0, again |-> FALSE]
          BY <4>1
        <4>2. CASE flight' = [phase |-> "reading", upto |-> 0, again |-> FALSE]
          BY <4>2
        <4> QED  BY <3>1, <4>1, <4>2
      <3>3. ~(acked < written)
        BY <1>0, <2>2 DEF FlightInv
      <3> QED  BY <1>0, <2>1, <3>2, <3>3 DEF FlightInv, WriteIsOnItsWay
    <2>3. CASE acked # written
      <3>1. flight' = [phase |-> "sent", upto |-> written, again |-> flight.again]
        BY <1>0, <1>3, <2>3 DEF ReadOutbox, FlightInv
      <3> QED  BY <1>0, <2>1, <3>1 DEF FlightInv, WriteIsOnItsWay
    <2> QED  BY <2>2, <2>3
  <1>4. CASE Land
    <2>1. flight' = [flight EXCEPT !.phase = "landed"] /\ flight.phase = "sent"
          /\ UNCHANGED <<written, acked, failed>>
      BY <1>4 DEF Land
    <2> QED  BY <1>0, <2>1 DEF FlightInv, WriteIsOnItsWay
  <1>5. CASE Answer
    BY <1>0, <1>5 DEF Answer, Finished, FlightInv, WriteIsOnItsWay, Idle
  <1>6. CASE PushFails
    BY <1>0, <1>6 DEF PushFails, Finished, FlightInv, WriteIsOnItsWay, Idle
  <1>7. CASE Retry
    BY <1>0, <1>7 DEF Retry, FlightInv, WriteIsOnItsWay, Idle
  <1>8. CASE Restart
    BY <1>0, <1>8 DEF Restart, Finished, FlightInv, WriteIsOnItsWay, Idle
  <1>9. CASE Phone
    BY <1>1, <1>9 DEF Phone, Deliver, Dial, SocketDies, Watchdog, FireTick, FirePoke,
          OtherKaata, AskPage, TakePage, PullFails, Background, Foreground, NetworkLost,
          NetworkBack
  <1>10. CASE Server
    BY <1>1, <1>8, <1>10 DEF Server, Untouched, PokeReader, PokeOther
  <1> QED
    BY <1>1, <1>2, <1>3, <1>4, <1>5, <1>6, <1>7, <1>9, <1>10 DEF Next, Writer, vars

(* What a step of the whole does to the cache is a step of the cache.       *)
LEMMA Composed == LiveInv /\ [Next]_vars => [CacheNext]_cacheVars
PROOF
  <1> SUFFICES ASSUME LiveInv, [Next]_vars PROVE [CacheNext]_cacheVars
    OBVIOUS
  <1>0. /\ FlightInv /\ CacheTypeOK /\ at \in [Reader -> Position]
        /\ \A j \in Job : Client(j) \in Reader
    BY LiveAssumption DEF LiveInv, CacheInv, DrainInv, Client, Job
  <1>1. CASE UNCHANGED cacheVars
    BY <1>1
  <1>2. CASE Land
    <2> DEFINE new == flight.upto - (head - Cardinality(direct))
    <2>1. Cardinality(direct) \in Nat
      <3>1. IsFiniteSet(1..head)
        BY <1>0, FS_Interval DEF CacheTypeOK, Position
      <3> QED  BY <1>0, <3>1, FS_Subset, FS_CardinalityType DEF CacheTypeOK
    <2>2. new \in Int /\ head \in Nat /\ MaxEvents \in Nat
      BY <1>0, <2>1, CacheAssumption DEF FlightInv, CacheTypeOK, Position
    <2>3. (new > 0 /\ Commit(new)) \/ UNCHANGED cacheVars
      <3>1. IF new > 0 THEN Commit(new) ELSE UNCHANGED cacheVars
        BY <1>2 DEF Land
      <3> QED  BY <3>1
    <2> HIDE DEF new
    <2>4. CASE new > 0 /\ Commit(new)
      <3>1. new \in 1..MaxEvents
        BY <2>2, <2>4 DEF Commit
      <3> QED  BY <2>4, <3>1 DEF CacheNext
    <2> QED  BY <2>3, <2>4
  <1>3. CASE Writer
    BY <1>1, <1>2, <1>3 DEF Writer, Write, ReadOutbox, Answer, PushFails, Retry
  <1>4. CASE Server
    BY <1>1, <1>4 DEF Server, PokeReader, PokeOther, Restart, CacheNext
  <1>5. ASSUME NEW j \in Job, OtherKaata(j) \/ AskPage(j) \/ TakePage(j) \/ PullFails(j)
        PROVE  [CacheNext]_cacheVars
    <2>1. Client(j) \in Reader /\ at[Client(j)] \in Position
      BY <1>0
    <2>2. Ask(Client(j), at[Client(j)]) \/ Leave(Client(j)) \/ UNCHANGED cacheVars
      BY <1>5 DEF OtherKaata, AskPage, TakePage, PullFails
    <2> QED  BY <2>1, <2>2 DEF CacheNext
  <1>6. CASE Phone
    BY <1>1, <1>5, <1>6 DEF Phone, Deliver, Dial, SocketDies, Watchdog, FireTick, FirePoke,
          Background, Foreground, NetworkLost, NetworkBack
  <1> QED  BY <1>1, <1>3, <1>4, <1>6 DEF Next, vars

(* The positions a step leaves: a request starts where a drain stands.      *)
LEMMA RequestsStartThere ==
    ASSUME LiveInv, [Next]_vars
    PROVE  /\ redacted \subseteq redacted'
           /\ \A r \in Reader : req'[r].after \in {0, req[r].after, at[r]}
PROOF
  <1>0. req \in [Reader -> Request]
    BY DEF LiveInv, CacheInv, CacheTypeOK
  <1>1. CASE UNCHANGED cacheVars
    BY <1>1 DEF cacheVars, serverVars
  <1>2. CASE UNCHANGED req /\ (UNCHANGED redacted \/ \E e : redacted' = redacted \cup {e})
    BY <1>2
  <1>3. ASSUME NEW r \in Reader,
               Enter(r) \/ PageQuery(r) \/ Fill(r) \/ Leave(r) \/ Ask(r, at[r])
        PROVE  /\ redacted \subseteq redacted'
               /\ \A s \in Reader : req'[s].after \in {0, req[s].after, at[s]}
    <2>1. UNCHANGED redacted
      BY <1>3 DEF Enter, PageQuery, Fill, Leave, Ask, serverVars
    <2>2. \/ \E phase, high, page, a :
               a \in {0, req[r].after, at[r]} /\ req' = Stage(r, phase, a, high, page)
          \/ req' = [req EXCEPT ![r] = Quiet]
      BY <1>3 DEF Enter, PageQuery, Fill, Leave, Ask, Reply
    <2> QED  BY <1>0, <2>1, <2>2 DEF Stage, Quiet
  <1>4. CASE Crash
    BY <1>0, <1>4 DEF Crash, Broken
  <1>5. CASE Writer
    BY <1>1, <1>2, <1>5 DEF Writer, Write, ReadOutbox, Land, Answer, PushFails, Retry, Commit
  <1>6. CASE Server
    BY <1>1, <1>2, <1>3, <1>4, <1>6 DEF Server, PokeReader, PokeOther, Restart, Purge, Expire,
          Transfer, Redact, Poke
  <1>7. ASSUME NEW j \in Job, OtherKaata(j) \/ AskPage(j) \/ TakePage(j) \/ PullFails(j)
        PROVE  /\ redacted \subseteq redacted'
               /\ \A s \in Reader : req'[s].after \in {0, req[s].after, at[s]}
    <2>1. Client(j) \in Reader
      BY LiveAssumption DEF Client, Job
    <2>2. Ask(Client(j), at[Client(j)]) \/ Leave(Client(j)) \/ UNCHANGED cacheVars
      BY <1>7 DEF OtherKaata, AskPage, TakePage, PullFails
    <2> QED  BY <1>1, <1>3, <2>1, <2>2
  <1>8. CASE Phone
    BY <1>1, <1>7, <1>8 DEF Phone, Deliver, Dial, SocketDies, Watchdog, FireTick, FirePoke,
          Background, Foreground, NetworkLost, NetworkBack
  <1> QED  BY <1>1, <1>5, <1>6, <1>8 DEF Next, vars

(* A step of the reader's drains leaves every position where the events     *)
(* before it are stored or redacted.                                       *)
Settled(C, D) ==
    /\ C \in Position /\ CoveredBy(has', redacted', C)
    /\ D \in [Reader -> Position]
    /\ \A r \in Reader : CoveredBy(has', redacted', D[r])

(* What is covered stays covered while more is stored or redacted.         *)
LEMMA CoverGrows ==
    ASSUME NEW H, NEW R, NEW H1, NEW R1, NEW n, H \subseteq H1, R \subseteq R1, CoveredBy(H, R, n)
    PROVE  CoveredBy(H1, R1, n)
PROOF
  <1> QED  BY DEF CoveredBy

(* The end of a job starts others from the stored cursor only.             *)
LEMMA EndSettles ==
    ASSUME NEW j, NEW good, End(j, good), Settled(cursor', at), LiveInv
    PROVE  Settled(cursor', at')
PROOF
  <1>1. at' \in [Reader -> Position] /\ \A r \in Reader : at'[r] = at[r] \/ at'[r] = cursor'
    BY DEF End, TickEnds, PokeEnds, SweepEnds, Settled
  <1> QED  BY <1>1 DEF Settled

(* Only a page moves a position: over its rows, now stored, and over the   *)
(* redacted ones (SkipsOnlyRedacted of the page it took).                  *)
LEMMA DrainsMove == LiveInv /\ [Next]_vars => has \subseteq has' /\ Settled(cursor', at')
PROOF
  <1> SUFFICES ASSUME LiveInv, [Next]_vars PROVE has \subseteq has' /\ Settled(cursor', at')
    OBVIOUS
  <1>0. DrainInv /\ redacted \subseteq redacted' /\ req \in [Reader -> Request]
    BY RequestsStartThere DEF LiveInv, CacheInv, CacheTypeOK
  <1>1. ASSUME has \subseteq has' PROVE Settled(cursor, at)
    BY <1>0, <1>1, CoverGrows DEF Settled, DrainInv
  <1>2. CASE UNCHANGED drainVars
    BY <1>1, <1>2 DEF drainVars
  <1>3. ASSUME NEW jobs, Begin(jobs), UNCHANGED <<cursor, has>>
        PROVE  Settled(cursor', at')
    <2>1. at' \in [Reader -> Position] /\ \A r \in Reader : at'[r] = at[r] \/ at'[r] = cursor
      BY <1>0, <1>3 DEF Begin, DrainInv
    <2> QED  BY <1>1, <1>3, <2>1 DEF Settled
  <1>4. CASE Dial \/ FireTick \/ FirePoke \/ Foreground \/ NetworkBack
    <2>1. UNCHANGED <<cursor, has>> /\ ((\E jobs : Begin(jobs)) \/ UNCHANGED at)
      BY <1>4 DEF Dial, FireTick, FirePoke, Foreground, NetworkBack
    <2> QED  BY <1>1, <1>3, <2>1
  <1>5. ASSUME NEW j \in Job, OtherKaata(j) \/ PullFails(j)
        PROVE  UNCHANGED <<cursor, has>> /\ Settled(cursor', at')
    <2>1. UNCHANGED <<cursor, has>> /\ \E good : End(j, good)
      BY <1>5 DEF OtherKaata, PullFails
    <2> QED  BY <1>1, <2>1, EndSettles
  <1>6. ASSUME NEW j \in Job, TakePage(j)
        PROVE  has \subseteq has' /\ Settled(cursor', at')
    <2> DEFINE r == Client(j)
               page == req[r].page
               next == IF page.next > at[r] THEN page.next ELSE at[r]
    <2>1. /\ r \in Reader /\ page \in Page /\ page.next \in Position /\ at[r] \in Position
          /\ has' = has \cup page.rows /\ cursor' = NewCursor(r, page)
      <3>1. r \in Reader
        BY LiveAssumption DEF Client, Job
      <3>2. page # NoPage /\ has' = has \cup page.rows /\ cursor' = NewCursor(r, page)
        BY <1>6 DEF TakePage
      <3>3. page \in Page
        BY <1>0, <3>1, <3>2, RequestParts DEF LiveInv, CacheInv
      <3> QED  BY <1>0, <3>1, <3>2, <3>3 DEF Page, DrainInv
    <2>2. has \subseteq has'
      BY <2>1
    <2>3. CoveredBy(has', redacted', page.next)
      <3>1. CoveredBy(has, redacted, req[r].after) /\ req[r].after \in Position
        BY <1>0, <2>1 DEF DrainInv, Request
      <3>2. HonestIn(redacted, req[r].after, page) /\ page # NoPage
        BY <1>6, <2>1, Restated DEF LiveInv, CacheInv, TakePage
      <3> HIDE DEF page, r
      <3>3. ASSUME NEW e \in 1..page.next PROVE e \in has' \cup redacted'
        <4>1. e \in 1..req[r].after \/ e \in req[r].after + 1 .. page.next
          BY <2>1, <3>1, CacheAssumption DEF Position
        <4> QED  BY <1>0, <2>1, <3>1, <3>2, <4>1 DEF CoveredBy, HonestIn
      <3> QED  BY <3>3 DEF CoveredBy
    <2>4. Settled(cursor, at)
      BY <1>1, <2>2
    <2>5. Settled(cursor', at) /\ next \in Position /\ CoveredBy(has', redacted', next)
      <3> HIDE DEF page, r
      <3> QED  BY <2>1, <2>3, <2>4 DEF NewCursor, Settled
    <2>6. at' = [at EXCEPT ![r] = next] \/ End(j, TRUE)
      BY <1>6 DEF TakePage
    <2>7. CASE at' = [at EXCEPT ![r] = next]
      <3> HIDE DEF next, page, r
      <3> QED  BY <2>1, <2>2, <2>5, <2>7 DEF Settled
    <2> QED  BY <2>2, <2>5, <2>6, <2>7, EndSettles
  <1>7. CASE Writer
    BY <1>2, <1>7 DEF Writer, Write, ReadOutbox, Land, Answer, PushFails, Retry
  <1>8. CASE Server
    BY <1>2, <1>8 DEF Server, Untouched, PokeReader, PokeOther, Restart
  <1>9. CASE Phone
    <2>1. CASE Deliver \/ SocketDies \/ Watchdog \/ Background \/ NetworkLost \/ \E j \in Job : AskPage(j)
      BY <1>2, <2>1 DEF Deliver, SocketDies, Watchdog, Background, NetworkLost, AskPage
    <2>2. CASE Dial \/ FireTick \/ FirePoke \/ Foreground \/ NetworkBack
      <3>1. UNCHANGED has
        BY <2>2 DEF Dial, FireTick, FirePoke, Foreground, NetworkBack
      <3> QED  BY <1>4, <2>2, <3>1
    <2> QED  BY <1>5, <1>6, <1>9, <2>1, <2>2 DEF Phone
  <1> QED  BY <1>2, <1>7, <1>8, <1>9 DEF Next, vars

(* So every position of the reader stays covered.                          *)
LEMMA DrainsKeep == LiveInv /\ [Next]_vars => DrainInv'
PROOF
  <1> SUFFICES ASSUME LiveInv, [Next]_vars PROVE DrainInv'
    OBVIOUS
  <1>1. /\ has \subseteq has' /\ redacted \subseteq redacted' /\ Settled(cursor', at')
        /\ \A r \in Reader : req'[r].after \in {0, req[r].after, at[r]}
    BY DrainsMove, RequestsStartThere
  <1>2. ASSUME NEW r \in Reader PROVE CoveredBy(has', redacted', req'[r].after)
    <2>1. CoveredBy(has, redacted, req'[r].after)
      <3>1. CoveredBy(has, redacted, 0)
        BY DEF CoveredBy
      <3> QED  BY <1>1, <3>1 DEF LiveInv, DrainInv
    <2> QED  BY <1>1, <2>1, CoverGrows
  <1> QED  BY <1>1, <1>2 DEF Settled, DrainInv

(* One step of anyone keeps the invariant of the whole.                    *)
LEMMA LiveStep == LiveInv /\ [Next]_vars => LiveInv'
PROOF
  <1>1. LiveInv /\ [Next]_vars => CacheInv'
    BY Composed, CacheStep DEF LiveInv
  <1> QED  BY <1>1, FlightKeeps, DrainsKeep DEF LiveInv

(* The inductive invariant of the composition: cache, writer and drains.    *)
THEOREM LiveCorrect == Spec => []LiveInv
PROOF
  <1> QED  BY LiveStarts, LiveStep, PTL DEF Spec

(* Whatever the writer, the socket, the scheduler and the restarts do to it, *)
(* the cache of the composition is a cache of module PullCache: what is    *)
(* proved of one holds of the other.                                       *)
THEOREM ComposesPullCache == Spec => CacheSpec
PROOF
  <1>1. Init => CacheInit
    BY DEF Init
  <1> QED  BY <1>1, LiveCorrect, Composed, PTL DEF Spec, CacheSpec

(* A page carries a cursor over redacted events only (PullEvents).          *)
THEOREM PagesAreHonest == Spec => []SkipsOnlyRedacted
PROOF
  <1>1. CacheInv => SkipsOnlyRedacted
    BY DEF CacheInv
  <1> QED  BY <1>1, CacheCorrect, ComposesPullCache, PTL

(* After the purge no page in the cache hides a pushed event (PushEvents,   *)
(* invalidatePullCacheForVault).                                           *)
THEOREM PushesReachPages == Spec => []PushesVisible
PROOF
  <1>1. CacheInv => PushesVisible
    BY DEF CacheInv
  <1> QED  BY <1>1, CacheCorrect, ComposesPullCache, PTL

(* The stored cursor passes redacted and stored events only, over any number *)
(* of overlapping drains, cached pages and restarts (pullEvents).          *)
THEOREM CursorIsCovered == Spec => []CursorCovers
PROOF
  <1>1. LiveInv => CursorCovers
    BY DEF LiveInv, DrainInv, CoveredBy, CursorCovers
  <1> QED  BY <1>1, LiveCorrect, PTL

(* No write is left behind a push that was already running (pushVaultNow).  *)
THEOREM WritesAreNotForgotten == Spec => []WriteIsOnItsWay
PROOF
  <1>1. LiveInv => WriteIsOnItsWay
    BY DEF LiveInv, FlightInv
  <1> QED  BY <1>1, LiveCorrect, PTL

-----------------------------------------------------------------------------
(* The scheduler and the socket *)

Frame == {"this", "other"}

\* A tick is set or runs, a poke never pulls the active kaata, the broker's
\* buffer is bounded.
SchedInv ==
    /\ active \in BOOLEAN /\ online \in BOOLEAN
    /\ lost \in BOOLEAN /\ again \in BOOLEAN
    /\ link \in {"down", "up", "mute"}
    /\ queue \in Seq(Frame) /\ Len(queue) <= Buffer
    /\ "tick" \in timers \cup running
    /\ running \subseteq Job /\ (active => "poke" \notin running)

(* The scheduler starts with its tick set and its sweep running.            *)
LEMMA SchedStarts == Init => SchedInv
PROOF
  <1> SUFFICES ASSUME Init PROVE SchedInv
    OBVIOUS
  <1>1. queue \in Seq(Frame) /\ Len(queue) <= Buffer
    BY LiveAssumption DEF Init
  <1>2. timers = {"tick"} /\ running = {"sweep"} /\ lost = FALSE /\ again = FALSE
        /\ active \in BOOLEAN /\ online = TRUE /\ link = "down"
    BY DEF Init
  <1> QED  BY <1>1, <1>2 DEF SchedInv, Job

(* What a job leaves when it ends: the loop goes on, and no poke starts.    *)
LEMMA EndKeepsLoop ==
    ASSUME SchedInv, NEW j \in Job, NEW good \in BOOLEAN, End(j, good)
    PROVE  /\ lost' \in BOOLEAN /\ again' \in BOOLEAN
           /\ "tick" \in timers' \cup running'
           /\ running' \subseteq Job /\ ("poke" \in running' => "poke" \in running)
PROOF
  <1>1. CASE j = "tick" /\ TickEnds(good)
    <2>1. "tick" \in timers'
      BY <1>1 DEF TickEnds, Rescheduled
    <2>2. running' \subseteq running \cup {"sweep"} /\ again' = again /\ lost' = lost
      BY <1>1 DEF TickEnds
    <2> QED  BY <2>1, <2>2 DEF SchedInv, Job
  <1>2. CASE j = "poke" /\ PokeEnds(good)
    <2>1. /\ timers' = timers /\ again' = FALSE /\ lost' \in BOOLEAN
          /\ running' = running \/ running' = running \ {"poke"}
      BY <1>2 DEF PokeEnds
    <2> QED  BY <2>1 DEF SchedInv
  <1>3. CASE j = "sweep" /\ SweepEnds
    <2>1. UNCHANGED <<timers, again, lost>> /\ running' = running \ {"sweep"}
      BY <1>3 DEF SweepEnds
    <2> QED  BY <2>1 DEF SchedInv
  <1> QED  BY <1>1, <1>2, <1>3 DEF End

(* The connection's end empties the broker's buffer or leaves it.           *)
LEMMA CutKeeps ==
    ASSUME SchedInv, NEW state \in {"down", "up", "mute"}, Cut(state)
    PROVE  /\ link' \in {"down", "up", "mute"} /\ lost' \in BOOLEAN
           /\ queue' \in Seq(Frame) /\ Len(queue') <= Buffer
PROOF
  <1>1. link' = state /\ lost' \in BOOLEAN
    BY DEF Cut
  <1>2. CASE queue' = queue
    BY <1>1, <1>2 DEF SchedInv
  <1>3. CASE queue' = <<>>
    <2>1. queue' \in Seq(Frame) /\ Len(queue') <= Buffer
      BY <1>3, LiveAssumption
    <2> QED  BY <1>1, <2>1
  <1> QED  BY <1>2, <1>3 DEF Cut

(* Every step keeps the loop, the buffer's bound and the active kaata's     *)
(* exemption from pokes.                                                    *)
LEMMA SchedKeeps == SchedInv /\ [Next]_vars => SchedInv'
PROOF
  <1> SUFFICES ASSUME SchedInv, [Next]_vars PROVE SchedInv'
    OBVIOUS
  <1> DEFINE Socket == /\ link' \in {"down", "up", "mute"} /\ lost' \in BOOLEAN
                       /\ queue' \in Seq(Frame) /\ Len(queue') <= Buffer
             Loop == /\ active' = active /\ online' \in BOOLEAN /\ again' \in BOOLEAN
                     /\ "tick" \in timers' \cup running'
                     /\ running' \subseteq Job /\ (active => "poke" \notin running')
  <1>1. Socket /\ Loop => SchedInv'
    BY DEF SchedInv
  <1>2. UNCHANGED socketVars => Socket
    BY DEF socketVars, SchedInv
  <1>3. UNCHANGED phoneVars => Loop
    BY DEF phoneVars, SchedInv
  <1>4. <<>> \in Seq(Frame) /\ Len(<<>>) = 0 /\ Buffer \in Nat
    BY LiveAssumption
  <1>5. ASSUME NEW f \in Frame, queue' = Append(queue, f), Len(queue) < Buffer
        PROVE  queue' \in Seq(Frame) /\ Len(queue') <= Buffer
    <2>1. queue' \in Seq(Frame) /\ Len(queue') = Len(queue) + 1 /\ Len(queue) \in Nat
      BY <1>5 DEF SchedInv
    <2> QED  BY <1>4, <1>5, <2>1
  <1>6. CASE Writer
    BY <1>1, <1>2, <1>3, <1>6 DEF Writer, Write, ReadOutbox, Land, Answer, PushFails, Retry
  <1>7. CASE Server
    <2>1. CASE UNCHANGED socketVars /\ UNCHANGED phoneVars
      BY <1>1, <1>2, <1>3, <2>1
    <2>2. CASE PokeReader
      <3>1. UNCHANGED phoneVars /\ link' = link
        BY <2>2 DEF PokeReader
      <3>2. \/ queue' = Append(queue, "this") /\ Len(queue) < Buffer /\ lost' = lost
            \/ queue' = queue /\ lost' \in BOOLEAN
        BY <2>2 DEF PokeReader
      <3>3. Socket
        BY <1>5, <3>1, <3>2 DEF SchedInv, Frame
      <3> QED  BY <1>1, <1>3, <3>1, <3>3
    <2>3. CASE PokeOther
      <3>1. UNCHANGED phoneVars /\ UNCHANGED <<link, lost>>
            /\ queue' = Append(queue, "other") /\ Len(queue) < Buffer
        BY <2>3 DEF PokeOther
      <3>2. Socket
        BY <1>5, <3>1 DEF SchedInv, Frame
      <3> QED  BY <1>1, <1>3, <3>1, <3>2
    <2>4. CASE Restart
      <3>1. UNCHANGED phoneVars /\ link' = "down" /\ queue' = <<>> /\ lost' \in BOOLEAN
        BY <2>4 DEF Restart
      <3>2. Socket
        BY <1>4, <3>1
      <3> QED  BY <1>1, <1>3, <3>1, <3>2
    <2> QED  BY <1>7, <2>1, <2>2, <2>3, <2>4 DEF Server, Untouched
  <1>8. CASE Deliver
    <2>1. UNCHANGED <<active, online, running, again, link, lost>> /\ timers \subseteq timers'
          /\ queue' = Tail(queue) /\ queue # <<>>
      BY <1>8 DEF Deliver
    <2>2. queue' \in Seq(Frame) /\ Len(queue') = Len(queue) - 1 /\ Len(queue) \in Nat
      BY <2>1 DEF SchedInv
    <2>3. Len(queue') <= Buffer
      BY <1>4, <2>2 DEF SchedInv
    <2> QED  BY <2>1, <2>2, <2>3 DEF SchedInv
  <1>9. CASE Dial \/ Foreground \/ NetworkBack
    <2>1. /\ timers \subseteq timers' /\ running' = running \cup {"sweep"}
          /\ UNCHANGED <<active, again, queue, lost>> /\ link' \in {link, "up"}
          /\ online' \in {online, TRUE}
      BY <1>9 DEF Dial, Foreground, NetworkBack, TickRequested, Begin, socketVars
    <2> QED  BY <2>1 DEF SchedInv, Job
  <1>10. CASE SocketDies \/ Watchdog \/ Background \/ NetworkLost
    <2>1. \E state \in {"down", "up", "mute"} : Cut(state)
      BY <1>10 DEF SocketDies, Watchdog, Background, NetworkLost, SchedInv
    <2>2. UNCHANGED <<active, timers, running, again>> /\ online' \in {online, FALSE}
      BY <1>10 DEF SocketDies, Watchdog, Background, NetworkLost, phoneVars
    <2>3. Socket
      BY <2>1, CutKeeps
    <2> QED  BY <1>1, <2>2, <2>3 DEF SchedInv
  <1>11. CASE FireTick
    <2>1. "tick" \in running' /\ running' = running \cup {"tick"}
          /\ UNCHANGED <<active, online, again>> /\ UNCHANGED socketVars
      BY <1>11 DEF FireTick, Begin
    <2>2. Loop
      BY <2>1 DEF SchedInv, Job
    <2> QED  BY <1>1, <1>2, <2>1, <2>2
  <1>12. CASE FirePoke
    <2>1. UNCHANGED <<active, online>> /\ UNCHANGED socketVars
      BY <1>12 DEF FirePoke
    <2>2. CASE active
      <3>1. "tick" \in timers' /\ UNCHANGED <<running, again>>
        BY <1>12, <2>2 DEF FirePoke
      <3> QED  BY <1>1, <1>2, <2>1, <3>1 DEF SchedInv
    <2>3. CASE ~active
      <3>1. /\ timers' = timers \ {"poke"} /\ running' = running \cup {"poke"}
            /\ again' = ("poke" \in running)
        BY <1>12, <2>3 DEF FirePoke, Begin, Noted
      <3>2. Loop
        BY <2>1, <2>3, <3>1 DEF SchedInv, Job
      <3> QED  BY <1>1, <1>2, <2>1, <3>2
    <2> QED  BY <2>2, <2>3
  <1>13. ASSUME NEW j \in Job, OtherKaata(j) \/ AskPage(j) \/ TakePage(j) \/ PullFails(j)
         PROVE  SchedInv'
    <2>1. CASE UNCHANGED socketVars /\ UNCHANGED phoneVars
      BY <1>1, <1>2, <1>3, <2>1
    <2>2. CASE UNCHANGED <<link, queue, lost, active, online, timers, running, again>>
      BY <2>2 DEF SchedInv
    <2>3. ASSUME NEW good \in BOOLEAN, End(j, good), UNCHANGED <<link, queue, active, online>>
          PROVE  SchedInv'
      BY <2>3, EndKeepsLoop DEF SchedInv
    <2>4. AskPage(j) => UNCHANGED socketVars /\ UNCHANGED phoneVars
      BY DEF AskPage
    <2>5. PullFails(j) => End(j, FALSE) /\ UNCHANGED <<link, queue, active, online>>
      BY DEF PullFails
    <2>6. TakePage(j) => \/ UNCHANGED <<link, queue, lost, active, online, timers, running, again>>
                         \/ End(j, TRUE) /\ UNCHANGED <<link, queue, active, online>>
      BY DEF TakePage
    <2>7. OtherKaata(j) => /\ UNCHANGED <<link, queue, active, online>>
                           /\ End(j, TRUE) \/ End(j, FALSE)
      <3>1. OtherKaata(j) => UNCHANGED <<link, queue, active, online>> /\ End(j, online)
        BY DEF OtherKaata
      <3>2. online = TRUE \/ online = FALSE
        BY DEF SchedInv
      <3> QED  BY <3>1, <3>2
    <2> QED  BY <1>13, <2>1, <2>2, <2>3, <2>4, <2>5, <2>6, <2>7
  <1>14. CASE UNCHANGED vars
    BY <1>1, <1>2, <1>3, <1>14 DEF vars
  <1> HIDE DEF Socket, Loop
  <1> QED
    BY <1>6, <1>7, <1>8, <1>9, <1>10, <1>11, <1>12, <1>13, <1>14 DEF Next, Phone

-----------------------------------------------------------------------------
(* The log's end *)

\* A page of a log that ends at n.
Within(n, p) == p.rows \subseteq 1..n /\ p.next <= n

\* Nothing is served, stored or passed that the server does not have.
LogInv ==
    /\ written <= MaxEvents /\ flight.upto <= written
    /\ \A a \in Position : Within(head, cache[a])
    /\ \A r \in Reader : Within(head, req[r].page) /\ req[r].after <= head /\ at[r] <= head
    /\ cursor <= head /\ has \subseteq 1..head

(* The log only grows.                                                     *)
LEMMA HeadGrows ==
    ASSUME LiveInv, [Next]_vars
    PROVE  head \in Nat /\ head' \in Nat /\ head <= head'
PROOF
  <1>1. head \in Nat /\ MaxEvents \in Nat
    BY CacheAssumption DEF LiveInv, CacheInv, CacheTypeOK, Position
  <1>2. [CacheNext]_cacheVars
    BY Composed
  <1>3. head' = head \/ head' = head + 1 \/ \E n \in 1..MaxEvents : head' = head + n
    BY <1>2 DEF CacheNext, cacheVars, serverVars, Ask, Enter, PageQuery, Fill, Leave, Expire,
          Commit, Redact, Purge, Transfer, Poke, Crash
  <1> QED  BY <1>1, <1>3

(* A page of the log stays one as the log grows.                           *)
LEMMA WithinGrows ==
    ASSUME NEW n \in Nat, NEW m \in Nat, n <= m, NEW p, p \in Page \cup {NoPage}, Within(n, p)
    PROVE  Within(m, p)
PROOF
  <1>1. p.next \in Nat
    BY CacheAssumption DEF Page, NoPage, Position
  <1>2. \A e \in 1..n : e \in 1..m
    OBVIOUS
  <1> QED  BY <1>1, <1>2 DEF Within

(* A page as its two queries make it ends at the end of the log at most.    *)
LEMMA PageEndsInLog ==
    ASSUME CacheTypeOK, NEW a \in Position, NEW high \in Position, high <= head
    PROVE  Within(head, PageOf(a, FirstOf(Live, a), high))
PROOF
  <1> DEFINE F == FirstOf(Live, a)
             p == PageOf(a, F, high)
  <1>1. head \in Nat /\ a \in Nat /\ Live \in SUBSET (1..head)
    BY CacheAssumption DEF CacheTypeOK, Position, Live
  <1>2. F \in SUBSET (1..head)
    BY <1>1, FirstOfIsPrefix
  <1>3. F # {} => Last(F, a) \in F
    BY <1>1, <1>2, LastIsLargest
  <1>4. p.rows = F /\ p.next = IF F # {} THEN Last(F, a) ELSE high
    BY DEF PageOf
  <1> HIDE DEF F, p
  <1>5. p.next <= head
    <2>1. CASE F # {}
      <3>1. p.next \in 1..head
        BY <1>2, <1>3, <1>4, <2>1
      <3> QED  BY <1>1, <3>1
    <2>2. CASE F = {}
      BY <1>4, <2>2
    <2> QED  BY <2>1, <2>2
  <1> QED  BY <1>2, <1>4, <1>5 DEF Within, F, p

(* The first query's answer lies in the log of the request that asks it.    *)
LEMMA HighInLog ==
    ASSUME CacheInv, LogInv, NEW r \in Reader, req[r].phase = "window"
    PROVE  req[r].high <= head
PROOF
  <1>1. req[r].high <= head \/ req[r].high = req[r].after
    BY DEF CacheInv, Windows
  <1> QED  BY <1>1 DEF LogInv

(* Pages come from the log, from the cache, or are none.                    *)
LEMMA PagesStayInLog ==
    ASSUME LiveInv, LogInv, [Next]_vars
    PROVE  /\ \A a \in Position : Within(head', cache'[a])
           /\ \A r \in Reader : Within(head', req'[r].page)
PROOF
  <1>0. /\ CacheInv /\ CacheTypeOK /\ req \in [Reader -> Request]
        /\ cache \in [Position -> Page \cup {NoPage}]
        /\ head \in Nat /\ head' \in Nat /\ head <= head'
    BY HeadGrows DEF LiveInv, CacheInv, CacheTypeOK
  <1>1. /\ \A a \in Position : Within(head', cache[a])
        /\ \A r \in Reader : Within(head', req[r].page)
    <2>1. \A r \in Reader : req[r].page \in Page \cup {NoPage}
      BY <1>0, RequestParts
    <2> QED  BY <1>0, <2>1, WithinGrows DEF LogInv
  <1>2. Within(head', NoPage)
    BY <1>0 DEF Within, NoPage
  <1>3. [CacheNext]_cacheVars
    BY Composed
  <1>4. CASE UNCHANGED <<req, cache>>
    BY <1>1, <1>4
  <1>5. CASE UNCHANGED req /\ \A a \in Position : cache'[a] \in {cache[a], NoPage}
    BY <1>1, <1>2, <1>5
  <1>6. ASSUME NEW r \in Reader, NEW phase, NEW a, NEW high, NEW page,
               req' = Stage(r, phase, a, high, page), Within(head', page),
               \A b \in Position : cache'[b] = cache[b] \/ cache'[b] = page
        PROVE  /\ \A b \in Position : Within(head', cache'[b])
               /\ \A q \in Reader : Within(head', req'[q].page)
    <2>1. \A q \in Reader : req'[q].page \in {page, req[q].page}
      BY <1>0, <1>6 DEF Stage
    <2> QED  BY <1>1, <1>6, <2>1
  <1>7. ASSUME NEW r \in Reader, NEW b \in Position, Ask(r, b)
        PROVE  /\ \A a \in Position : Within(head', cache'[a])
               /\ \A q \in Reader : Within(head', req'[q].page)
    <2>1. UNCHANGED cache
      BY <1>7 DEF Ask, serverVars
    <2>2. req' = Stage(r, "reply", b, 0, cache[b]) \/ req' = Stage(r, "waiting", b, 0, NoPage)
      BY <1>7 DEF Ask, Reply
    <2> QED  BY <1>1, <1>2, <1>6, <2>1, <2>2
  <1>8. ASSUME NEW r \in Reader, Enter(r)
        PROVE  /\ \A a \in Position : Within(head', cache'[a])
               /\ \A q \in Reader : Within(head', req'[q].page)
    <2>1. UNCHANGED cache /\ req[r].after \in Position
      BY <1>0, <1>8, RequestParts DEF Enter
    <2>2. \/ req' = Stage(r, "reply", req[r].after, 0, cache[req[r].after])
          \/ req' = Stage(r, "window", req[r].after, WindowHigh(req[r].after), NoPage)
      BY <1>8 DEF Enter, Reply
    <2> QED  BY <1>1, <1>2, <1>6, <2>1, <2>2
  <1>9. ASSUME NEW r \in Reader, PageQuery(r)
        PROVE  /\ \A a \in Position : Within(head', cache'[a])
               /\ \A q \in Reader : Within(head', req'[q].page)
    <2> DEFINE page == PageOf(req[r].after, FirstOf(Live, req[r].after), req[r].high)
    <2>1. UNCHANGED <<cache, head>> /\ req' = Stage(r, "rows", req[r].after, 0, page)
          /\ req[r].phase = "window"
      BY <1>9 DEF PageQuery, serverVars
    <2>2. req[r].after \in Position /\ req[r].high \in Position /\ req[r].high <= head
      BY <1>0, <2>1, RequestParts, HighInLog
    <2>3. Within(head', page)
      BY <1>0, <2>1, <2>2, PageEndsInLog
    <2> HIDE DEF page
    <2> QED  BY <1>6, <2>1, <2>3
  <1>10. ASSUME NEW r \in Reader, Fill(r)
         PROVE  /\ \A a \in Position : Within(head', cache'[a])
                /\ \A q \in Reader : Within(head', req'[q].page)
    <2>1. /\ req' = Stage(r, "reply", req[r].after, 0, req[r].page)
          /\ \A b \in Position : cache'[b] = cache[b] \/ cache'[b] = req[r].page
      BY <1>0, <1>10 DEF Fill, Reply
    <2> QED  BY <1>1, <1>6, <2>1
  <1>11. ASSUME NEW r \in Reader, Leave(r)
         PROVE  /\ \A a \in Position : Within(head', cache'[a])
                /\ \A q \in Reader : Within(head', req'[q].page)
    <2>1. req' = Stage(r, "idle", 0, 0, NoPage) /\ UNCHANGED cache
      BY <1>11 DEF Leave, Stage, Quiet
    <2> QED  BY <1>2, <1>6, <2>1
  <1>12. CASE Crash
    <2>1. \A q \in Reader : req'[q].page \in {NoPage, req[q].page}
      BY <1>12 DEF Crash, Broken
    <2> QED  BY <1>1, <1>2, <1>12, <2>1 DEF Crash
  <1>13. CASE \/ \E a \in Position : Expire(a)
              \/ \E n \in 1..MaxEvents : Commit(n)
              \/ \E e \in 1..MaxEvents : Redact(e)
              \/ Purge \/ Transfer \/ Poke
    BY <1>0, <1>5, <1>13 DEF Expire, Commit, Redact, Purge, Transfer, Poke
  <1>14. CASE UNCHANGED cacheVars
    BY <1>4, <1>14 DEF cacheVars, serverVars
  <1> QED
    BY <1>3, <1>7, <1>8, <1>9, <1>10, <1>11, <1>12, <1>13, <1>14 DEF CacheNext

(* The end of a job starts others from the stored cursor only.             *)
LEMMA EndStaysInLog ==
    ASSUME NEW j, NEW good, End(j, good), at \in [Reader -> Position],
           cursor' <= head', \A r \in Reader : at[r] <= head'
    PROVE  \A r \in Reader : at'[r] <= head'
PROOF
  <1>1. \A r \in Reader : at'[r] = at[r] \/ at'[r] = cursor'
    BY DEF End, TickEnds, PokeEnds, SweepEnds
  <1> QED  BY <1>1

(* The reader's positions follow the pages, and its rows come from them.    *)
LEMMA DrainsStayInLog ==
    ASSUME LiveInv, LogInv, [Next]_vars
    PROVE  cursor' <= head' /\ has' \subseteq 1..head' /\ \A r \in Reader : at'[r] <= head'
PROOF
  <1>0. /\ DrainInv /\ CacheTypeOK /\ req \in [Reader -> Request]
        /\ at \in [Reader -> Position] /\ cursor \in Nat /\ \A r \in Reader : at[r] \in Nat
        /\ head \in Nat /\ head' \in Nat /\ head <= head'
    BY HeadGrows, CacheAssumption DEF LiveInv, CacheInv, CacheTypeOK, DrainInv, Position
  <1>1. cursor <= head' /\ has \subseteq 1..head' /\ \A r \in Reader : at[r] <= head'
    <2>1. \A e \in 1..head : e \in 1..head'
      BY <1>0
    <2> QED  BY <1>0, <2>1 DEF LogInv
  <1>2. CASE UNCHANGED drainVars
    BY <1>1, <1>2 DEF drainVars
  <1>3. CASE Dial \/ FireTick \/ FirePoke \/ Foreground \/ NetworkBack
    <2>1. UNCHANGED <<cursor, has>> /\ ((\E jobs : Begin(jobs)) \/ UNCHANGED at)
      BY <1>3 DEF Dial, FireTick, FirePoke, Foreground, NetworkBack
    <2>2. \A r \in Reader : at'[r] = at[r] \/ at'[r] = cursor
      BY <2>1 DEF Begin
    <2> QED  BY <1>1, <2>1, <2>2
  <1>4. ASSUME NEW j \in Job, OtherKaata(j) \/ PullFails(j)
        PROVE  cursor' <= head' /\ has' \subseteq 1..head' /\ \A r \in Reader : at'[r] <= head'
    <2>1. UNCHANGED <<cursor, has>> /\ \E good : End(j, good)
      BY <1>4 DEF OtherKaata, PullFails
    <2> QED  BY <1>0, <1>1, <2>1, EndStaysInLog
  <1>5. ASSUME NEW j \in Job, TakePage(j)
        PROVE  cursor' <= head' /\ has' \subseteq 1..head' /\ \A r \in Reader : at'[r] <= head'
    <2> DEFINE r == Client(j)
               page == req[r].page
               next == IF page.next > at[r] THEN page.next ELSE at[r]
    <2>1. /\ r \in Reader /\ has' = has \cup page.rows /\ cursor' = NewCursor(r, page)
      BY <1>5, LiveAssumption DEF TakePage, Client, Job
    <2>2. Within(head', page)
      BY <1>0, <2>1, RequestParts, WithinGrows DEF LogInv
    <2>3. at' = [at EXCEPT ![r] = next] \/ End(j, TRUE)
      BY <1>5 DEF TakePage
    <2> HIDE DEF page, r
    <2>4. cursor' <= head' /\ has' \subseteq 1..head' /\ next <= head'
      BY <1>1, <2>1, <2>2 DEF NewCursor, Within
    <2> HIDE DEF next
    <2>5. CASE at' = [at EXCEPT ![r] = next]
      BY <1>0, <1>1, <2>4, <2>5
    <2> QED  BY <1>0, <1>1, <2>3, <2>4, <2>5, EndStaysInLog
  <1>6. CASE Writer
    BY <1>2, <1>6 DEF Writer, Write, ReadOutbox, Land, Answer, PushFails, Retry
  <1>7. CASE Server
    BY <1>2, <1>7 DEF Server, Untouched, PokeReader, PokeOther, Restart
  <1>8. CASE Phone
    <2>1. CASE Deliver \/ SocketDies \/ Watchdog \/ Background \/ NetworkLost \/ \E j \in Job : AskPage(j)
      BY <1>2, <2>1 DEF Deliver, SocketDies, Watchdog, Background, NetworkLost, AskPage
    <2> QED  BY <1>3, <1>4, <1>5, <1>8, <2>1 DEF Phone
  <1> QED  BY <1>2, <1>6, <1>7, <1>8 DEF Next, vars

(* A push carries what was written when the outbox was read, and the bound  *)
(* on events is the writer's too.                                          *)
LEMMA FlightStaysInLog ==
    ASSUME LiveInv, LogInv, [Next]_vars
    PROVE  written' <= MaxEvents /\ flight'.upto <= written'
PROOF
  <1>0. /\ written \in Nat /\ flight.upto \in Nat /\ MaxEvents \in Nat
        /\ written <= MaxEvents /\ flight.upto <= written
        /\ flight \in [phase : {"idle", "reading", "sent", "landed"}, upto : Nat, again : BOOLEAN]
    BY CacheAssumption DEF LiveInv, FlightInv, LogInv
  <1>1. Finished.upto = 0 /\ Idle.upto = 0 /\ [Idle EXCEPT !.phase = "reading"].upto = 0
    BY DEF Finished, Idle
  <1>2. CASE UNCHANGED written /\ flight'.upto \in {0, flight.upto, written}
    BY <1>0, <1>2
  <1>3. CASE UNCHANGED writerVars
    BY <1>2, <1>3 DEF writerVars
  <1>4. CASE Write
    <2>1. Cardinality(direct) \in Nat
      <3>1. IsFiniteSet(1..head) /\ direct \subseteq 1..head
        BY FS_Interval DEF LiveInv, CacheInv, CacheTypeOK, Position
      <3> QED  BY <3>1, FS_Subset, FS_CardinalityType
    <2>2. written' = written + 1 /\ written + Cardinality(direct) < MaxEvents
      BY <1>4 DEF Write, NewEvent
    <2>3. flight'.upto \in {0, flight.upto}
      <3>1. CASE flight.phase = "idle"
        BY <1>1, <1>4, <3>1 DEF Write
      <3>2. CASE flight.phase # "idle"
        <4>1. flight' = [flight EXCEPT !.again = TRUE]
          BY <1>4, <3>2 DEF Write
        <4> QED  BY <1>0, <4>1
      <3> QED  BY <3>1, <3>2
    <2> QED  BY <1>0, <2>1, <2>2, <2>3
  <1>5. CASE ReadOutbox
    <2>1. written' = written
          /\ (flight' = Finished \/ flight' = [flight EXCEPT !.phase = "sent", !.upto = written])
      BY <1>5 DEF ReadOutbox
    <2> QED  BY <1>0, <1>1, <1>2, <2>1
  <1>6. CASE Land
    <2>1. written' = written /\ flight' = [flight EXCEPT !.phase = "landed"]
      BY <1>6 DEF Land
    <2> QED  BY <1>0, <1>2, <2>1
  <1>7. CASE Answer \/ PushFails \/ Retry
    BY <1>1, <1>2, <1>7 DEF Answer, PushFails, Retry
  <1>8. CASE Restart
    <2>1. written' = written /\ (flight' = Finished \/ flight' = flight)
      BY <1>8 DEF Restart
    <2> QED  BY <1>1, <1>2, <2>1
  <1>9. CASE Phone
    BY <1>3, <1>9 DEF Phone, Deliver, Dial, SocketDies, Watchdog, FireTick, FirePoke,
          OtherKaata, AskPage, TakePage, PullFails, Background, Foreground, NetworkLost,
          NetworkBack
  <1>10. CASE Server
    BY <1>3, <1>8, <1>10 DEF Server, Untouched, PokeReader, PokeOther
  <1> QED
    BY <1>3, <1>4, <1>5, <1>6, <1>7, <1>9, <1>10 DEF Next, Writer, vars

(* Nothing is passed, stored, served or sent that is not in the log.        *)
LEMMA LogEndKeeps == LiveInv /\ LogInv /\ [Next]_vars => LogInv'
PROOF
  <1> SUFFICES ASSUME LiveInv, LogInv, [Next]_vars PROVE LogInv'
    OBVIOUS
  <1>1. \A r \in Reader : req'[r].after <= head'
    <2>1. \A r \in Reader : req'[r].after \in {0, req[r].after, at[r]}
      BY RequestsStartThere
    <2>2. head \in Nat /\ head' \in Nat /\ head <= head'
      BY HeadGrows
    <2>3. \A r \in Reader : req[r].after \in Nat /\ at[r] \in Nat
      BY RequestParts, CacheAssumption DEF LiveInv, CacheInv, DrainInv, Position
    <2> QED  BY <2>1, <2>2, <2>3 DEF LogInv
  <1> QED  BY <1>1, PagesStayInLog, DrainsStayInLog, FlightStaysInLog DEF LogInv

(* At the start there is no event at all.                                   *)
LEMMA LogEndStarts == Init => LogInv
PROOF
  <1> SUFFICES ASSUME Init PROVE LogInv
    OBVIOUS
  <1>1. head = 0 /\ cache = [a \in Position |-> NoPage] /\ req = [r \in Reader |-> Quiet]
        /\ written = 0 /\ flight = Idle /\ at = [r \in Reader |-> 0] /\ cursor = 0 /\ has = {}
    BY DEF Init, CacheInit
  <1>2. Within(0, NoPage) /\ MaxEvents \in Nat
    BY CacheAssumption DEF Within, NoPage
  <1> QED  BY <1>1, <1>2 DEF LogInv, Quiet, Idle

(* The shape of every variable, the scheduler's loop, and that nothing is   *)
(* passed or stored that the server does not have (TypeOK).                *)
THEOREM TypeCorrect == Spec => []TypeOK
PROOF
  <1>1. LiveInv /\ SchedInv /\ LogInv => TypeOK
    <2> SUFFICES ASSUME LiveInv, SchedInv, LogInv PROVE TypeOK
      OBVIOUS
    <2>1. CacheTypeOK /\ head \in Nat /\ cursor \in Nat /\ MaxEvents \in Nat
      BY CacheAssumption DEF LiveInv, CacheInv, CacheTypeOK, DrainInv, Position
    <2>2. /\ written \in 0..MaxEvents /\ acked \in 0..written
          /\ flight.phase \in {"idle", "reading", "sent", "landed"} /\ flight.upto \in 0..written
      BY <2>1 DEF LiveInv, FlightInv, LogInv
    <2>3. cursor \in 0..head /\ has \subseteq 1..head
      BY <2>1 DEF LogInv
    <2> QED  BY <2>1, <2>2, <2>3 DEF TypeOK, SchedInv
  <1>2. LiveInv /\ SchedInv /\ LogInv /\ [Next]_vars => SchedInv' /\ LogInv'
    BY SchedKeeps, LogEndKeeps
  <1>3. Spec => [](SchedInv /\ LogInv)
    BY <1>2, LiveCorrect, SchedStarts, LogEndStarts, PTL DEF Spec
  <1> QED  BY <1>1, <1>3, LiveCorrect, PTL

-----------------------------------------------------------------------------
(* Pokes *)

\* What will bring the kaata's pull, and the pull that has begun.
Announced ==
    owed > 0 \/ unsaid > 0 \/ Queued \/ "poke" \in timers \/ ("poke" \in running /\ again)

PullWillSee ==
    /\ "poke" \in running
    /\ req["main"].phase \in {"rows", "reply"} =>
         VisibleIn(Live, direct, req["main"].after, req["main"].page)

\* An event that is missed is announced, or the pull under way sees it: its page
\* is not read yet, or hides nothing.  Only that pull has a request here.
PokeInv ==
    ~active =>
      /\ ~lost /\ Undelivered # {} => Announced \/ PullWillSee
      /\ "poke" \notin running => req["main"].phase = "idle"

(* A frame that joins the queue leaves the others there.                    *)
LEMMA QueueGrows ==
    ASSUME queue \in Seq(Frame), NEW f \in Frame, queue' = Append(queue, f)
    PROVE  (Queued => Queued') /\ (f = "this" => Queued')
PROOF
  <1>1. Len(queue) \in Nat /\ Len(queue') = Len(queue) + 1
        /\ DOMAIN queue = 1..Len(queue) /\ DOMAIN queue' = 1..Len(queue')
    OBVIOUS
  <1>2. \A i \in DOMAIN queue : i \in DOMAIN queue' /\ queue'[i] = queue[i]
    BY <1>1
  <1>3. Len(queue') \in DOMAIN queue' /\ queue'[Len(queue')] = f
    BY <1>1
  <1> QED  BY <1>2, <1>3 DEF Queued

(* The frame that leaves it is the first.                                   *)
LEMMA QueueShrinks ==
    ASSUME queue \in Seq(Frame), queue # <<>>, queue' = Tail(queue), Queued
    PROVE  Queued' \/ Head(queue) = "this"
PROOF
  <1>1. PICK i \in DOMAIN queue : queue[i] = "this"
    BY DEF Queued
  <1>2. Len(queue) \in Nat /\ Len(queue') = Len(queue) - 1
        /\ DOMAIN queue = 1..Len(queue) /\ DOMAIN queue' = 1..Len(queue')
    OBVIOUS
  <1>3. CASE i = 1
    BY <1>1, <1>3
  <1>4. CASE i # 1
    <2>1. i - 1 \in DOMAIN queue' /\ queue'[i - 1] = queue[i]
      BY <1>2, <1>4
    <2> QED  BY <1>1, <2>1 DEF Queued
  <1> QED  BY <1>3, <1>4

(* A socket that goes takes its frames along, and says so.                  *)
LEMMA CutTells ==
    ASSUME NEW state, Cut(state)
    PROVE  (lost => lost') /\ (Queued => Queued' \/ lost')
PROOF
  <1>1. (lost => lost') /\ (state = "down" /\ Queued => lost')
        /\ (state # "down" => queue' = queue)
    BY DEF Cut
  <1> QED  BY <1>1 DEF Queued

(* A step that loses no announcement without saying so, moves the pull's    *)
(* request only to pages that hide no announced event, and adds no event.   *)
LEMMA Carried ==
    ASSUME PokeInv, active' = active,
           UNCHANGED <<head, direct, owed, unsaid, again>>,
           redacted \subseteq redacted', has \subseteq has', lost => lost',
           Queued => Queued' \/ lost' \/ "poke" \in timers',
           "poke" \in timers => "poke" \in timers',
           "poke" \in running <=> "poke" \in running',
           req["main"].phase = "idle" => req'["main"].phase = "idle" \/ "poke" \in running,
           req'["main"].phase \in {"rows", "reply"} =>
             \/ owed > 0
             \/ VisibleIn(Live, direct, req'["main"].after, req'["main"].page)
             \/ /\ req["main"].phase \in {"rows", "reply"}
                /\ req'["main"].after = req["main"].after
                /\ req'["main"].page = req["main"].page
    PROVE  PokeInv'
PROOF
  <1> SUFFICES ASSUME ~active PROVE PokeInv'
    BY DEF PokeInv
  <1>1. Live' \subseteq Live /\ Undelivered' \subseteq Undelivered
    BY DEF Live, Undelivered
  <1>2. \A a, p : VisibleIn(Live, direct, a, p) => VisibleIn(Live', direct', a, p)
    BY <1>1 DEF VisibleIn
  <1>3. "poke" \notin running' => req'["main"].phase = "idle"
    BY DEF PokeInv
  <1>4. Announced => Announced' \/ lost'
    BY DEF Announced
  <1>5. PullWillSee => Announced' \/ PullWillSee'
    <2> SUFFICES ASSUME PullWillSee, ~(owed > 0) PROVE PullWillSee'
      BY DEF Announced
    <2>1. req'["main"].phase \in {"rows", "reply"} =>
            VisibleIn(Live', direct', req'["main"].after, req'["main"].page)
      BY <1>2 DEF PullWillSee
    <2> QED  BY <2>1 DEF PullWillSee
  <1>6. ~lost' /\ Undelivered' # {} => Announced' \/ PullWillSee'
    BY <1>1, <1>4, <1>5 DEF PokeInv
  <1> QED  BY <1>3, <1>6 DEF PokeInv

(* The server answers a pull with pages that hide no push that has purged.  *)
LEMMA RequestsTell ==
    ASSUME CacheInv, NEW r \in Reader, NEW q \in Reader,
           (\E a \in Position : Ask(r, a)) \/ Enter(r) \/ PageQuery(r) \/ Fill(r)
    PROVE  /\ UNCHANGED <<head, redacted, direct, owed, unsaid>>
           /\ req[q].phase = "idle" =>
                req'[q].phase = "idle" \/ (q = r /\ \E a \in Position : Ask(r, a))
           /\ req'[q].phase \in {"rows", "reply"} =>
                \/ owed > 0
                \/ VisibleIn(Live, direct, req'[q].after, req'[q].page)
                \/ /\ req[q].phase \in {"rows", "reply"}
                   /\ req'[q].after = req[q].after /\ req'[q].page = req[q].page
PROOF
  <1>0. /\ CacheTypeOK /\ req \in [Reader -> Request] /\ owed \in Nat
        /\ owed = 0 => \A a \in Position : VisibleIn(Live, direct, a, cache[a])
        /\ req[r].after \in Position /\ req[r].high \in Position
    BY Restated, RequestParts DEF CacheInv, CacheTypeOK
  <1>1. UNCHANGED <<head, redacted, direct, owed, unsaid>>
    BY DEF Ask, Enter, PageQuery, Fill, serverVars
  <1>2. ASSUME NEW phase, NEW a, NEW high, NEW page, req' = Stage(r, phase, a, high, page)
        PROVE  /\ req'[r].phase = phase /\ req'[r].after = a /\ req'[r].page = page
               /\ q # r => req'[q] = req[q]
    BY <1>0, <1>2 DEF Stage
  <1>3. CASE \E a \in Position : Ask(r, a)
    <2> PICK a \in Position : Ask(r, a)
      BY <1>3
    <2>1. \/ req' = Stage(r, "reply", a, 0, cache[a])
          \/ req' = Stage(r, "waiting", a, 0, NoPage)
      BY DEF Ask, Reply
    <2> QED  BY <1>0, <1>1, <1>2, <2>1
  <1>4. CASE Enter(r)
    <2> DEFINE a == req[r].after
    <2>1. \/ req' = Stage(r, "reply", a, 0, cache[a])
          \/ req' = Stage(r, "window", a, WindowHigh(a), NoPage)
      BY <1>4 DEF Enter, Reply
    <2>2. req[r].phase # "idle" /\ a \in Position
      BY <1>0, <1>4 DEF Enter
    <2> HIDE DEF a
    <2> QED  BY <1>0, <1>1, <1>2, <2>1, <2>2
  <1>5. CASE PageQuery(r)
    <2> DEFINE a == req[r].after
               page == PageOf(a, FirstOf(Live, a), req[r].high)
    <2>1. req' = Stage(r, "rows", a, 0, page) /\ req[r].phase = "window"
      BY <1>5 DEF PageQuery
    <2>2. req[r].high <= head \/ req[r].high = a
      BY <2>1 DEF CacheInv, Windows
    <2>3. Hidden(a, page) = {}
      BY <1>0, <2>2, PageIsRight
    <2> HIDE DEF page, a
    <2>4. VisibleIn(Live, direct, a, page)
      BY <2>3 DEF Hidden, VisibleIn
    <2> QED  BY <1>1, <1>2, <2>1, <2>4
  <1>6. CASE Fill(r)
    <2>1. req' = Stage(r, "reply", req[r].after, 0, req[r].page) /\ req[r].phase = "rows"
      BY <1>6 DEF Fill, Reply
    <2> QED  BY <1>1, <1>2, <2>1
  <1> QED  BY <1>3, <1>4, <1>5, <1>6

(* The last page of a pull that sees everything delivers everything.        *)
LEMMA LastPageDelivers ==
    ASSUME LiveInv, TakePage("poke"), ~req["main"].page.more, PullWillSee
    PROVE  Undelivered' = {}
PROOF
  <1> DEFINE a == req["main"].after
             p == req["main"].page
  <1>1. /\ req["main"].phase = "reply" /\ p # NoPage /\ has' = has \cup p.rows
        /\ Leave("main")
    BY DEF TakePage, Client
  <1>2. UNCHANGED <<head, redacted, direct>>
    BY <1>1 DEF Leave
  <1>3. "main" \in Reader /\ CacheTypeOK
    BY LiveAssumption DEF LiveInv, CacheInv
  <1>4. a \in Nat /\ p.next \in Nat /\ head \in Nat
    <2>1. a \in Position /\ p \in Page
      BY <1>1, <1>3, RequestParts
    <2> QED  BY <1>3, <2>1, CacheAssumption DEF Page, Position, CacheTypeOK
  <1>5. CoveredBy(has, redacted, a) /\ HonestIn(redacted, a, p) /\ VisibleIn(Live, direct, a, p)
    BY <1>1, <1>3, Restated DEF LiveInv, DrainInv, CacheInv, PullWillSee
  <1>6. ~p.more
    OBVIOUS
  <1> HIDE DEF a, p
  <1>7. ASSUME NEW e \in 1..head, e \notin redacted, e \notin has', e \notin direct
        PROVE  FALSE
    <2>1. CASE e <= a
      BY <1>1, <1>4, <1>5, <1>7, <2>1 DEF CoveredBy
    <2>2. CASE a < e /\ e <= p.next
      BY <1>1, <1>4, <1>5, <1>7, <2>2 DEF HonestIn
    <2>3. CASE a < e /\ p.next < e
      BY <1>1, <1>4, <1>5, <1>6, <1>7, <2>3 DEF VisibleIn, Live
    <2> QED  BY <1>4, <2>1, <2>2, <2>3
  <1> QED  BY <1>2, <1>7 DEF Undelivered, Live

(* The writer only adds events the server then owes a purge for.            *)
LEMMA WriterPokes ==
    ASSUME LiveInv, PokeInv, Writer
    PROVE  PokeInv'
PROOF
  <1>1. UNCHANGED socketVars /\ UNCHANGED drainVars /\ UNCHANGED phoneVars
        /\ (UNCHANGED cacheVars \/ \E n : Commit(n))
    BY DEF Writer, Write, ReadOutbox, Land, Answer, PushFails, Retry
  <1>2. CASE UNCHANGED cacheVars
    BY <1>1, <1>2, Carried DEF cacheVars, serverVars, socketVars, drainVars, phoneVars, Queued
  <1>3. CASE \E n : Commit(n)
    <2>1. owed' > 0 /\ UNCHANGED req
      BY <1>3 DEF Commit, LiveInv, CacheInv, CacheTypeOK
    <2>2. Announced'
      BY <2>1 DEF Announced
    <2> QED  BY <1>1, <2>1, <2>2 DEF PokeInv, phoneVars
  <1> QED  BY <1>1, <1>2, <1>3

(* The server pokes after it purges, and a poke it cannot hand over counts  *)
(* as lost.                                                                *)
LEMMA ServerPokes ==
    ASSUME LiveInv, SchedInv, PokeInv, Server
    PROVE  PokeInv'
PROOF
  <1>0. /\ CacheInv /\ req \in [Reader -> Request] /\ "main" \in Reader
        /\ owed \in Nat /\ unsaid \in Nat /\ queue \in Seq(Frame)
    BY LiveAssumption DEF LiveInv, CacheInv, CacheTypeOK, SchedInv
  <1>1. ASSUME NEW r \in Reader, Enter(r) \/ PageQuery(r) \/ Fill(r), Untouched
        PROVE  PokeInv'
    <2>1. ~Ask(r, 0) /\ ~\E a \in Position : Ask(r, a)
      BY <1>1 DEF Enter, PageQuery, Fill, Ask
    <2>2. /\ UNCHANGED <<head, redacted, direct, owed, unsaid>>
          /\ req["main"].phase = "idle" => req'["main"].phase = "idle"
          /\ req'["main"].phase \in {"rows", "reply"} =>
                \/ owed > 0
                \/ VisibleIn(Live, direct, req'["main"].after, req'["main"].page)
                \/ /\ req["main"].phase \in {"rows", "reply"}
                   /\ req'["main"].after = req["main"].after /\ req'["main"].page = req["main"].page
      BY <1>0, <1>1, <2>1, RequestsTell
    <2> QED
      BY <1>1, <2>2, Carried DEF Untouched, socketVars, drainVars, phoneVars, Queued
  <1>2. CASE (Purge \/ (NewEvent /\ Transfer)) /\ Untouched
    <2>1. unsaid' > 0 /\ UNCHANGED req /\ UNCHANGED phoneVars
      BY <1>0, <1>2 DEF Purge, Transfer, Untouched
    <2>2. Announced'
      BY <2>1 DEF Announced
    <2> QED  BY <2>1, <2>2 DEF PokeInv, phoneVars
  <1>3. CASE \/ \E a \in Position : Expire(a) /\ Untouched
             \/ \E e \in 1..MaxEvents : Turn /\ Redact(e) /\ Untouched
    <2>1. UNCHANGED <<head, direct, owed, unsaid, req>> /\ redacted \subseteq redacted'
      BY <1>3 DEF Expire, Redact
    <2> QED
      BY <1>3, <2>1, Carried DEF Untouched, socketVars, drainVars, phoneVars, Queued
  <1>4. CASE PokeReader
    <2>1. UNCHANGED <<active, running, again, timers, has, head, redacted, direct, req>>
      BY <1>4 DEF PokeReader, Poke, phoneVars, drainVars
    <2>2. Queued' \/ lost'
      <3>1. CASE queue' = Append(queue, "this")
        BY <1>0, <3>1, QueueGrows DEF Frame
      <3>2. CASE lost' = (lost \/ ~Queued) /\ queue' = queue
        BY <3>2 DEF Queued
      <3> QED  BY <1>4, <3>1, <3>2 DEF PokeReader
    <2>3. Announced' \/ lost'
      BY <2>2 DEF Announced
    <2> QED  BY <2>1, <2>3 DEF PokeInv
  <1>5. CASE PokeOther
    <2>1. Queued => Queued'
      BY <1>0, <1>5, QueueGrows DEF PokeOther, Frame
    <2> QED
      BY <1>5, <2>1, Carried DEF PokeOther, cacheVars, serverVars, drainVars, phoneVars
  <1>6. CASE Restart
    <2>1. /\ UNCHANGED <<active, running, again, timers, has, head, redacted, direct>>
          /\ lost' = (lost \/ owed + unsaid > 0 \/ Queued) /\ Crash
      BY <1>6 DEF Restart, Crash, phoneVars, drainVars
    <2>2. req'["main"] = req["main"] \/ (req["main"].phase # "idle" /\ req'["main"].page = NoPage)
      BY <1>0, <2>1 DEF Crash, Broken
    <2>3. Undelivered' = Undelivered /\ Live' = Live
      BY <2>1 DEF Undelivered, Live
    <2>4. Announced => Announced' \/ lost'
      <3>1. owed > 0 \/ unsaid > 0 => owed + unsaid > 0
        BY <1>0
      <3>2. owed > 0 \/ unsaid > 0 \/ Queued => lost'
        BY <2>1, <3>1
      <3> QED  BY <2>1, <3>2 DEF Announced
    <2>5. PullWillSee => PullWillSee'
      BY <2>1, <2>2, <2>3 DEF PullWillSee, VisibleIn
    <2>6. req["main"].phase = "idle" => req'["main"].phase = "idle"
      BY <2>2
    <2> QED  BY <2>1, <2>3, <2>4, <2>5, <2>6 DEF PokeInv
  <1> QED  BY <1>1, <1>2, <1>3, <1>4, <1>5, <1>6 DEF Server

(* A poke's timer starts a pull, or has the one under way start another.    *)
LEMMA TimerPokes ==
    ASSUME LiveInv, SchedInv, PokeInv, FirePoke
    PROVE  PokeInv'
PROOF
  <1> SUFFICES ASSUME ~active PROVE PokeInv'
    BY DEF PokeInv, FirePoke
  <1>1. /\ UNCHANGED cacheVars /\ active' = active
        /\ running' = running \cup {"poke"} /\ again' = ("poke" \in running)
    BY DEF FirePoke, Begin, Noted
  <1>2. CASE "poke" \in running
    <2>1. Announced'
      BY <1>1, <1>2 DEF Announced
    <2> QED  BY <1>1, <2>1 DEF PokeInv
  <1>3. CASE "poke" \notin running
    <2>1. req'["main"].phase = "idle"
      BY <1>1, <1>3 DEF PokeInv, cacheVars
    <2>2. PullWillSee'
      BY <1>1, <2>1 DEF PullWillSee
    <2> QED  BY <1>1, <2>2 DEF PokeInv
  <1> QED  BY <1>2, <1>3

(* The poke's pull sees what was announced before it asked; what came later *)
(* has it ask again.                                                       *)
LEMMA PullPokes ==
    ASSUME LiveInv, SchedInv, PokeInv, AskPage("poke") \/ TakePage("poke") \/ PullFails("poke")
    PROVE  PokeInv'
PROOF
  <1>a. active' = active
    BY DEF AskPage, TakePage, PullFails, phoneVars
  <1> SUFFICES ASSUME ~active PROVE PokeInv'
    BY <1>a DEF PokeInv
  <1>0. /\ CacheInv /\ req \in [Reader -> Request] /\ "main" \in Reader
        /\ Client("poke") = "main" /\ "poke" \in running
    BY LiveAssumption DEF LiveInv, CacheInv, CacheTypeOK, Client, AskPage, TakePage, PullFails
  <1>1. CASE AskPage("poke")
    <2>1. Ask("main", at["main"]) /\ at["main"] \in Position
      BY <1>0, <1>1 DEF AskPage, LiveInv, DrainInv
    <2>2. /\ UNCHANGED <<head, redacted, direct, owed, unsaid>>
          /\ req'["main"].phase \in {"rows", "reply"} =>
                \/ owed > 0
                \/ VisibleIn(Live, direct, req'["main"].after, req'["main"].page)
                \/ /\ req["main"].phase \in {"rows", "reply"}
                   /\ req'["main"].after = req["main"].after /\ req'["main"].page = req["main"].page
      BY <1>0, <2>1, RequestsTell
    <2> QED
      BY <1>0, <1>1, <2>2, Carried DEF AskPage, socketVars, drainVars, phoneVars, Queued
  <1>2. ASSUME Leave("main")
        PROVE  req'["main"].phase = "idle" /\ UNCHANGED <<head, redacted, direct, owed, unsaid>>
    BY <1>0, <1>2 DEF Leave, Quiet
  <1>3. CASE TakePage("poke")
    <2>1. /\ Leave("main") /\ has \subseteq has' /\ UNCHANGED <<queue, active>>
      BY <1>0, <1>3 DEF TakePage
    <2>2. CASE req["main"].page.more
      <3>1. UNCHANGED <<timers, running, again, lost>>
        BY <1>0, <1>3, <2>2 DEF TakePage
      <3> QED  BY <1>0, <1>2, <2>1, <3>1, Carried DEF Queued
    <2>3. CASE ~req["main"].page.more
      <3>1. /\ running' = (IF again THEN running ELSE running \ {"poke"})
            /\ timers' = timers /\ again' = FALSE /\ lost' = lost
        BY <1>0, <1>3, <2>3 DEF TakePage, End, PokeEnds, SchedInv
      <3>2. PullWillSee => Undelivered' = {}
        BY <1>3, <2>3, LastPageDelivers
      <3>3. Announced => Announced' \/ PullWillSee'
        <4>1. CASE "poke" \in running /\ again
          BY <1>2, <2>1, <3>1, <4>1 DEF PullWillSee
        <4> QED  BY <1>2, <2>1, <3>1, <4>1 DEF Announced, Queued
      <3>4. Undelivered' \subseteq Undelivered
        BY <1>2, <2>1 DEF Undelivered, Live
      <3> QED  BY <1>2, <2>1, <3>1, <3>2, <3>3, <3>4 DEF PokeInv
    <2> QED  BY <2>2, <2>3
  <1>4. CASE PullFails("poke")
    <2>1. lost' /\ active' = active /\ ((req["main"].phase = "idle" /\ UNCHANGED cacheVars) \/ Leave("main"))
      BY <1>0, <1>4 DEF PullFails, End, PokeEnds
    <2>2. req'["main"].phase = "idle"
      BY <1>2, <2>1 DEF cacheVars
    <2> QED  BY <2>1, <2>2 DEF PokeInv
  <1> QED  BY <1>1, <1>3, <1>4

(* The sweep pulls with a request of its own, and the tick another kaata.   *)
LEMMA OtherPulls ==
    ASSUME LiveInv, SchedInv, PokeInv, NEW j \in Job,
           OtherKaata(j) \/ AskPage(j) \/ TakePage(j) \/ PullFails(j), j # "poke"
    PROVE  PokeInv'
PROOF
  <1>a. active' = active
    BY DEF OtherKaata, AskPage, TakePage, PullFails, phoneVars
  <1> SUFFICES ASSUME ~active PROVE PokeInv'
    BY <1>a DEF PokeInv
  <1>0. /\ CacheInv /\ req \in [Reader -> Request] /\ "main" \in Reader /\ "sweep" \in Reader
    BY LiveAssumption DEF LiveInv, CacheInv, CacheTypeOK
  <1>1. UNCHANGED active /\ has \subseteq has' /\ queue' = queue
    BY DEF OtherKaata, AskPage, TakePage, PullFails, phoneVars, drainVars, socketVars
  <1>2. UNCHANGED <<head, redacted, direct, owed, unsaid>> /\ req'["main"] = req["main"]
    <2>1. CASE UNCHANGED cacheVars
      BY <2>1 DEF cacheVars, serverVars
    <2>2. CASE OtherKaata(j)
      BY <2>1, <2>2 DEF OtherKaata
    <2>3. CASE ~OtherKaata(j)
      <3>1. Pulls(j)
        BY <2>3 DEF AskPage, TakePage, PullFails
      <3>2. Client(j) = "sweep"
        BY <3>1 DEF Pulls, Client, Job
      <3>3. Ask("sweep", at["sweep"]) \/ Leave("sweep") \/ UNCHANGED cacheVars
        BY <2>3, <3>2 DEF AskPage, TakePage, PullFails
      <3> QED  BY <1>0, <2>1, <3>3 DEF Ask, Leave, Reply, Stage, serverVars
    <2> QED  BY <2>2, <2>3
  <1>3. /\ timers \subseteq timers' /\ again' = again /\ lost' = lost
        /\ "poke" \in running <=> "poke" \in running'
    <2>1. UNCHANGED <<timers, running, again, lost>> \/ \E good : End(j, good)
      BY DEF OtherKaata, AskPage, TakePage, PullFails, phoneVars, socketVars
    <2>2. ASSUME NEW good, End(j, good)
          PROVE  /\ timers \subseteq timers' /\ again' = again /\ lost' = lost
                 /\ "poke" \in running <=> "poke" \in running'
      BY <2>2 DEF End, TickEnds, SweepEnds, Rescheduled
    <2> QED  BY <2>1, <2>2
  <1> QED  BY <1>1, <1>2, <1>3, Carried DEF Queued

(* One step of the phone, the socket or the network.                        *)
LEMMA PhonePokes ==
    ASSUME LiveInv, SchedInv, PokeInv, Phone
    PROVE  PokeInv'
PROOF
  <1>1. CASE Deliver
    <2>1. /\ UNCHANGED cacheVars /\ UNCHANGED drainVars
          /\ UNCHANGED <<lost, active, running, again>>
          /\ queue # <<>> /\ queue' = Tail(queue) /\ timers \subseteq timers'
          /\ Head(queue) = "this" => "poke" \in timers'
      BY <1>1 DEF Deliver
    <2>2. Queued => Queued' \/ "poke" \in timers'
      BY <2>1, QueueShrinks DEF SchedInv
    <2> QED  BY <2>1, <2>2, Carried DEF cacheVars, serverVars, drainVars
  <1>2. CASE Dial \/ FireTick \/ Foreground \/ NetworkBack
    <2>1. /\ UNCHANGED cacheVars /\ UNCHANGED <<has, queue, lost, active, again>>
          /\ \E jobs \in {{"sweep"}, {"tick"}} : running' = running \cup jobs
          /\ "poke" \in timers => "poke" \in timers'
      BY <1>2 DEF Dial, FireTick, Foreground, NetworkBack, TickRequested, Begin, socketVars
    <2>2. "poke" \in running <=> "poke" \in running'
      BY <2>1
    <2> QED  BY <2>1, <2>2, Carried DEF cacheVars, serverVars, Queued
  <1>3. CASE SocketDies \/ Watchdog \/ Background \/ NetworkLost
    <2>1. /\ UNCHANGED cacheVars /\ UNCHANGED drainVars
          /\ UNCHANGED <<active, timers, running, again>> /\ \E state : Cut(state)
      BY <1>3 DEF SocketDies, Watchdog, Background, NetworkLost, phoneVars
    <2>2. (lost => lost') /\ (Queued => Queued' \/ lost')
      BY <2>1, CutTells
    <2> QED  BY <2>1, <2>2, Carried DEF cacheVars, serverVars, drainVars
  <1>4. ASSUME NEW j \in Job, OtherKaata(j) \/ AskPage(j) \/ TakePage(j) \/ PullFails(j)
        PROVE  PokeInv'
    <2>1. CASE j # "poke"
      BY <1>4, <2>1, OtherPulls
    <2>2. CASE j = "poke"
      <3>1. CASE OtherKaata("poke")
        <4>1. active
          BY <3>1 DEF OtherKaata, Pulls, SchedInv
        <4> QED  BY <3>1, <4>1 DEF OtherKaata, PokeInv
      <3> QED  BY <1>4, <2>2, <3>1, PullPokes
    <2> QED  BY <2>1, <2>2
  <1> QED  BY <1>1, <1>2, <1>3, <1>4, TimerPokes DEF Phone

(* Every step keeps what is missed announced, or seen by the pull.          *)
LEMMA PokesKeep == LiveInv /\ SchedInv /\ PokeInv /\ [Next]_vars => PokeInv'
PROOF
  <1> SUFFICES ASSUME LiveInv, SchedInv, PokeInv, [Next]_vars PROVE PokeInv'
    OBVIOUS
  <1>1. CASE UNCHANGED vars
    BY <1>1, Carried DEF vars, cacheVars, serverVars, socketVars, drainVars, phoneVars, Queued
  <1> QED  BY <1>1, WriterPokes, ServerPokes, PhonePokes DEF Next

(* At the start nothing is missed.                                          *)
LEMMA PokesStart == Init => PokeInv
PROOF
  <1> SUFFICES ASSUME Init PROVE PokeInv
    OBVIOUS
  <1>1. head = 0 /\ "main" \in Reader /\ req = [r \in Reader |-> Quiet]
    BY LiveAssumption DEF Init, CacheInit
  <1>2. Undelivered = {} /\ req["main"].phase = "idle"
    BY <1>1 DEF Undelivered, Live, Quiet
  <1> QED  BY <1>2 DEF PokeInv

(* An event the reader lacks is announced, unless a poke of its kaata came  *)
(* to nothing: a purge, a poke, a frame, a timer or a pull is still to come *)
(* (onPoke, pokePullDirty; PushEvents purges before it pokes).              *)
THEOREM PokesAreEnough == Spec => []PokesSuffice
PROOF
  <1>1. PokeInv => PokesSuffice
    BY DEF PokeInv, PokesSuffice, Announced, PullWillSee
  <1>2. LiveInv /\ SchedInv /\ PokeInv /\ [Next]_vars => SchedInv' /\ PokeInv'
    BY SchedKeeps, PokesKeep
  <1>3. Spec => [](SchedInv /\ PokeInv)
    BY <1>2, LiveCorrect, SchedStarts, PokesStart, PTL DEF Spec
  <1> QED  BY <1>1, <1>3, PTL
=============================================================================
