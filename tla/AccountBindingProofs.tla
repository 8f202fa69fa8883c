------------------------ MODULE AccountBindingProofs ------------------------
(***************************************************************************)
(* Proofs about AccountBinding, for any number of events, losses and       *)
(* sign-outs and any batch size: a stamp is honest because a row is marked *)
(* only by an answer whose events are stored, and a cached denial is one   *)
(* of what is stored because only the binding of a log can change it.      *)
(***************************************************************************)
EXTENDS AccountBinding, FiniteSetTheorems, TLAPS

\* An answer on its way accepts only what is stored, a mark says no more, and
\* a stamp is waited for only where every row seen is marked.
AnswersAreTrue ==
    /\ acked \subseteq stored
    /\ push.phase = "answered" => push.batch \ push.refused \subseteq stored
    /\ push.phase = "stamp" => push.batch \subseteq stored
    /\ push.refused \subseteq push.batch \cap Nameless

\* The type invariant with what the two properties rest on.
IInv == TypeOK /\ AnswersAreTrue /\ NoStaleDenial

----------------------------------------------------------------------------
\* The backoff stays within its cap.
LEMMA BackoffType ==
    ASSUME NEW b \in 0..BackoffCap
    PROVE  Backoff(b) \in 0..BackoffCap
  BY BindingAssumption DEF Backoff

\* The number of events written is one, whatever the order they came in.
LEMMA WrittenCounts == Cardinality(Written) \in Nat
<1>1. IsFiniteSet(Event)
  BY BindingAssumption, FS_Interval DEF Event
<1>2. IsFiniteSet(Written)
  BY <1>1, FS_Subset DEF Written
<1> QED
  BY <1>2, FS_CardinalityType

\* Whatever is written now was not there before; what was there is what it was.
LEMMA WriteAdds ==
    ASSUME TypeOK, NEW k \in {"anonymous", "lapsed", "named", "binding"}, Write(k)
    PROVE  \E e \in Event : /\ e \notin Written
                            /\ kind' = [kind EXCEPT ![e] = k]
                            /\ Written' = Written \cup {e}
                            /\ Nameless \subseteq Nameless'
                            /\ Bindings \subseteq Bindings'
                            /\ Bindings' \subseteq Bindings \cup {e}
<1>1. PICK e \in Event : Written = 1..(e - 1) /\ kind' = [kind EXCEPT ![e] = k]
  BY DEF Write
<1>2. e \notin Written
  BY <1>1 DEF Event
<1>3. Written' = Written \cup {e}
  BY <1>1 DEF TypeOK, Written
<1>4. \A f \in Written : kind'[f] = kind[f]
  BY <1>1, <1>2 DEF Written, TypeOK
<1>5. Nameless \subseteq Nameless' /\ Bindings \subseteq Bindings'
  BY <1>3, <1>4 DEF Nameless, Bindings
<1>6. Bindings' \subseteq Bindings \cup {e}
  BY <1>3, <1>4 DEF Bindings
<1> QED
  BY <1>1, <1>2, <1>3, <1>5, <1>6

\* A batch is written.
LEMMA BatchIsWritten == Batch \subseteq Written
  BY DEF Batch, Outbox, Pending

\* Who has a name is always admitted, and all that is admitted was asked for.
LEMMA AdmittedFacts ==
    ASSUME NEW B \in SUBSET Written
    PROVE  /\ Admitted(B) \subseteq B
           /\ B \ Nameless \subseteq Admitted(B)
  BY DEF Admitted

----------------------------------------------------------------------------
\* Steps that write an event.

\* Another event on disk makes nothing said before untrue: what is stored, and
\* so whatever is bound there, was written before it.
LEMMA WriteKeeps ==
    ASSUME IInv, NEW k \in {"anonymous", "lapsed", "named", "binding"}, Write(k),
           UNCHANGED <<rowVars, push, pushed, serverVars, unseen, session, account, known>>,
           signin' \in {"none", "session", "account", "cutoff"},
           draft' \in {"none", "anonymous", "lapsed", "named"},
           last' \in Nat, cutoff' \in Nat,
           cutoff' = cutoff \/ Bindings = {}
    PROVE  IInv'
<1>1. PICK e \in Event : /\ e \notin Written
                         /\ kind' = [kind EXCEPT ![e] = k]
                         /\ Written' = Written \cup {e}
                         /\ Nameless \subseteq Nameless'
                         /\ Bindings \subseteq Bindings'
                         /\ Bindings' \subseteq Bindings \cup {e}
  BY WriteAdds DEF IInv
<1>2. TypeOK'
  <2>1. kind' \in [Event -> {"none", "anonymous", "lapsed", "named", "binding"}]
    BY <1>1 DEF IInv, TypeOK
  <2>2. /\ push' \in [phase : {"idle", "sent", "answered", "look", "stamp"},
                      batch : SUBSET Written', refused : SUBSET Written']
        /\ acked' \subseteq Written' /\ stored' \subseteq Written'
        /\ denied' \subseteq Nameless' /\ unseen' \subseteq Written'
    BY <1>1 DEF IInv, TypeOK, rowVars, serverVars
  <2> QED
    BY <2>1, <2>2 DEF IInv, TypeOK, rowVars, serverVars
<1>3. AnswersAreTrue'
  BY <1>1 DEF IInv, AnswersAreTrue, rowVars, serverVars
<1>4. NoStaleDenial'
  <2> SUFFICES ASSUME ~stale, NEW f \in denied PROVE ~Attributed(f, stored)'
    BY DEF NoStaleDenial, serverVars
  <2>1. ~Attributed(f, stored) /\ stored' = stored /\ stored \subseteq Written
    BY DEF IInv, NoStaleDenial, TypeOK, serverVars
  <2>2. Bindings' \cap stored' = Bindings \cap stored
    BY <1>1, <2>1
  <2>3. CASE Bindings = {}
    BY <2>2, <2>3 DEF Attributed
  <2>4. CASE cutoff' = cutoff
    BY <2>1, <2>2, <2>4 DEF Attributed
  <2> QED
    BY <2>3, <2>4
<1> QED
  BY <1>2, <1>3, <1>4 DEF IInv

LEMMA AppendKeeps == IInv /\ Append => IInv'
<1> SUFFICES ASSUME IInv, Append PROVE IInv'
  OBVIOUS
<1>1. draft \in {"anonymous", "lapsed", "named"}
  BY DEF IInv, TypeOK, Append
<1>2. /\ UNCHANGED <<rowVars, push, pushed, serverVars, unseen, session, account, known>>
      /\ signin' = signin /\ last' = last /\ cutoff' = cutoff /\ draft' = "none"
  BY DEF Append, authVars
<1>3. signin \in {"none", "session", "account", "cutoff"} /\ last \in Nat /\ cutoff \in Nat
  BY DEF IInv, TypeOK
<1> QED
  BY <1>1, <1>2, <1>3, WriteKeeps DEF Append

----------------------------------------------------------------------------
\* Steps that write none.

\* The sign-in moves on and the drafts come and go without the log's knowing.
LEMMA PhoneKeeps ==
    ASSUME IInv, UNCHANGED <<kind, cutoff, rowVars, serverVars, unseen>>,
           push' \in {push, Idle}, pushed' = pushed,
           {session, account, known}' \subseteq BOOLEAN,
           signin' \in {"none", "session", "account", "cutoff"},
           draft' \in {"none", "anonymous", "lapsed", "named"}, last' \in Nat
    PROVE  IInv'
<1>1. /\ Written' = Written /\ Nameless' = Nameless /\ Bindings' = Bindings
  BY DEF Written, Nameless, Bindings
<1>2. TypeOK'
  BY <1>1 DEF IInv, TypeOK, rowVars, serverVars, Idle
<1>3. AnswersAreTrue'
  BY <1>1 DEF IInv, AnswersAreTrue, rowVars, serverVars, Idle
<1>4. NoStaleDenial'
  BY <1>1 DEF IInv, NoStaleDenial, Attributed, serverVars
<1> QED
  BY <1>2, <1>3, <1>4 DEF IInv

LEMMA PhoneStepsKeep ==
    IInv /\ (Compose \/ SignIn \/ SignOut \/ Relaunch \/ KnowAccount \/ ReadCutoff \/ PushLost)
      => IInv'
<1> SUFFICES ASSUME IInv, Compose \/ SignIn \/ SignOut \/ Relaunch \/ KnowAccount
                          \/ ReadCutoff \/ PushLost
             PROVE  IInv'
  OBVIOUS
<1>t. /\ {session, account, known} \subseteq BOOLEAN
      /\ signin \in {"none", "session", "account", "cutoff"}
      /\ draft \in {"none", "anonymous", "lapsed", "named"}
      /\ last \in Nat
  BY DEF IInv, TypeOK
<1>1. UNCHANGED <<kind, cutoff, rowVars, serverVars, unseen, pushed>> /\ push' \in {push, Idle}
  BY DEF Compose, SignIn, SignOut, Relaunch, KnowAccount, ReadCutoff, PushLost, logVars
<1>2. {session, account, known}' \subseteq BOOLEAN
  BY <1>t DEF Compose, SignIn, SignOut, Relaunch, KnowAccount, ReadCutoff, PushLost, authVars
<1>3. signin' \in {"none", "session", "account", "cutoff"}
  BY <1>t DEF Compose, SignIn, SignOut, Relaunch, KnowAccount, ReadCutoff, PushLost, authVars
<1>4. draft' \in {"none", "anonymous", "lapsed", "named"}
  BY <1>t DEF Compose, SignIn, SignOut, Relaunch, KnowAccount, ReadCutoff, PushLost, logVars
<1>5. last' \in Nat
  BY <1>t, WrittenCounts
     DEF Compose, SignIn, SignOut, Relaunch, KnowAccount, ReadCutoff, PushLost, authVars
<1> QED
  BY <1>1, <1>2, <1>3, <1>4, <1>5, PhoneKeeps

\* A binding is written with the first cutoff that was read, or not at all.
LEMMA BindingKeeps == IInv /\ AppendAccountBound => IInv'
<1> SUFFICES ASSUME IInv, AppendAccountBound PROVE IInv'
  OBVIOUS
<1>t. /\ {session, account, known} \subseteq BOOLEAN
      /\ draft \in {"none", "anonymous", "lapsed", "named"}
      /\ last \in Nat /\ cutoff \in Nat
  BY DEF IInv, TypeOK
<1>1. /\ UNCHANGED <<rowVars, push, pushed, serverVars, unseen, session, account, known, draft>>
      /\ signin' = "none" /\ last' = 0
  BY DEF AppendAccountBound
<1>2. CASE Bindings = {}
  <2>1. Write("binding") /\ cutoff' = last
    BY <1>2 DEF AppendAccountBound
  <2> QED
    BY <1>t, <1>1, <1>2, <2>1, WriteKeeps
<1>3. CASE Bindings # {}
  <2>1. UNCHANGED <<kind, cutoff>>
    BY <1>3 DEF AppendAccountBound
  <2> QED
    BY <1>t, <1>1, <2>1, PhoneKeeps
<1> QED
  BY <1>2, <1>3

LEMMA ReadOutboxKeeps == IInv /\ ReadOutbox => IInv'
<1> SUFFICES ASSUME IInv, ReadOutbox PROVE IInv'
  OBVIOUS
<1>0. UNCHANGED <<authVars, logVars, rowVars, serverVars, unseen>> /\ pushed' = TRUE
  BY DEF ReadOutbox
<1>1. /\ Written' = Written /\ Nameless' = Nameless /\ Bindings' = Bindings
  BY <1>0 DEF Written, Nameless, Bindings, logVars
<1>2. /\ push'.refused = {} /\ push'.phase \notin {"answered", "stamp"}
      /\ push' \in [phase : {"idle", "sent", "answered", "look", "stamp"},
                    batch : SUBSET Written, refused : SUBSET Written]
  BY BatchIsWritten DEF ReadOutbox, Idle
<1>3. TypeOK'
  BY <1>0, <1>1, <1>2 DEF IInv, TypeOK, authVars, logVars, rowVars, serverVars
<1>4. AnswersAreTrue'
  BY <1>0, <1>2 DEF IInv, AnswersAreTrue, rowVars, serverVars
<1>5. NoStaleDenial'
  BY <1>0, <1>1 DEF IInv, NoStaleDenial, Attributed, serverVars, logVars
<1> QED
  BY <1>3, <1>4, <1>5 DEF IInv

\* An answer marks what it accepted, which is stored.
LEMMA HandleResponseKeeps == IInv /\ HandleResponse => IInv'
<1> SUFFICES ASSUME IInv, HandleResponse PROVE IInv'
  OBVIOUS
<1>0. /\ UNCHANGED <<authVars, logVars, pushed, serverVars, unseen>>
      /\ acked' = acked \cup (push.batch \ push.refused)
      /\ push' \in {Idle, [Idle EXCEPT !.phase = "look"]}
  BY DEF HandleResponse
<1>1. /\ Written' = Written /\ Nameless' = Nameless /\ Bindings' = Bindings
  BY <1>0 DEF Written, Nameless, Bindings, logVars
<1>2. /\ push'.refused = {} /\ push'.phase \notin {"answered", "stamp"}
      /\ push' \in [phase : {"idle", "sent", "answered", "look", "stamp"},
                    batch : SUBSET Written, refused : SUBSET Written]
  BY <1>0 DEF Idle
<1>3. {backoff, wait}' \subseteq [Event -> 0..BackoffCap]
  <2>1. \A e \in Event : backoff[e] \in 0..BackoffCap /\ wait[e] \in 0..BackoffCap
    BY DEF IInv, TypeOK
  <2>2. \A e \in Event : Backoff(backoff[e]) \in 0..BackoffCap
    BY <2>1, BackoffType
  <2> QED
    BY <2>1, <2>2 DEF HandleResponse
<1>4. acked' \subseteq Written /\ acked' \subseteq stored
  BY <1>0 DEF IInv, TypeOK, AnswersAreTrue, HandleResponse
<1>5. TypeOK'
  BY <1>0, <1>1, <1>2, <1>3, <1>4 DEF IInv, TypeOK, authVars, logVars, serverVars
<1>6. AnswersAreTrue'
  BY <1>0, <1>2, <1>4 DEF AnswersAreTrue, serverVars
<1>7. NoStaleDenial'
  BY <1>0, <1>1 DEF IInv, NoStaleDenial, Attributed, serverVars, logVars
<1> QED
  BY <1>5, <1>6, <1>7 DEF IInv

\* A look that finds no row pending has seen only rows that are marked.
LEMMA LookAgainKeeps == IInv /\ LookAgain => IInv'
<1> SUFFICES ASSUME IInv, LookAgain PROVE IInv'
  OBVIOUS
<1>0. /\ UNCHANGED <<authVars, logVars, rowVars, pushed, serverVars, unseen>>
      /\ push' = IF Pending = {} THEN [Idle EXCEPT !.phase = "stamp", !.batch = Written] ELSE Idle
  BY DEF LookAgain
<1>1. /\ Written' = Written /\ Nameless' = Nameless /\ Bindings' = Bindings
  BY <1>0 DEF Written, Nameless, Bindings, logVars
<1>2. /\ push' \in [phase : {"idle", "sent", "answered", "look", "stamp"},
                    batch : SUBSET Written, refused : SUBSET Written]
      /\ push'.refused = {} /\ push'.phase # "answered"
      /\ push'.phase = "stamp" => Pending = {} /\ push'.batch = Written
  BY <1>0 DEF Idle
<1>3. Pending = {} => Written \subseteq stored
  BY DEF IInv, AnswersAreTrue, Pending
<1>4. TypeOK'
  BY <1>0, <1>1, <1>2 DEF IInv, TypeOK, authVars, logVars, rowVars, serverVars
<1>5. AnswersAreTrue'
  BY <1>0, <1>2, <1>3 DEF IInv, AnswersAreTrue, rowVars, serverVars
<1>6. NoStaleDenial'
  BY <1>0, <1>1 DEF IInv, NoStaleDenial, Attributed, serverVars, logVars
<1> QED
  BY <1>4, <1>5, <1>6 DEF IInv

LEMMA MarkPushDoneKeeps == IInv /\ MarkPushDone => IInv'
<1> SUFFICES ASSUME IInv, MarkPushDone PROVE IInv'
  OBVIOUS
<1>0. /\ UNCHANGED <<authVars, logVars, rowVars, pushed, serverVars>>
      /\ push' = Idle /\ unseen' \subseteq Written
  BY DEF MarkPushDone
<1>1. /\ Written' = Written /\ Nameless' = Nameless /\ Bindings' = Bindings
  BY <1>0 DEF Written, Nameless, Bindings, logVars
<1>2. TypeOK'
  BY <1>0, <1>1 DEF IInv, TypeOK, authVars, logVars, rowVars, serverVars, Idle
<1>3. AnswersAreTrue'
  BY <1>0 DEF IInv, AnswersAreTrue, rowVars, serverVars, Idle
<1>4. NoStaleDenial'
  BY <1>0, <1>1 DEF IInv, NoStaleDenial, Attributed, serverVars, logVars
<1> QED
  BY <1>2, <1>3, <1>4 DEF IInv

LEMMA TickKeeps == IInv /\ Tick => IInv'
<1> SUFFICES ASSUME IInv, Tick PROVE IInv'
  OBVIOUS
<1>0. /\ UNCHANGED <<authVars, logVars, acked, backoff, push, serverVars, unseen>>
      /\ wait' = [e \in Event |-> IF wait[e] > 0 THEN wait[e] - 1 ELSE 0]
      /\ pushed' = FALSE
  BY DEF Tick
<1>1. /\ Written' = Written /\ Nameless' = Nameless /\ Bindings' = Bindings
  BY <1>0 DEF Written, Nameless, Bindings, logVars
<1>2. wait' \in [Event -> 0..BackoffCap]
  <2>1. \A e \in Event : wait[e] \in 0..BackoffCap
    BY DEF IInv, TypeOK
  <2> QED
    BY <1>0, <2>1, BindingAssumption
<1>3. TypeOK'
  BY <1>0, <1>1, <1>2 DEF IInv, TypeOK, authVars, logVars, serverVars
<1>4. AnswersAreTrue'
  BY <1>0, <1>1 DEF IInv, AnswersAreTrue, serverVars
<1>5. NoStaleDenial'
  BY <1>0, <1>1 DEF IInv, NoStaleDenial, Attributed, serverVars, logVars
<1> QED
  BY <1>3, <1>4, <1>5 DEF IInv

\* The cache only forgets, and all of it when a commit is announced.
LEMMA CacheKeeps == IInv /\ (InvalidateVault \/ CacheExpires) => IInv'
<1> SUFFICES ASSUME IInv, InvalidateVault \/ CacheExpires PROVE IInv'
  OBVIOUS
<1>0. /\ UNCHANGED <<authVars, logVars, rowVars, push, pushed, stored, unseen>>
      /\ denied' \subseteq denied /\ stale' \in BOOLEAN
      /\ stale' \/ denied' = {} \/ ~stale
  <2>1. stale \in BOOLEAN
    BY DEF IInv, TypeOK
  <2>2. CASE InvalidateVault
    BY <2>2 DEF InvalidateVault
  <2>3. CASE CacheExpires
    BY <2>1, <2>3 DEF CacheExpires
  <2> QED
    BY <2>2, <2>3
<1>1. /\ Written' = Written /\ Nameless' = Nameless /\ Bindings' = Bindings
  BY <1>0 DEF Written, Nameless, Bindings, logVars
<1>2. TypeOK'
  BY <1>0, <1>1 DEF IInv, TypeOK, authVars, logVars, rowVars
<1>3. AnswersAreTrue'
  BY <1>0, <1>1 DEF IInv, AnswersAreTrue, rowVars
<1>4. NoStaleDenial'
  BY <1>0, <1>1 DEF IInv, NoStaleDenial, Attributed, logVars
<1> QED
  BY <1>2, <1>3, <1>4 DEF IInv

----------------------------------------------------------------------------
\* The server's half of a push.

\* A push that adds nothing to the log refuses only what the log denies: what
\* goes before an event in its batch and speaks for it is stored already.
LEMMA DenialsOfThisLog ==
    ASSUME IInv, NEW B \in SUBSET Written, Admitted(B) \subseteq stored,
           NEW e \in B, e \notin Admitted(B), e \notin denied
    PROVE  ~Attributed(e, stored)
<1> DEFINE bound == (B \cap Bindings) \ stored
           earlier == stored \cup {f \in B : f < e /\ (f \notin Nameless \/ f = cutoff)}
<1>1. e \in Nameless /\ ~Attributed(e, earlier)
  BY DEF Admitted
<1>2. e \in Nat /\ cutoff \in Nat
  BY DEF IInv, TypeOK, Written, Event
<1>3. CASE cutoff \in earlier \ stored
  <2>1. cutoff < e
    BY <1>3
  <2> QED
    BY <1>2, <1>3, <2>1 DEF Attributed
<1>4. CASE cutoff \in stored <=> cutoff \in earlier
  BY <1>1, <1>4 DEF Attributed
<1> QED
  BY <1>3, <1>4

LEMMA ServerPushKeeps == IInv /\ ServerPush => IInv'
<1> SUFFICES ASSUME IInv, ServerPush PROVE IInv'
  OBVIOUS
<1> DEFINE ok == Admitted(push.batch)
           refused == push.batch \ ok
           fresh == ok \ stored
           bound == Bindings \cap fresh
<1>0. /\ push.phase = "sent"
      /\ push' = [push EXCEPT !.phase = "answered", !.refused = refused]
      /\ stored' = stored \cup fresh
      /\ denied' = IF bound = {} THEN denied \cup refused
                   ELSE {e \in refused : \A b \in bound : b < e}
      /\ stale' = (stale \/ Invalidates(fresh))
      /\ UNCHANGED <<authVars, logVars, rowVars, pushed, unseen>>
  BY DEF ServerPush
<1>1. /\ Written' = Written /\ Nameless' = Nameless /\ Bindings' = Bindings
  BY <1>0 DEF Written, Nameless, Bindings, logVars
<1>2. push.batch \in SUBSET Written /\ stored \subseteq Written
  BY DEF IInv, TypeOK
<1>3. ok \subseteq push.batch /\ refused \subseteq Nameless
  BY <1>2, AdmittedFacts
<1> HIDE DEF ok
<1>4. denied' \subseteq denied \cup refused
  BY <1>0
<1>5. TypeOK'
  <2>1. push' \in [phase : {"idle", "sent", "answered", "look", "stamp"},
                   batch : SUBSET Written, refused : SUBSET Written]
    BY <1>0, <1>2 DEF IInv, TypeOK
  <2>2. stored' \subseteq Written /\ denied' \subseteq Nameless /\ stale' \in BOOLEAN
    BY <1>0, <1>2, <1>3, <1>4 DEF IInv, TypeOK, Invalidates
  <2> QED
    BY <1>0, <1>1, <2>1, <2>2 DEF IInv, TypeOK, authVars, logVars, rowVars
<1>6. AnswersAreTrue'
  <2>1. push'.batch = push.batch /\ push'.refused = refused
    BY <1>0 DEF IInv, TypeOK
  <2> QED
    BY <1>0, <1>1, <1>3, <2>1 DEF IInv, AnswersAreTrue, rowVars
<1>7. NoStaleDenial'
  <2> SUFFICES ASSUME ~stale', NEW e \in denied' PROVE ~Attributed(e, stored)'
    BY DEF NoStaleDenial
  <2>1. ~stale /\ fresh = {} /\ stored' = stored
    BY <1>0 DEF Invalidates
  <2>2. ~Attributed(e, stored)
    <3>1. CASE e \in denied
      BY <2>1, <3>1 DEF IInv, NoStaleDenial
    <3>2. CASE e \notin denied
      <4>1. e \in push.batch /\ e \notin ok /\ ok \subseteq stored
        BY <1>4, <2>1, <3>2
      <4> QED
        BY <1>2, <3>2, <4>1, DenialsOfThisLog DEF ok
    <3> QED
      BY <3>1, <3>2
  <2> QED
    BY <1>0, <1>1, <2>1, <2>2 DEF Attributed, logVars
<1> QED
  BY <1>5, <1>6, <1>7 DEF IInv

----------------------------------------------------------------------------
\* The theorems.

LEMMA InitHolds == Init => IInv
<1> SUFFICES ASSUME Init PROVE IInv
  OBVIOUS
<1>1. Written = {} /\ Nameless = {}
  BY DEF Init, Written, Nameless
<1>2. TypeOK
  <2>1. {backoff, wait} \subseteq [Event -> 0..BackoffCap]
    BY BindingAssumption DEF Init
  <2>2. kind \in [Event -> {"none", "anonymous", "lapsed", "named", "binding"}]
    BY DEF Init
  <2>3. push \in [phase : {"idle", "sent", "answered", "look", "stamp"},
                  batch : SUBSET Written, refused : SUBSET Written]
    BY DEF Init, Idle
  <2> QED
    BY <2>1, <2>2, <2>3 DEF Init, TypeOK
<1> QED
  BY <1>2 DEF Init, IInv, AnswersAreTrue, NoStaleDenial, Idle

LEMMA StutterKeeps == IInv /\ UNCHANGED vars => IInv'
  BY DEF IInv, TypeOK, AnswersAreTrue, NoStaleDenial, Attributed, Written, Nameless,
         Bindings, vars, authVars, logVars, rowVars, serverVars

LEMMA NextKeeps == IInv /\ [Next]_vars => IInv'
  BY AppendKeeps, PhoneStepsKeep, BindingKeeps, ReadOutboxKeeps, HandleResponseKeeps,
     LookAgainKeeps, MarkPushDoneKeeps, TickKeeps, CacheKeeps, ServerPushKeeps, StutterKeeps
     DEF Next, Phone, Housekeeping, Transfer

LEMMA Invariant == Spec => []IInv
  BY InitHolds, NextKeeps, PTL DEF Spec

\* Every batch, answer and cached denial is of events that were written, and
\* every wait within the cap of rejectBackoffMs (push.ts).
THEOREM TypeCorrect == Spec => []TypeOK
<1>1. IInv => TypeOK
  BY DEF IInv
<1> QED
  BY <1>1, Invariant, PTL

\* When last_push_at is stamped the server has every row the look before it
\* saw: none of those sits out a backoff, was refused or had its answer lost.
\* Rows that slip in between the two are covered unseen (push.ts, cursor.ts).
THEOREM StampsAreHonest == Spec => HonestStamp
<1>1. IInv => (MarkPushDone => Written \ stored \subseteq unseen')
  BY DEF IInv, AnswersAreTrue, MarkPushDone
<1>2. IInv /\ [Next]_vars => [MarkPushDone => Written \ stored \subseteq unseen']_vars
  BY <1>1
<1> QED
  BY <1>2, Invariant, PTL DEF Spec, HonestStamp

\* But for the moment between a commit and InvalidateVault, no cached denial
\* contradicts the log: no binding and no cutoff leaves one behind.
THEOREM DenialsAreCurrent == Spec => []NoStaleDenial
<1>1. IInv => NoStaleDenial
  BY DEF IInv
<1> QED
  BY <1>1, Invariant, PTL
=============================================================================
