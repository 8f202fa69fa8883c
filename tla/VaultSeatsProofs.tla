-------------------------- MODULE VaultSeatsProofs --------------------------
(***************************************************************************)
(* Proofs about VaultSeats, for any accounts, connections and requests.    *)
(* What a transaction has read stays true until it commits, because of the *)
(* rows it has locked by then: Fine says what each step of each kind of    *)
(* transaction may rely on, and a commit changes nothing that a            *)
(* transaction with other locks relies on.                                 *)
(***************************************************************************)
EXTENDS VaultSeats, FiniteSetTheorems, TLAPS

\* No row is locked twice, but by readers of an account.
Exclusive ==
    \A w, v \in Worker, r \in Row :
        w # v /\ Running(w) /\ Running(v) /\ r \in tx[w].held /\ r \in tx[v].held => Shared(r, w, v)

\* The accounts a request locks first.
Named(t) == {AccountRow(c) : c \in IF t.op = "invite" THEN {t.by} ELSE {t.by, t.of}}

\* The seats come after the kaata; a deletion keeps no such order.
SeatsLast(t) == t.op # "delete" =>
    \A a \in Account : SeatRow(a) \in t.held \cup t.todo => VaultRow \in t.held

FineRequest(t) == t.op \in Change \cup {"push"} =>
    /\ t.step \in {"accounts", "vault", "seats", "owners", "commit"}
    /\ t.op = "push" => t.step \in {"accounts", "vault", "commit"}
    /\ t.step = "accounts" => Named(t) \subseteq t.held \cup t.todo
    /\ t.step # "accounts" => Named(t) \subseteq t.held /\ account[t.by] = "live"
    /\ t.step = "vault" => VaultRow \in t.held \cup t.todo
    /\ t.step \in {"seats", "owners", "commit"} => VaultRow \in t.held /\ ~vault.gone
    /\ t.op = "transfer" => t.by # t.of
    /\ t.op = "role" => t.role \in Role
    /\ t.op = "push" /\ t.step = "commit" => MayPush(t.by)

\* The next owner is an owner, and cannot go before the commit.
Ready(t) ==
    /\ t.heir = vault.owner \/ AccountRow(t.heir) \in t.held \cup t.todo
    /\ ~vault.purged =>
         /\ After(t)[t.heir].state = "active" /\ After(t)[t.heir].role = "owner"
         /\ \/ t.heir = vault.owner
            \/ t.op = "transfer" /\ t.heir = t.of
            \/ Active(t.heir) /\ SeatRow(t.heir) \in t.held

FineChange(t) == t.op \in Change =>
    /\ t.step = "owners" => /\ t.op \in {"archive", "leave", "role", "revoke"}
                            /\ Rows(Owners) \subseteq t.held \cup t.todo
    /\ t.step = "commit" /\ t.op # "archive" => Ready(t)

FinePurge(t) == t.op = "purge" =>
    /\ t.step \in {"scanned", "owner", "commit"}
    /\ t.step # "scanned" => AccountRow(t.by) \in t.held /\ account[t.by] = "live"
    /\ t.step = "commit" => VaultRow \in t.held /\ Due /\ vault.owner = t.by

\* What it has found of the account is still all there is.
FineDelete(t) == t.op = "delete" =>
    /\ t.step \in {"account", "owned", "member", "commit"}
    /\ AccountRow(t.by) \in t.held
    /\ t.step = "owned" => VaultRow \in t.held \cup t.todo
    /\ t.step = "member" => ~Owned(t.by) /\ (Active(t.by) => SeatRow(t.by) \in t.held \cup t.todo)
    /\ t.step = "commit" => \/ VaultRow \in t.held /\ Owned(t.by)
                            \/ ~Owned(t.by) /\ (Active(t.by) => SeatRow(t.by) \in t.held)

Fine(w) == Running(w) =>
    /\ SeatsLast(tx[w]) /\ FineRequest(tx[w]) /\ FineChange(tx[w])
    /\ FinePurge(tx[w]) /\ FineDelete(tx[w])

IInv == TypeOK /\ CanonicalOwns /\ Exclusive /\ \A w \in Worker : Fine(w)

----------------------------------------------------------------------------
LEMMA RowFacts ==
    ASSUME NEW a \in Account, NEW b \in Account
    PROVE  /\ AccountRow(a) \in Row /\ SeatRow(a) \in Row /\ VaultRow \in Row
           /\ AccountRow(a) # SeatRow(b)
           /\ AccountRow(a) # VaultRow
           /\ SeatRow(a) # VaultRow
           /\ AccountRow(a) = AccountRow(b) => a = b
           /\ SeatRow(a) = SeatRow(b) => a = b
PROOF
  <1>1. {a} = {b} => a = b /\ {a} # {}
    OBVIOUS
  <1> QED
    BY <1>1 DEF Row, AccountRow, SeatRow, VaultRow

LEMMA Runs ==
    ASSUME TypeOK, NEW w \in Worker, Running(w)
    PROVE  tx[w] \in Transaction
PROOF
  BY DEF TypeOK, Running

LEMMA TransactionsRun ==
    ASSUME NEW t \in Transaction
    PROVE  t # Idle
PROOF
  <1>1. t.op \in Change \cup {"push", "delete", "purge"}
    BY DEF Transaction
  <1>2. Idle.op = "idle" /\ "idle" \notin Change \cup {"push", "delete", "purge"}
    BY DEF Idle, Change
  <1> QED
    BY <1>1, <1>2

LEMMA FineCarries ==
    ASSUME NEW v \in Worker, NEW s, tx'[v] = s, UNCHANGED stored,
           SeatsLast(s), FineRequest(s), FineChange(s), FinePurge(s), FineDelete(s)
    PROVE  Fine(v)'
PROOF
  <1>2. account' = account /\ seat' = seat /\ vault' = vault
    BY DEF stored
  <1>4. SeatsLast(tx[v])'
    BY DEF SeatsLast
  <1>5. FineRequest(tx[v])'
    BY <1>2 DEF FineRequest, Named, MayPush, Active, IsOwner, Owners
  <1>6. After(tx[v])' = After(s)
    BY <1>2 DEF After
  <1>7. Ready(s) => Ready(tx[v])'
    BY <1>2, <1>6 DEF Ready, Active
  <1>8. FineChange(tx[v])'
    BY <1>2, <1>7 DEF FineChange, Rows, Owners, Active
  <1>9. FinePurge(tx[v])'
    BY <1>2 DEF FinePurge, Due
  <1>10. FineDelete(tx[v])'
    BY <1>2 DEF FineDelete, Owned, Active
  <1> QED
    BY <1>4, <1>5, <1>8, <1>9, <1>10 DEF Fine

LEMMA Local ==
    ASSUME IInv, NEW w \in Worker, UNCHANGED stored, requests' \in Nat,
           tx' \in [Worker -> Transaction \cup {Idle}],
           \A v \in Worker : v # w => tx'[v] = tx[v],
           Fine(w)',
           \A v \in Worker, r \in Row :
              v # w /\ Running(w)' /\ Running(v) /\ r \in tx'[w].held /\ r \in tx[v].held
              => Shared(r, w, v)'
    PROVE  IInv'
PROOF
  <1>1. TypeOK'
    BY DEF IInv, TypeOK, stored
  <1>2. CanonicalOwns'
    BY DEF IInv, CanonicalOwns, Owners, Active, stored
  <1>3. Exclusive'
    <2> SUFFICES ASSUME NEW u \in Worker, NEW v \in Worker, NEW r \in Row, u # v,
                        Running(u)', Running(v)', r \in tx'[u].held, r \in tx'[v].held
                 PROVE  Shared(r, u, v)'
      BY DEF Exclusive
    <2>1. CASE u = w
      BY <2>1 DEF Running
    <2>2. CASE v = w
      BY <2>2 DEF Running, Shared
    <2>3. CASE u # w /\ v # w
      BY <2>3 DEF Running, Shared, IInv, Exclusive
    <2> QED
      BY <2>1, <2>2, <2>3
  <1>4. ASSUME NEW v \in Worker
        PROVE  Fine(v)'
    <2>1. CASE v = w
      BY <2>1
    <2>2. CASE v # w
      <3>1. tx'[v] = tx[v] /\ Fine(v)
        BY <2>2 DEF IInv
      <3>2. CASE Running(v)
        BY <3>1, <3>2, FineCarries DEF Fine
      <3>3. CASE ~Running(v)
        BY <3>1, <3>3 DEF Fine, Running
      <3> QED
        BY <3>2, <3>3
    <2> QED
      BY <2>1, <2>2
  <1> QED
    BY <1>1, <1>2, <1>3, <1>4 DEF IInv

\* Transaction w takes a step of its own: its other fields, and all the rest, stay.
Steps(w, s, rows, has, h) ==
    /\ tx' = [tx EXCEPT ![w].step = s, ![w].todo = rows, ![w].held = has, ![w].heir = h]
    /\ UNCHANGED <<stored, requests>>

LEMMA StepFields ==
    ASSUME TypeOK, NEW w \in Worker, Running(w), NEW s \in Step, NEW rows \in SUBSET Row,
           NEW has \in SUBSET Row, NEW h \in Account, Steps(w, s, rows, has, h)
    PROVE  /\ tx'[w] = [op |-> tx[w].op, by |-> tx[w].by, of |-> tx[w].of, role |-> tx[w].role,
                        step |-> s, todo |-> rows, held |-> has, heir |-> h]
           /\ tx' \in [Worker -> Transaction \cup {Idle}]
           /\ Running(w)'
           /\ \A v \in Worker : v # w => tx'[v] = tx[v]
           /\ requests' \in Nat
PROOF
  <1>1. tx[w] \in Transaction
    BY Runs
  <1>2. tx'[w] = [op |-> tx[w].op, by |-> tx[w].by, of |-> tx[w].of, role |-> tx[w].role,
                  step |-> s, todo |-> rows, held |-> has, heir |-> h]
    BY <1>1 DEF Steps, TypeOK, Transaction
  <1>3. tx'[w] \in Transaction
    BY <1>1, <1>2 DEF Transaction
  <1>4. tx' = [tx EXCEPT ![w] = tx'[w]]
    BY <1>1 DEF Steps, TypeOK
  <1>5. tx' \in [Worker -> Transaction \cup {Idle}] /\ \A v \in Worker : v # w => tx'[v] = tx[v]
    BY <1>3, <1>4 DEF TypeOK
  <1> QED
    BY <1>2, <1>3, <1>5, TransactionsRun DEF Steps, TypeOK, Running

LEMMA StepKeeps ==
    ASSUME IInv, NEW w \in Worker, Running(w), NEW s \in Step, NEW rows \in SUBSET Row,
           NEW has \in SUBSET Row, NEW h \in Account, Steps(w, s, rows, has, h),
           \A r \in has \ tx[w].held : Free(r, w),
           NEW u, u = [op |-> tx[w].op, by |-> tx[w].by, of |-> tx[w].of, role |-> tx[w].role,
                       step |-> s, todo |-> rows, held |-> has, heir |-> h],
           SeatsLast(u), FineRequest(u), FineChange(u), FinePurge(u), FineDelete(u)
    PROVE  IInv'
PROOF
  <1>1. TypeOK
    BY DEF IInv
  <1>f. /\ tx'[w] = [op |-> tx[w].op, by |-> tx[w].by, of |-> tx[w].of, role |-> tx[w].role,
                    step |-> s, todo |-> rows, held |-> has, heir |-> h]
        /\ tx' \in [Worker -> Transaction \cup {Idle}]
        /\ Running(w)'
        /\ \A v \in Worker : v # w => tx'[v] = tx[v]
        /\ requests' \in Nat
    BY <1>1, StepFields
  <1>2. tx'[w].op = tx[w].op /\ tx'[w].held = has
    BY <1>f
  <1>3. ASSUME NEW v \in Worker, NEW r \in Row, v # w, Running(v), r \in has, r \in tx[v].held
        PROVE  Shared(r, w, v)'
    <2>1. tx'[v] = tx[v]
      BY <1>f, <1>3
    <2>2. Shared(r, w, v)
      BY <1>3 DEF IInv, Exclusive, Free
    <2> QED
      BY <2>1, <2>2, <1>2 DEF Shared
  <1>4. UNCHANGED stored
    BY DEF Steps
  <1>5. Fine(w)'
    BY <1>f, <1>4, FineCarries
  <1> QED
    BY <1>f, <1>2, <1>3, <1>4, <1>5, Local

LEMMA RefuseKeeps ==
    ASSUME IInv, NEW w \in Worker, Refuse(w)
    PROVE  IInv'
PROOF
  <1>1. tx'[w] = Idle /\ \A v \in Worker : v # w => tx'[v] = tx[v]
    BY DEF Refuse, End, IInv, TypeOK
  <1>2. tx' \in [Worker -> Transaction \cup {Idle}]
    BY DEF Refuse, End, IInv, TypeOK
  <1>3. Fine(w)' /\ ~Running(w)'
    BY <1>1 DEF Fine, Running
  <1>4. UNCHANGED stored /\ requests' \in Nat
    BY DEF Refuse, IInv, TypeOK
  <1> QED
    BY <1>1, <1>2, <1>3, <1>4, Local

LEMMA GoOnSteps ==
    ASSUME TypeOK, NEW w \in Worker, Running(w), NEW s \in Step, NEW rows \in SUBSET Row,
           GoOn(w, s, rows)
    PROVE  Steps(w, s, rows \ tx[w].held, tx[w].held, tx[w].heir)
PROOF
  <1>1. tx[w] \in Transaction
    BY Runs
  <1>2. tx' = [tx EXCEPT ![w].step = s, ![w].todo = rows \ tx[w].held,
                         ![w].held = tx[w].held, ![w].heir = tx[w].heir]
    BY <1>1 DEF GoOn, TypeOK, Transaction
  <1> QED
    BY <1>2 DEF Steps, GoOn

\* What w relies on, as facts.
LEMMA Relies ==
    ASSUME IInv, NEW w \in Worker, Running(w)
    PROVE  /\ TypeOK
           /\ tx[w] \in Transaction
           /\ SeatsLast(tx[w]) /\ FineRequest(tx[w]) /\ FineChange(tx[w])
           /\ FinePurge(tx[w]) /\ FineDelete(tx[w])
PROOF
  BY Runs DEF IInv, Fine

LEMMA LockKeeps ==
    ASSUME IInv, NEW w \in Worker, Lock(w)
    PROVE  IInv'
PROOF
  <1> DEFINE t == tx[w]
  <1>1. Running(w)
    BY DEF Lock
  <1>2. /\ TypeOK /\ t \in Transaction /\ SeatsLast(t) /\ FineRequest(t)
        /\ FineChange(t) /\ FinePurge(t) /\ FineDelete(t)
    BY <1>1, Relies
  <1>3. PICK r \in t.todo : /\ Free(r, w)
                            /\ tx' = [tx EXCEPT ![w].todo = @ \ {r}, ![w].held = @ \cup {r}]
    BY DEF Lock
  <1>4. /\ t.step \in Step /\ t.todo \subseteq Row /\ t.held \subseteq Row /\ t.heir \in Account
        /\ r \in Row
    BY <1>2 DEF Transaction
  <1>5. Steps(w, t.step, t.todo \ {r}, t.held \cup {r}, t.heir)
    <2>1. [t EXCEPT !.todo = @ \ {r}, !.held = @ \cup {r}]
          = [t EXCEPT !.step = t.step, !.todo = t.todo \ {r}, !.held = t.held \cup {r}, !.heir = t.heir]
      BY <1>2 DEF Transaction
    <2>2. tx' = [tx EXCEPT ![w] = [t EXCEPT !.todo = @ \ {r}, !.held = @ \cup {r}]]
      BY <1>2, <1>3 DEF TypeOK
    <2>3. tx' = [tx EXCEPT ![w].step = t.step, ![w].todo = t.todo \ {r},
                           ![w].held = t.held \cup {r}, ![w].heir = t.heir]
      BY <1>2, <2>1, <2>2 DEF TypeOK
    <2> QED
      BY <2>3 DEF Lock, Steps
  <1> DEFINE u == [op |-> t.op, by |-> t.by, of |-> t.of, role |-> t.role,
                   step |-> t.step, todo |-> t.todo \ {r}, held |-> t.held \cup {r}, heir |-> t.heir]
  <1>6. /\ u.op = t.op /\ u.by = t.by /\ u.of = t.of /\ u.role = t.role
        /\ u.step = t.step /\ u.todo = t.todo \ {r} /\ u.held = t.held \cup {r} /\ u.heir = t.heir
    OBVIOUS
  <1>7. SeatsLast(u) /\ FineRequest(u)
    BY <1>2, <1>3, <1>6 DEF SeatsLast, FineRequest, Named
  <1>8. After(u) = After(t)
    BY <1>6 DEF After
  <1>9. FineChange(u)
    <2>1. Ready(t) => Ready(u)
      BY <1>6, <1>8 DEF Ready
    <2> QED
      BY <1>2, <1>6, <2>1 DEF FineChange
  <1>10. FinePurge(u) /\ FineDelete(u)
    BY <1>2, <1>3, <1>6 DEF FinePurge, FineDelete
  <1>11. \A x \in (t.held \cup {r}) \ t.held : Free(x, w)
    BY <1>3
  <1> HIDE DEF u
  <1> QED
    BY <1>1, <1>4, <1>5, <1>7, <1>9, <1>10, <1>11, StepKeeps DEF u

LEMMA GoOnKeeps ==
    ASSUME IInv, NEW w \in Worker, Running(w), NEW s \in Step, NEW rows \in SUBSET Row,
           GoOn(w, s, rows),
           NEW u, u = [op |-> tx[w].op, by |-> tx[w].by, of |-> tx[w].of, role |-> tx[w].role,
                       step |-> s, todo |-> rows \ tx[w].held, held |-> tx[w].held,
                       heir |-> tx[w].heir],
           SeatsLast(u), FineRequest(u), FineChange(u), FinePurge(u), FineDelete(u)
    PROVE  IInv'
PROOF
  <1>1. TypeOK /\ tx[w] \in Transaction
    BY Relies
  <1>2. tx[w].held \in SUBSET Row /\ rows \ tx[w].held \in SUBSET Row /\ tx[w].heir \in Account
    BY <1>1 DEF Transaction
  <1>3. Steps(w, s, rows \ tx[w].held, tx[w].held, tx[w].heir)
    BY <1>1, GoOnSteps
  <1>4. \A r \in tx[w].held \ tx[w].held : Free(r, w)
    OBVIOUS
  <1> QED
    BY <1>2, <1>3, <1>4, StepKeeps

LEMMA AccountsLockedKeeps ==
    ASSUME IInv, NEW w \in Worker, AccountsLocked(w)
    PROVE  IInv'
PROOF
  <1> DEFINE t == tx[w]
  <1>1. Running(w) /\ t.step = "accounts" /\ t.todo = {}
    BY DEF AccountsLocked, At
  <1>2. /\ TypeOK /\ t \in Transaction /\ SeatsLast(t) /\ FineRequest(t)
        /\ FinePurge(t) /\ FineDelete(t)
    BY <1>1, Relies
  <1>3. CASE account[t.by] = "live"
    <2> DEFINE u == [op |-> t.op, by |-> t.by, of |-> t.of, role |-> t.role, step |-> "vault",
                     todo |-> {VaultRow} \ t.held, held |-> t.held, heir |-> t.heir]
    <2>1. /\ u.op = t.op /\ u.by = t.by /\ u.of = t.of /\ u.step = "vault"
          /\ u.todo = {VaultRow} \ t.held /\ u.held = t.held
      OBVIOUS
    <2>2. t.op \in Change \cup {"push"}
      BY <1>1, <1>2 DEF FinePurge, FineDelete, Transaction
    <2>3. SeatsLast(u)
      BY <1>1, <1>2, <2>1, RowFacts DEF SeatsLast
    <2>4. FineRequest(u)
      BY <1>1, <1>2, <1>3, <2>1, <2>2 DEF FineRequest, Named
    <2>5. FineChange(u) /\ FinePurge(u) /\ FineDelete(u)
      BY <2>1, <2>2 DEF FineChange, FinePurge, FineDelete, Change
    <2>6. GoOn(w, "vault", {VaultRow}) /\ {VaultRow} \in SUBSET Row /\ "vault" \in Step
      BY <1>3 DEF AccountsLocked, Row, Step
    <2> HIDE DEF u
    <2> QED
      BY <1>1, <2>3, <2>4, <2>5, <2>6, GoOnKeeps DEF u
  <1>4. CASE account[t.by] # "live"
    BY <1>4, RefuseKeeps DEF AccountsLocked
  <1> QED
    BY <1>3, <1>4

LEMMA VaultLockedKeeps ==
    ASSUME IInv, NEW w \in Worker, VaultLocked(w)
    PROVE  IInv'
PROOF
  <1> DEFINE t == tx[w]
  <1>1. Running(w) /\ t.step = "vault" /\ t.todo = {}
    BY DEF VaultLocked, At
  <1>2. /\ TypeOK /\ t \in Transaction /\ SeatsLast(t) /\ FineRequest(t)
        /\ FinePurge(t) /\ FineDelete(t)
    BY <1>1, Relies
  <1>3. t.op \in Change \cup {"push"} /\ VaultRow \in t.held
    BY <1>1, <1>2 DEF FineRequest, FinePurge, FineDelete, Transaction
  <1>4. CASE vault.gone \/ (t.op = "push" /\ ~MayPush(t.by))
    BY <1>4, RefuseKeeps DEF VaultLocked
  <1>5. CASE ~vault.gone /\ t.op = "push" /\ MayPush(t.by)
    <2> DEFINE u == [op |-> t.op, by |-> t.by, of |-> t.of, role |-> t.role, step |-> "commit",
                     todo |-> {} \ t.held, held |-> t.held, heir |-> t.heir]
    <2>1. /\ u.op = t.op /\ u.by = t.by /\ u.of = t.of /\ u.step = "commit"
          /\ u.todo = {} /\ u.held = t.held
      OBVIOUS
    <2>2. SeatsLast(u) /\ FineRequest(u)
      BY <1>1, <1>2, <1>3, <1>5, <2>1 DEF SeatsLast, FineRequest, Named
    <2>3. FineChange(u) /\ FinePurge(u) /\ FineDelete(u)
      BY <1>5, <2>1 DEF FineChange, FinePurge, FineDelete, Change
    <2>4. GoOn(w, "commit", {}) /\ {} \in SUBSET Row /\ "commit" \in Step
      BY <1>5 DEF VaultLocked, Step
    <2> HIDE DEF u
    <2> QED
      BY <1>1, <2>2, <2>3, <2>4, GoOnKeeps DEF u
  <1>6. CASE ~vault.gone /\ t.op # "push"
    <2> DEFINE rows == Rows(Found(t))
    <2> DEFINE u == [op |-> t.op, by |-> t.by, of |-> t.of, role |-> t.role, step |-> "seats",
                     todo |-> rows \ t.held, held |-> t.held, heir |-> t.heir]
    <2>1. /\ u.op = t.op /\ u.by = t.by /\ u.of = t.of /\ u.step = "seats"
          /\ u.todo = rows \ t.held /\ u.held = t.held
      OBVIOUS
    <2>2. SeatsLast(u) /\ FineRequest(u)
      BY <1>1, <1>2, <1>3, <1>6, <2>1 DEF SeatsLast, FineRequest, Named
    <2>3. FineChange(u) /\ FinePurge(u) /\ FineDelete(u)
      BY <1>3, <1>6, <2>1 DEF FineChange, FinePurge, FineDelete, Change
    <2>4. GoOn(w, "seats", rows) /\ rows \in SUBSET Row /\ "seats" \in Step
      <3>1. Found(t) \subseteq Account
        BY <1>2 DEF Found, Transaction
      <3> QED
        BY <1>6, <3>1, RowFacts DEF VaultLocked, Rows, Step
    <2> HIDE DEF u, rows
    <2> QED
      BY <1>1, <2>2, <2>3, <2>4, GoOnKeeps DEF u
  <1> QED
    BY <1>4, <1>5, <1>6

\* What a request does to the seats of owners.
LEMMA AfterLosing ==
    ASSUME TypeOK, NEW t \in Transaction, t.op \in {"leave", "role", "revoke"}, NEW a \in Account
    PROVE  /\ a # t.of => After(t)[a] = seat[a]
           /\ t.op = "role" => After(t)[t.of].state = seat[t.of].state /\ After(t)[t.of].role = t.role
           /\ t.op # "role" => After(t)[t.of].state = "revoked"
PROOF
  BY DEF After, TypeOK, Transaction, Seat

LEMMA AfterKeeping ==
    ASSUME TypeOK, NEW t \in Transaction, t.op \in Change \ {"leave", "role", "revoke"}, Permitted(t),
           t.op = "transfer" => t.by # t.of, t.op # "archive"
    PROVE  /\ t.op = "transfer" => After(t)[t.of].state = "active" /\ After(t)[t.of].role = "owner"
           /\ t.op # "transfer" => \A a \in Owners : After(t)[a] = seat[a]
PROOF
  <1>0. t.by \in Account /\ t.of \in Account /\ seat \in [Account -> Seat]
    BY DEF TypeOK, Transaction
  <1>1. CASE t.op = "invite"
    <2>1. seat[t.of].state = "none"
      BY <1>1 DEF Permitted
    <2> QED
      BY <1>0, <1>1, <2>1 DEF After, Owners, Active
  <1>2. CASE t.op = "accept"
    <2>1. seat[t.by].state = "invited"
      BY <1>2 DEF Permitted
    <2> QED
      BY <1>0, <1>2, <2>1 DEF After, Owners, Active
  <1>3. CASE t.op = "transfer"
    <2>1. Active(t.of)
      BY <1>3 DEF Permitted
    <2> QED
      BY <1>0, <1>3, <2>1 DEF After, Active, Seat
  <1>4. CASE t.op = "unarchive"
    BY <1>4 DEF After
  <1> QED
    BY <1>1, <1>2, <1>3, <1>4 DEF Change

LEMMA WriteKeeps ==
    ASSUME IInv, NEW w \in Worker, Running(w), tx[w].step \in {"seats", "owners"},
           tx[w].op \in Change, Write(w),
           tx[w].op # "archive" /\ ~vault.purged =>
              \A h \in Heirs(tx[w]) :
                 /\ After(tx[w])[h].state = "active" /\ After(tx[w])[h].role = "owner"
                 /\ \/ h = vault.owner
                    \/ tx[w].op = "transfer" /\ h = tx[w].of
                    \/ Active(h) /\ SeatRow(h) \in tx[w].held
    PROVE  IInv'
PROOF
  <1> DEFINE t == tx[w]
  <1>2. /\ TypeOK /\ t \in Transaction /\ SeatsLast(t) /\ FineRequest(t)
    BY Relies
  <1>3. PICK h \in Heirs(t) :
           /\ tx' = [tx EXCEPT ![w].step = "commit", ![w].heir = h,
                      ![w].todo = IF h = vault.owner THEN {} ELSE {AccountRow(h)} \ t.held]
           /\ UNCHANGED <<stored, requests>>
    BY DEF Write
  <1>4. h \in Account
    BY <1>2, <1>3 DEF Heirs, TypeOK, Transaction
  <1> DEFINE rows == IF h = vault.owner THEN {} ELSE {AccountRow(h)} \ t.held
  <1> DEFINE u == [op |-> t.op, by |-> t.by, of |-> t.of, role |-> t.role, step |-> "commit",
                   todo |-> rows, held |-> t.held, heir |-> h]
  <1>5. /\ u.op = t.op /\ u.by = t.by /\ u.of = t.of /\ u.role = t.role /\ u.step = "commit"
        /\ u.todo = rows /\ u.held = t.held /\ u.heir = h
    OBVIOUS
  <1>6. rows \in SUBSET Row /\ t.held \in SUBSET Row /\ "commit" \in Step
    BY <1>2, <1>4, RowFacts DEF Transaction, Step
  <1>7. Steps(w, "commit", rows, t.held, h)
    <2>1. tx' = [tx EXCEPT ![w] = [t EXCEPT !.step = "commit", !.heir = h, !.todo = rows]]
      BY <1>3
    <2>2. [t EXCEPT !.step = "commit", !.heir = h, !.todo = rows]
             = [t EXCEPT !.step = "commit", !.todo = rows, !.held = t.held, !.heir = h]
      BY <1>2 DEF Transaction
    <2>3. tx' = [tx EXCEPT ![w] = [t EXCEPT !.step = "commit", !.todo = rows, !.held = t.held, !.heir = h]]
      BY <2>1, <2>2, Zenon
    <2> HIDE DEF rows
    <2> QED
      BY <1>3, <2>3 DEF Steps
  <1>8. VaultRow \in t.held
    BY <1>2 DEF FineRequest
  <1>9. SeatsLast(u)
    BY <1>5, <1>8 DEF SeatsLast
  <1>10. FineRequest(u)
    <2>1. Named(u) = Named(t)
      BY <1>5 DEF Named
    <2>2. t.op # "push"
      BY DEF Change
    <2>3. Named(t) \subseteq t.held /\ account[t.by] = "live" /\ ~vault.gone
          /\ (t.op = "transfer" => t.by # t.of) /\ (t.op = "role" => t.role \in Role)
      BY <1>2 DEF FineRequest
    <2> QED
      BY <1>5, <1>8, <2>1, <2>2, <2>3 DEF FineRequest
  <1>11. After(u) = After(t)
    BY <1>5 DEF After
  <1>12. FineChange(u)
    BY <1>3, <1>4, <1>5, <1>11 DEF FineChange, Ready
  <1>13. FinePurge(u) /\ FineDelete(u)
    BY <1>5 DEF FinePurge, FineDelete, Change
  <1>14. \A r \in t.held \ t.held : Free(r, w)
    OBVIOUS
  <1> HIDE DEF u, rows
  <1>15. u = [op |-> tx[w].op, by |-> tx[w].by, of |-> tx[w].of, role |-> tx[w].role,
              step |-> "commit", todo |-> rows, held |-> tx[w].held, heir |-> h]
    BY DEF u
  <1> QED
    BY <1>4, <1>6, <1>7, <1>9, <1>10, <1>12, <1>13, <1>14, <1>15, StepKeeps

LEMMA SeatsLockedKeeps ==
    ASSUME IInv, NEW w \in Worker, SeatsLocked(w)
    PROVE  IInv'
PROOF
  <1> DEFINE t == tx[w]
  <1>1. Running(w) /\ t.step = "seats" /\ t.todo = {}
    BY DEF SeatsLocked, At
  <1>2. /\ TypeOK /\ t \in Transaction /\ SeatsLast(t) /\ FineRequest(t)
        /\ FinePurge(t) /\ FineDelete(t)
    BY <1>1, Relies
  <1>3. /\ t.op \in Change /\ VaultRow \in t.held /\ ~vault.gone
        /\ t.op = "transfer" => t.by # t.of
    BY <1>1, <1>2 DEF FineRequest, FinePurge, FineDelete, Transaction
  <1>4. CASE ~Permitted(t)
    BY <1>4, RefuseKeeps DEF SeatsLocked
  <1>5. CASE Permitted(t) /\ (t.op = "archive" \/ DropsOwner(t))
    <2> DEFINE rows == Rows(Owners)
    <2> DEFINE u == [op |-> t.op, by |-> t.by, of |-> t.of, role |-> t.role, step |-> "owners",
                     todo |-> rows \ t.held, held |-> t.held, heir |-> t.heir]
    <2>1. /\ u.op = t.op /\ u.by = t.by /\ u.of = t.of /\ u.step = "owners"
          /\ u.todo = rows \ t.held /\ u.held = t.held
      OBVIOUS
    <2>2. SeatsLast(u) /\ FineRequest(u)
      BY <1>1, <1>2, <1>3, <2>1 DEF SeatsLast, FineRequest, Named, Change
    <2>3. FineChange(u)
      BY <1>5, <2>1 DEF FineChange, DropsOwner
    <2>4. FinePurge(u) /\ FineDelete(u)
      BY <1>3, <2>1 DEF FinePurge, FineDelete, Change
    <2>5. GoOn(w, "owners", rows) /\ rows \in SUBSET Row /\ "owners" \in Step
      BY <1>5, RowFacts DEF SeatsLocked, Rows, Owners, Step
    <2> HIDE DEF u, rows
    <2>6. u = [op |-> tx[w].op, by |-> tx[w].by, of |-> tx[w].of, role |-> tx[w].role, step |-> "owners",
               todo |-> rows \ tx[w].held, held |-> tx[w].held, heir |-> tx[w].heir]
      BY DEF u
    <2> QED
      BY <1>1, <2>2, <2>3, <2>4, <2>5, <2>6, GoOnKeeps
  <1>6. CASE Permitted(t) /\ t.op # "archive" /\ ~DropsOwner(t)
    <2>1. ASSUME ~vault.purged, NEW h \in Heirs(t)
          PROVE  /\ After(t)[h].state = "active" /\ After(t)[h].role = "owner"
                 /\ h = vault.owner \/ (t.op = "transfer" /\ h = t.of)
      <3>1. vault.owner \in Owners /\ vault.owner \in Account
        BY <1>2, <1>3, <2>1 DEF IInv, CanonicalOwns, TypeOK
      <3>2. seat[vault.owner].state = "active" /\ seat[vault.owner].role = "owner"
        BY <3>1 DEF Owners, Active
      <3>3. CASE t.op \in {"leave", "role", "revoke"}
        <4>1. After(t)[vault.owner].state = "active" /\ After(t)[vault.owner].role = "owner"
          BY <1>2, <1>6, <3>1, <3>2, <3>3, AfterLosing DEF DropsOwner, IsOwner
        <4>2. h = vault.owner
          BY <2>1, <3>1, <3>3, <4>1 DEF Heirs
        <4> QED
          BY <4>1, <4>2
      <3>4. CASE t.op = "transfer"
        <4>1. h = t.of
          BY <2>1, <3>4 DEF Heirs
        <4> QED
          BY <1>2, <1>3, <1>6, <3>4, <4>1, AfterKeeping
      <3>5. CASE t.op \notin {"leave", "role", "revoke", "transfer"}
        <4>1. h = vault.owner
          BY <2>1, <3>5 DEF Heirs
        <4>2. After(t)[vault.owner] = seat[vault.owner]
          BY <1>2, <1>3, <1>6, <3>1, <3>5, AfterKeeping
        <4> QED
          BY <3>2, <4>1, <4>2
      <3> QED
        BY <3>3, <3>4, <3>5
    <2>2. Write(w)
      BY <1>6 DEF SeatsLocked
    <2> QED
      BY <1>1, <1>3, <2>1, <2>2, WriteKeeps
  <1> QED
    BY <1>4, <1>5, <1>6

LEMMA OwnersLockedKeeps ==
    ASSUME IInv, NEW w \in Worker, OwnersLocked(w)
    PROVE  IInv'
PROOF
  <1> DEFINE t == tx[w]
  <1>1. Running(w) /\ t.step = "owners" /\ t.todo = {}
    BY DEF OwnersLocked, At
  <1>2. /\ TypeOK /\ t \in Transaction /\ FineRequest(t) /\ FineChange(t)
        /\ FinePurge(t) /\ FineDelete(t)
    BY <1>1, Relies
  <1>3. t.op \in Change /\ ~vault.gone
    BY <1>1, <1>2 DEF FineRequest, FinePurge, FineDelete, Transaction
  <1>4. t.op \in {"archive", "leave", "role", "revoke"} /\ Rows(Owners) \subseteq t.held
    BY <1>1, <1>2, <1>3 DEF FineChange
  <1>5. CASE DropsOwner(t) /\ Owners \subseteq {t.of}
    BY <1>5, RefuseKeeps DEF OwnersLocked
  <1>6. CASE ~(DropsOwner(t) /\ Owners \subseteq {t.of})
    <2>1. ASSUME ~vault.purged, t.op # "archive", NEW h \in Heirs(t)
          PROVE  /\ After(t)[h].state = "active" /\ After(t)[h].role = "owner"
                 /\ h = vault.owner \/ (Active(h) /\ SeatRow(h) \in t.held)
      <3> DEFINE left == {a \in Account : After(t)[a].state = "active" /\ After(t)[a].role = "owner"}
      <3>0. vault.owner \in Owners /\ vault.owner \in Account /\ t.of \in Account
        BY <1>2, <1>3, <2>1 DEF IInv, CanonicalOwns, TypeOK, Transaction
      <3>1. t.op \in {"leave", "role", "revoke"}
        BY <1>4, <2>1
      <3>2. CASE vault.owner \in left
        BY <2>1, <3>1, <3>2 DEF Heirs
      <3>3. CASE vault.owner \notin left
        <4>1. DropsOwner(t)
          <5> SUFFICES ASSUME ~DropsOwner(t) PROVE FALSE
            OBVIOUS
          <5>1. After(t)[vault.owner].state = "active" /\ After(t)[vault.owner].role = "owner"
            BY <1>2, <3>0, <3>1, AfterLosing DEF DropsOwner, IsOwner, Owners, Active
          <5> QED
            BY <3>0, <3>3, <5>1
        <4>2. PICK c \in Owners : c # t.of
          BY <1>6, <4>1
        <4>3. c \in left
          BY <1>2, <3>1, <4>2, AfterLosing DEF Owners, Active
        <4>4. h \in left
          BY <2>1, <3>1, <3>3, <4>3 DEF Heirs
        <4>5. h # t.of
          BY <1>2, <3>0, <3>1, <4>1, <4>4, AfterLosing DEF DropsOwner
        <4>6. h \in Owners
          BY <1>2, <3>1, <4>4, <4>5, AfterLosing DEF Owners, Active
        <4> QED
          BY <1>4, <4>4, <4>6 DEF Rows, Owners
      <3> QED
        BY <3>2, <3>3
    <2>2. Write(w)
      BY <1>6 DEF OwnersLocked
    <2> QED
      BY <1>1, <1>3, <2>1, <2>2, WriteKeeps
  <1> QED
    BY <1>5, <1>6

\* The first two statements of a deletion, and the third.
LEMMA DeletionKeeps ==
    ASSUME IInv, NEW w \in Worker, FindOwned(w) \/ DeleteOwned(w) \/ DeleteSeat(w)
    PROVE  IInv'
PROOF
  <1> DEFINE t == tx[w]
  <1>1. Running(w) /\ t.step \in {"account", "owned", "member"} /\ t.todo = {}
    BY DEF FindOwned, DeleteOwned, DeleteSeat, At
  <1>2. /\ TypeOK /\ t \in Transaction /\ SeatsLast(t) /\ FineRequest(t)
        /\ FineChange(t) /\ FinePurge(t) /\ FineDelete(t)
    BY <1>1, Relies
  <1>3. t.op = "delete" /\ t.by \in Account
    BY <1>1, <1>2 DEF FineRequest, FinePurge, Transaction
  <1>4. ASSUME NEW s \in {"owned", "member", "commit"}, NEW rows \in SUBSET Row, GoOn(w, s, rows),
               s = "owned" => VaultRow \in rows,
               s = "member" => ~Owned(t.by) /\ (Active(t.by) => SeatRow(t.by) \in rows),
               s = "commit" => \/ VaultRow \in t.held /\ Owned(t.by)
                               \/ ~Owned(t.by) /\ (Active(t.by) => SeatRow(t.by) \in t.held)
        PROVE  IInv'
    <2> DEFINE u == [op |-> t.op, by |-> t.by, of |-> t.of, role |-> t.role, step |-> s,
                     todo |-> rows \ t.held, held |-> t.held, heir |-> t.heir]
    <2>1. /\ u.op = t.op /\ u.by = t.by /\ u.step = s /\ u.todo = rows \ t.held /\ u.held = t.held
      OBVIOUS
    <2>2. SeatsLast(u) /\ FineRequest(u) /\ FineChange(u) /\ FinePurge(u)
      BY <1>3, <2>1 DEF SeatsLast, FineRequest, FineChange, FinePurge, Change
    <2>3. AccountRow(t.by) \in t.held
      BY <1>2, <1>3 DEF FineDelete
    <2>4. FineDelete(u)
      BY <1>4, <2>1, <2>3 DEF FineDelete
    <2>5. s \in Step
      BY DEF Step
    <2> HIDE DEF u
    <2>6. u = [op |-> tx[w].op, by |-> tx[w].by, of |-> tx[w].of, role |-> tx[w].role, step |-> s,
               todo |-> rows \ tx[w].held, held |-> tx[w].held, heir |-> tx[w].heir]
      BY DEF u
    <2> QED
      BY <1>1, <1>4, <2>2, <2>4, <2>5, <2>6, GoOnKeeps
  <1>5. Rows(OwnRow(t.by)) \subseteq Row /\ (Active(t.by) => SeatRow(t.by) \in Rows(OwnRow(t.by)))
    BY <1>3, RowFacts DEF Rows, OwnRow, Active
  <1>6. Rows(Kept) \subseteq Row
    BY RowFacts DEF Rows, Kept
  <1>7. CASE t.step \in {"account", "owned"} /\ ~Owned(t.by)
    <2>1. GoOn(w, "member", Rows(OwnRow(t.by)))
      BY <1>1, <1>7 DEF FindOwned, DeleteOwned, DeleteSeat, At
    <2> QED
      BY <1>4, <1>5, <1>7, <2>1
  <1>8. CASE t.step = "account" /\ Owned(t.by)
    <2>1. GoOn(w, "owned", {VaultRow}) /\ {VaultRow} \in SUBSET Row
      BY <1>8 DEF FindOwned, DeleteOwned, DeleteSeat, At, Row
    <2> QED
      BY <1>4, <2>1
  <1>9. CASE t.step = "owned" /\ Owned(t.by)
    <2>1. GoOn(w, "commit", Rows(Kept))
      BY <1>9 DEF FindOwned, DeleteOwned, DeleteSeat, At
    <2>2. VaultRow \in t.held
      BY <1>1, <1>2, <1>3, <1>9 DEF FineDelete
    <2> QED
      BY <1>4, <1>6, <1>9, <2>1, <2>2
  <1>10. CASE t.step = "member"
    <2> DEFINE rows == Rows({a \in Kept : t.by \in seat[a].invitedBy})
    <2>1. GoOn(w, "commit", rows) /\ rows \in SUBSET Row
      BY <1>6, <1>10 DEF FindOwned, DeleteOwned, DeleteSeat, At, Rows
    <2>2. ~Owned(t.by) /\ (Active(t.by) => SeatRow(t.by) \in t.held)
      BY <1>1, <1>2, <1>3, <1>10 DEF FineDelete
    <2> HIDE DEF rows
    <2> QED
      BY <1>4, <2>1, <2>2
  <1> QED
    BY <1>1, <1>7, <1>8, <1>9, <1>10

LEMMA PurgeOwnerKeeps ==
    ASSUME IInv, NEW w \in Worker, PurgeOwner(w)
    PROVE  IInv'
PROOF
  <1> DEFINE t == tx[w]
  <1> DEFINE r == AccountRow(t.by)
  <1>1. Running(w) /\ t.step = "scanned" /\ t.todo = {}
    BY DEF PurgeOwner, At
  <1>2. /\ TypeOK /\ t \in Transaction /\ FineRequest(t) /\ FineDelete(t)
    BY <1>1, Relies
  <1>3. t.op = "purge" /\ t.by \in Account /\ t.heir \in Account
    BY <1>1, <1>2 DEF FineRequest, FineDelete, Transaction
  <1>4. CASE Free(r, w) /\ account[t.by] = "live"
    <2> DEFINE u == [op |-> t.op, by |-> t.by, of |-> t.of, role |-> t.role, step |-> "owner",
                     todo |-> {}, held |-> {r}, heir |-> t.heir]
    <2>1. u.op = t.op /\ u.by = t.by /\ u.step = "owner" /\ u.todo = {} /\ u.held = {r}
      OBVIOUS
    <2>2. Steps(w, "owner", {}, {r}, t.heir)
      <3>1. tx' = [tx EXCEPT ![w].step = "owner", ![w].todo = {}, ![w].held = {r}, ![w].heir = t.heir]
        <4> HIDE DEF r
        <4>1. tx' = [tx EXCEPT ![w] = [t EXCEPT !.step = "owner", !.held = {r}]]
          BY <1>2, <1>4 DEF PurgeOwner, TypeOK, r
        <4>2. [t EXCEPT !.step = "owner", !.held = {r}]
              = [t EXCEPT !.step = "owner", !.todo = {}, !.held = {r}, !.heir = t.heir]
          BY <1>1, <1>2 DEF Transaction
        <4> QED
          BY <1>2, <4>1, <4>2 DEF TypeOK
      <3> QED
        BY <1>4, <3>1 DEF PurgeOwner, Steps
    <2>3. SeatsLast(u)
      BY <1>3, <2>1, RowFacts DEF SeatsLast
    <2>4. FineRequest(u) /\ FineChange(u) /\ FinePurge(u) /\ FineDelete(u)
      BY <1>3, <1>4, <2>1 DEF FineRequest, FineChange, FinePurge, FineDelete, Change
    <2>5. "owner" \in Step /\ {r} \in SUBSET Row /\ {} \in SUBSET Row
      BY <1>3, RowFacts DEF Step
    <2>6. \A x \in {r} \ t.held : Free(x, w)
      BY <1>4
    <2> HIDE DEF u
    <2>7. u = [op |-> tx[w].op, by |-> tx[w].by, of |-> tx[w].of, role |-> tx[w].role, step |-> "owner",
               todo |-> {}, held |-> {r}, heir |-> tx[w].heir]
      BY DEF u
    <2> HIDE DEF r
    <2> QED
      BY <1>1, <1>3, <2>2, <2>3, <2>4, <2>5, <2>6, <2>7, StepKeeps
  <1>5. CASE ~(Free(r, w) /\ account[t.by] = "live")
    BY <1>5, RefuseKeeps DEF PurgeOwner
  <1> QED
    BY <1>4, <1>5

LEMMA PurgeVaultKeeps ==
    ASSUME IInv, NEW w \in Worker, PurgeVault(w)
    PROVE  IInv'
PROOF
  <1> DEFINE t == tx[w]
  <1>1. Running(w) /\ t.step = "owner" /\ t.todo = {}
    BY DEF PurgeVault, At
  <1>2. /\ TypeOK /\ t \in Transaction /\ FineRequest(t) /\ FinePurge(t) /\ FineDelete(t)
    BY <1>1, Relies
  <1>3. t.op = "purge" /\ t.held \subseteq Row /\ t.heir \in Account
    BY <1>1, <1>2 DEF FineRequest, FineDelete, Transaction
  <1>4. CASE Free(VaultRow, w) /\ Due /\ vault.owner = t.by
    <2> DEFINE rows == Rows({a \in Kept : seat[a].state # "revoked"})
    <2> DEFINE has == t.held \cup {VaultRow}
    <2> DEFINE u == [op |-> t.op, by |-> t.by, of |-> t.of, role |-> t.role, step |-> "commit",
                     todo |-> rows, held |-> has, heir |-> t.heir]
    <2>1. u.op = t.op /\ u.by = t.by /\ u.step = "commit" /\ u.todo = rows /\ u.held = has
      OBVIOUS
    <2>2. Steps(w, "commit", rows, has, t.heir)
      <3>1. tx' = [tx EXCEPT ![w].step = "commit", ![w].held = has, ![w].todo = rows]
        BY <1>2, <1>4 DEF PurgeVault, TypeOK, Transaction
      <3>2. tx' = [tx EXCEPT ![w].step = "commit", ![w].todo = rows, ![w].held = has, ![w].heir = t.heir]
        <4> HIDE DEF rows, has
        <4> QED
          BY <1>2, <3>1 DEF TypeOK, Transaction
      <3> QED
        BY <1>4, <3>2 DEF PurgeVault, Steps
    <2>3. SeatsLast(u)
      BY <2>1 DEF SeatsLast
    <2>4. FineRequest(u) /\ FineChange(u) /\ FineDelete(u)
      BY <1>3, <2>1 DEF FineRequest, FineChange, FineDelete, Change
    <2>5. FinePurge(u)
      BY <1>1, <1>2, <1>3, <1>4, <2>1 DEF FinePurge
    <2>6. "commit" \in Step /\ has \in SUBSET Row /\ rows \in SUBSET Row
      BY <1>3, RowFacts DEF Step, Rows, Kept, Row
    <2>7. \A x \in has \ t.held : Free(x, w)
      BY <1>4
    <2> HIDE DEF u, has, rows
    <2>8. u = [op |-> tx[w].op, by |-> tx[w].by, of |-> tx[w].of, role |-> tx[w].role, step |-> "commit",
               todo |-> rows, held |-> has, heir |-> tx[w].heir]
      BY DEF u
    <2> QED
      BY <1>1, <1>3, <2>2, <2>3, <2>4, <2>5, <2>6, <2>7, <2>8, StepKeeps
  <1>5. CASE ~(Free(VaultRow, w) /\ Due /\ vault.owner = t.by)
    BY <1>5, RefuseKeeps DEF PurgeVault
  <1> QED
    BY <1>4, <1>5

LEMMA StartKeeps ==
    ASSUME IInv, NEW w \in Worker, NEW u \in Transaction, tx' = [tx EXCEPT ![w] = u],
           UNCHANGED stored, requests' \in Nat,
           \A v \in Worker : v # w /\ Running(v) => u.held \cap tx[v].held = {},
           SeatsLast(u), FineRequest(u), FineChange(u), FinePurge(u), FineDelete(u)
    PROVE  IInv'
PROOF
  <1>1. tx \in [Worker -> Transaction \cup {Idle}]
    BY DEF IInv, TypeOK
  <1>2. tx'[w] = u /\ tx' \in [Worker -> Transaction \cup {Idle}]
        /\ \A v \in Worker : v # w => tx'[v] = tx[v]
    BY <1>1
  <1>3. Fine(w)'
    BY <1>2, FineCarries
  <1>4. \A v \in Worker, r \in Row :
           v # w /\ Running(w)' /\ Running(v) /\ r \in tx'[w].held /\ r \in tx[v].held
           => Shared(r, w, v)'
    BY <1>2
  <1> QED
    BY <1>2, <1>3, <1>4, Local

LEMMA BeginKeeps ==
    ASSUME IInv, NEW w \in Worker, NEW op \in Change \cup {"push"}, NEW a \in Account,
           NEW b \in Account, NEW r \in Role \cup {"leave"}, Begin(w, op, a, b, r),
           op = "transfer" => a # b, op = "role" => r \in Role
    PROVE  IInv'
PROOF
  <1> DEFINE rows == {AccountRow(c) : c \in IF op = "invite" THEN {a} ELSE {a, b}}
  <1> DEFINE u == [op |-> op, by |-> a, of |-> b, role |-> r, step |-> "accounts",
                   todo |-> rows, held |-> {}, heir |-> a]
  <1>1. /\ u.op = op /\ u.by = a /\ u.of = b /\ u.step = "accounts" /\ u.todo = rows /\ u.held = {}
    OBVIOUS
  <1>2. rows \subseteq Row
    BY RowFacts
  <1>3. u \in Transaction
    BY <1>2 DEF Transaction, Step
  <1>4. SeatsLast(u)
    BY <1>1, RowFacts DEF SeatsLast
  <1>5. Named(u) = rows
    BY <1>1 DEF Named
  <1>6. FineRequest(u)
    BY <1>1, <1>5 DEF FineRequest
  <1>7. FineChange(u) /\ FinePurge(u) /\ FineDelete(u)
    BY <1>1 DEF FineChange, FinePurge, FineDelete, Change
  <1>8. tx' = [tx EXCEPT ![w] = u] /\ UNCHANGED stored /\ requests' \in Nat
    BY DEF Begin, IInv, TypeOK
  <1> HIDE DEF u
  <1>9. \A v \in Worker : v # w /\ Running(v) => u.held \cap tx[v].held = {}
    BY <1>1
  <1> QED
    BY <1>3, <1>4, <1>6, <1>7, <1>8, <1>9, StartKeeps

LEMMA RequestKeeps ==
    ASSUME IInv, NEW w \in Worker,
           \/ Invite(w) \/ Accept(w) \/ Leave(w) \/ Transfer(w) \/ SetRole(w) \/ Revoke(w)
           \/ Archive(w) \/ Unarchive(w) \/ Push(w)
    PROVE  IInv'
PROOF
  <1>1. "editor" \in Role \cup {"leave"} /\ "leave" \in Role \cup {"leave"}
    BY DEF Role
  <1>2. PICK op \in Change \cup {"push"}, a \in Account, b \in Account, r \in Role \cup {"leave"} :
           Begin(w, op, a, b, r) /\ (op = "transfer" => a # b) /\ (op = "role" => r \in Role)
    <2>1. CASE Invite(w)
      BY <1>1, <2>1 DEF Invite, Change
    <2>2. CASE Accept(w)
      BY <1>1, <2>2 DEF Accept, Change
    <2>3. CASE Leave(w)
      BY <1>1, <2>3 DEF Leave, Change
    <2>4. CASE Transfer(w)
      BY <1>1, <2>4 DEF Transfer, Change
    <2>5. CASE SetRole(w)
      BY <1>1, <2>5 DEF SetRole, Change
    <2>6. CASE Revoke(w)
      BY <1>1, <2>6 DEF Revoke, Change
    <2>7. CASE Archive(w)
      BY <1>1, <2>7 DEF Archive, Change
    <2>8. CASE Unarchive(w)
      BY <1>1, <2>8 DEF Unarchive, Change
    <2>9. CASE Push(w)
      BY <1>1, <2>9 DEF Push, Change
    <2> QED
      BY <2>1, <2>2, <2>3, <2>4, <2>5, <2>6, <2>7, <2>8, <2>9
  <1> QED
    BY <1>2, BeginKeeps

LEMMA CronKeeps ==
    ASSUME IInv, NEW w \in Worker, Delete(w) \/ Purge(w)
    PROVE  IInv'
PROOF
  <1>1. CASE Delete(w)
    <2>1. PICK a \in Account :
             /\ Untouched(AccountRow(a))
             /\ tx' = [tx EXCEPT ![w] =
                  [op |-> "delete", by |-> a, of |-> a, role |-> "editor", step |-> "account",
                   todo |-> {}, held |-> {AccountRow(a)}, heir |-> a]]
             /\ UNCHANGED <<stored, requests>>
      BY <1>1 DEF Delete
    <2> DEFINE u == [op |-> "delete", by |-> a, of |-> a, role |-> "editor", step |-> "account",
                     todo |-> {}, held |-> {AccountRow(a)}, heir |-> a]
    <2>2. u.op = "delete" /\ u.by = a /\ u.step = "account" /\ u.held = {AccountRow(a)}
      OBVIOUS
    <2>3. u \in Transaction
      BY RowFacts DEF Transaction, Step, Role
    <2>4. SeatsLast(u) /\ FineRequest(u) /\ FineChange(u) /\ FinePurge(u) /\ FineDelete(u)
      BY <2>2 DEF SeatsLast, FineRequest, FineChange, FinePurge, FineDelete, Change
    <2>5. \A v \in Worker : v # w /\ Running(v) => u.held \cap tx[v].held = {}
      BY <2>1, <2>2 DEF Untouched
    <2>6. requests' \in Nat
      BY <2>1 DEF IInv, TypeOK
    <2>7. tx' = [tx EXCEPT ![w] = u] /\ UNCHANGED stored
      BY <2>1
    <2> HIDE DEF u
    <2> QED
      BY <2>3, <2>4, <2>5, <2>6, <2>7, StartKeeps
  <1>2. CASE Purge(w)
    <2> DEFINE a == vault.owner
    <2> DEFINE u == [op |-> "purge", by |-> a, of |-> a, role |-> "editor", step |-> "scanned",
                     todo |-> {}, held |-> {}, heir |-> a]
    <2>2. u.op = "purge" /\ u.by = a /\ u.step = "scanned" /\ u.held = {} /\ u.todo = {}
      OBVIOUS
    <2>3. a \in Account
      BY DEF IInv, TypeOK
    <2>4. u \in Transaction
      BY <2>3 DEF Transaction, Step, Role
    <2>5. SeatsLast(u) /\ FineRequest(u) /\ FineChange(u) /\ FinePurge(u) /\ FineDelete(u)
      BY <2>2 DEF SeatsLast, FineRequest, FineChange, FinePurge, FineDelete, Change
    <2>6. requests' \in Nat /\ tx' = [tx EXCEPT ![w] = u] /\ UNCHANGED stored
      BY <1>2 DEF Purge, IInv, TypeOK
    <2> HIDE DEF u
    <2>7. \A v \in Worker : v # w /\ Running(v) => u.held \cap tx[v].held = {}
      BY <2>2
    <2> QED
      BY <2>4, <2>5, <2>6, <2>7, StartKeeps
  <1> QED
    BY <1>1, <1>2

----------------------------------------------------------------------------
\* Commits.

LEMMA VaultIsExclusive ==
    ASSUME IInv, NEW w \in Worker, NEW v \in Worker, v # w, Running(w), Running(v),
           VaultRow \in tx[w].held
    PROVE  VaultRow \notin tx[v].held
PROOF
  <1>1. VaultRow \in Row
    BY DEF Row
  <1>2. ~Shared(VaultRow, w, v)
    BY RowFacts DEF Shared
  <1> QED
    BY <1>1, <1>2 DEF IInv, Exclusive

\* The accounts row a deletion holds, nobody else does.
LEMMA DeletedIsExclusive ==
    ASSUME IInv, NEW w \in Worker, NEW v \in Worker, v # w, Running(w), Running(v),
           tx[w].op = "delete" \/ tx[v].op = "delete", NEW a \in Account,
           AccountRow(a) \in tx[w].held
    PROVE  AccountRow(a) \notin tx[v].held
PROOF
  <1>1. AccountRow(a) \in Row
    BY RowFacts
  <1>2. ~Shared(AccountRow(a), w, v)
    BY DEF Shared
  <1> QED
    BY <1>1, <1>2 DEF IInv, Exclusive

LEMMA SeatIsExclusive ==
    ASSUME IInv, NEW w \in Worker, NEW v \in Worker, v # w, Running(w), Running(v),
           NEW a \in Account, SeatRow(a) \in tx[w].held
    PROVE  SeatRow(a) \notin tx[v].held
PROOF
  <1>1. SeatRow(a) \in Row
    BY RowFacts
  <1>2. ~Shared(SeatRow(a), w, v)
    BY RowFacts DEF Shared
  <1> QED
    BY <1>1, <1>2 DEF IInv, Exclusive

LEMMA EndFacts ==
    ASSUME IInv, NEW w \in Worker, End(w)
    PROVE  /\ tx' \in [Worker -> Transaction \cup {Idle}]
           /\ ~Running(w)'
           /\ \A v \in Worker : v # w => tx'[v] = tx[v] /\ (Running(v)' <=> Running(v))
           /\ Exclusive'
PROOF
  <1>1. tx \in [Worker -> Transaction \cup {Idle}]
    BY DEF IInv, TypeOK
  <1>2. tx'[w] = Idle /\ \A v \in Worker : v # w => tx'[v] = tx[v]
    BY <1>1 DEF End
  <1>3. tx' \in [Worker -> Transaction \cup {Idle}]
    BY <1>1 DEF End
  <1>4. ~Running(w)' /\ \A v \in Worker : v # w => (Running(v)' <=> Running(v))
    BY <1>2 DEF Running
  <1>5. Exclusive'
    <2> SUFFICES ASSUME NEW u \in Worker, NEW v \in Worker, NEW r \in Row, u # v,
                        Running(u)', Running(v)', r \in tx'[u].held, r \in tx'[v].held
                 PROVE  Shared(r, u, v)'
      BY DEF Exclusive
    <2>1. u # w /\ v # w
      BY <1>4
    <2> QED
      BY <1>2, <1>4, <2>1 DEF Shared, IInv, Exclusive
  <1> QED
    BY <1>2, <1>3, <1>4, <1>5

\* A transaction without the lock of the kaata relies on accounts it has
\* locked, and, if it is a deletion, on what the account has not.
LEMMA WithoutVault ==
    ASSUME IInv, NEW v \in Worker, Running(v), tx'[v] = tx[v], VaultRow \notin tx[v].held,
           \A c \in Account : AccountRow(c) \in tx[v].held /\ account[c] = "live" => account'[c] = "live",
           tx[v].op = "delete" =>
              /\ Owned(tx[v].by)' => Owned(tx[v].by)
              /\ Active(tx[v].by)' => Active(tx[v].by)
    PROVE  Fine(v)'
PROOF
  <1> DEFINE s == tx[v]
  <1>1. /\ s \in Transaction /\ SeatsLast(s) /\ FineRequest(s)
        /\ FineChange(s) /\ FinePurge(s) /\ FineDelete(s)
    BY Relies
  <1>2. s.by \in Account /\ s.of \in Account
    BY <1>1 DEF Transaction
  <1>4. SeatsLast(tx[v])'
    BY <1>1 DEF SeatsLast
  <1>5. FineRequest(tx[v])'
    <2> SUFFICES ASSUME s.op \in Change \cup {"push"}
                 PROVE  FineRequest(tx[v])'
      BY DEF FineRequest
    <2>1. s.step \in {"accounts", "vault"}
      BY <1>1 DEF FineRequest
    <2>2. Named(tx[v])' = Named(s)
      BY DEF Named
    <2>3. s.step # "accounts" => account'[s.by] = "live"
      <3>1. AccountRow(s.by) \in Named(s)
        BY DEF Named
      <3> QED
        BY <1>1, <1>2, <3>1 DEF FineRequest
    <2> QED
      BY <1>1, <2>1, <2>2, <2>3 DEF FineRequest
  <1>6. FineChange(tx[v])'
    <2>1. s.op \in Change => s.step \in {"accounts", "vault"}
      BY <1>1 DEF FineRequest
    <2> QED
      BY <2>1 DEF FineChange
  <1>7. FinePurge(tx[v])'
    BY <1>1, <1>2 DEF FinePurge
  <1>8. FineDelete(tx[v])'
    BY <1>1, <1>2 DEF FineDelete
  <1> QED
    BY <1>4, <1>5, <1>6, <1>7, <1>8 DEF Fine

LEMMA AfterType ==
    ASSUME TypeOK, NEW t \in Transaction, t.op = "role" => t.role \in Role,
           t.op = "transfer" => t.by # t.of
    PROVE  After(t) \in [Account -> Seat]
PROOF
  <1>0. t.by \in Account /\ t.of \in Account /\ seat \in [Account -> Seat]
    BY DEF TypeOK, Transaction
  <1>1. CASE t.op = "invite"
    BY <1>0, <1>1 DEF After, Seat, Role
  <1>2. CASE t.op = "accept"
    BY <1>0, <1>2 DEF After, Seat
  <1>3. CASE t.op \in {"leave", "revoke"}
    BY <1>0, <1>3 DEF After, Seat
  <1>4. CASE t.op = "role"
    BY <1>0, <1>4 DEF After, Seat
  <1>5. CASE t.op = "transfer"
    <2> DEFINE y == IF t.role = "leave" THEN [seat[t.by] EXCEPT !.state = "revoked"]
                                        ELSE [seat[t.by] EXCEPT !.role = "editor"]
    <2> DEFINE x == [seat[t.of] EXCEPT !.role = "owner"]
    <2>1. x \in Seat /\ y \in Seat
      BY <1>0 DEF Seat, Role
    <2>2. After(t) = [seat EXCEPT ![t.of] = x, ![t.by] = y]
      BY <1>0, <1>5 DEF After
    <2> HIDE DEF x, y
    <2> QED
      BY <1>0, <2>1, <2>2
  <1>6. CASE t.op \notin {"invite", "accept", "leave", "revoke", "role", "transfer"}
    BY <1>0, <1>6 DEF After
  <1> QED
    BY <1>1, <1>2, <1>3, <1>4, <1>5, <1>6

\* Only an acceptance makes a member.
LEMMA AfterActive ==
    ASSUME TypeOK, NEW t \in Transaction, NEW a \in Account, After(t)[a].state = "active",
           t.op # "accept" \/ a # t.by
    PROVE  Active(a)
PROOF
  <1>0. t.by \in Account /\ t.of \in Account /\ seat \in [Account -> Seat]
    BY DEF TypeOK, Transaction
  <1>1. CASE t.op = "invite"
    BY <1>0, <1>1 DEF After, Active
  <1>2. CASE t.op = "accept"
    BY <1>0, <1>2 DEF After, Active
  <1>3. CASE t.op \in {"leave", "revoke"}
    BY <1>0, <1>3 DEF After, Active
  <1>4. CASE t.op = "role"
    BY <1>0, <1>4 DEF After, Active, Seat
  <1>5. CASE t.op = "transfer"
    <2>1. seat[t.by] \in Seat /\ seat[t.of] \in Seat
      BY <1>0
    <2> QED
      BY <1>0, <1>5, <2>1 DEF After, Active, Seat
  <1>6. CASE t.op \notin {"invite", "accept", "leave", "revoke", "role", "transfer"}
    BY <1>0, <1>6 DEF After, Active
  <1> QED
    BY <1>1, <1>2, <1>3, <1>4, <1>5, <1>6

\* A commit under the lock of the kaata.
LEMMA UnderVault ==
    ASSUME IInv, NEW w \in Worker, Running(w), VaultRow \in tx[w].held, End(w), TypeOK', CanonicalOwns',
           \A c \in Account, v \in Worker :
              v # w /\ Running(v) /\ AccountRow(c) \in tx[v].held /\ account[c] = "live"
              => account'[c] = "live",
           \A v \in Worker : v # w /\ Running(v) /\ tx[v].op = "delete" =>
              /\ Owned(tx[v].by)' => Owned(tx[v].by)
              /\ Active(tx[v].by)' => Active(tx[v].by)
    PROVE  IInv'
PROOF
  <1>1. ~Running(w)' /\ Exclusive'
    BY EndFacts
  <1>2. ASSUME NEW v \in Worker
        PROVE  Fine(v)'
    <2>1. CASE v = w \/ ~Running(v)
      BY <1>1, <2>1, EndFacts DEF Fine
    <2>2. CASE v # w /\ Running(v)
      <3>1. VaultRow \notin tx[v].held
        BY <2>2, VaultIsExclusive
      <3>2. tx'[v] = tx[v]
        BY <2>2, EndFacts
      <3> QED
        BY <2>2, <3>1, <3>2, WithoutVault
    <2> QED
      BY <2>1, <2>2
  <1> QED
    BY <1>1, <1>2 DEF IInv

LEMMA CommitChangeKeeps ==
    ASSUME IInv, NEW w \in Worker, CommitChange(w)
    PROVE  IInv'
PROOF
  <1> DEFINE t == tx[w]
  <1>1. /\ Running(w) /\ t.step = "commit" /\ t.todo = {} /\ t.op \in Change /\ t.op # "archive"
        /\ End(w) /\ UNCHANGED <<account, votes, log, requests>>
        /\ seat' = After(t)
        /\ t.op = "unarchive" => vault' = [vault EXCEPT !.archived = FALSE, !.aged = FALSE, !.held = FALSE]
        /\ t.op # "unarchive" => vault' = [vault EXCEPT !.owner = t.heir]
    BY DEF CommitChange, At
  <1>2. TypeOK /\ t \in Transaction /\ FineRequest(t) /\ FineChange(t)
    BY <1>1, Relies
  <1>3. /\ VaultRow \in t.held /\ ~vault.gone /\ Named(t) \subseteq t.held
        /\ t.op = "transfer" => t.by # t.of
        /\ t.op = "role" => t.role \in Role
        /\ Ready(t)
    BY <1>1, <1>2 DEF FineRequest, FineChange
  <1>4. t.heir \in Account /\ t.by \in Account
    BY <1>2 DEF Transaction
  <1>5. TypeOK'
    <2>1. seat' \in [Account -> Seat]
      BY <1>1, <1>2, <1>3, AfterType
    <2>2. vault' \in [owner : Account, archived : BOOLEAN, aged : BOOLEAN, held : BOOLEAN,
                      purged : BOOLEAN, gone : BOOLEAN]
      BY <1>1, <1>2, <1>4 DEF TypeOK
    <2>3. tx' \in [Worker -> Transaction \cup {Idle}]
      BY <1>1, EndFacts
    <2> QED
      BY <1>1, <1>2, <2>1, <2>2, <2>3 DEF TypeOK
  <1>6. vault'.gone = vault.gone /\ vault'.purged = vault.purged
        /\ vault'.owner = IF t.op = "unarchive" THEN vault.owner ELSE t.heir
    BY <1>1, <1>2 DEF TypeOK
  <1>7. CanonicalOwns'
    <2> SUFFICES ASSUME ~vault.purged
                 PROVE  vault'.owner \in Owners'
      BY <1>6 DEF CanonicalOwns
    <2>1. CASE t.op = "unarchive"
      <3>1. seat' = seat
        BY <1>1, <2>1 DEF After
      <3> QED
        BY <1>3, <1>6, <2>1, <3>1 DEF IInv, CanonicalOwns, Owners, Active
    <2>2. CASE t.op # "unarchive"
      BY <1>1, <1>3, <1>4, <1>6, <2>2 DEF Ready, Owners, Active
    <2> QED
      BY <2>1, <2>2
  <1>8. ASSUME NEW v \in Worker, v # w, Running(v), tx[v].op = "delete"
        PROVE  /\ Owned(tx[v].by)' => Owned(tx[v].by)
               /\ Active(tx[v].by)' => Active(tx[v].by)
    <2> DEFINE a == tx[v].by
    <2>1. a \in Account /\ AccountRow(a) \in tx[v].held /\ tx'[v] = tx[v]
      BY <1>1, <1>8, Relies, EndFacts DEF FineDelete, Transaction
    <2>2. AccountRow(a) \notin t.held
      BY <1>1, <1>8, <2>1, DeletedIsExclusive
    <2>3. vault'.owner = a => vault.owner = a
      BY <1>1, <1>3, <1>6, <2>2 DEF Ready
    <2>4. Owned(tx[v].by)' => Owned(tx[v].by)
      BY <1>6, <2>1, <2>3 DEF Owned
    <2>5. a # t.by
      BY <1>3, <2>2 DEF Named
    <2>6. Active(a)' => Active(a)
      <3> HIDE DEF a
      <3>1. After(t)[a].state = "active" => Active(a)
        BY <1>2, <2>1, <2>5, AfterActive DEF a
      <3>2. seat'[a].state = "active" => Active(a)
        BY <1>1, <3>1
      <3> QED
        BY <2>1, <3>2 DEF Active, a
    <2> QED
      BY <2>4, <2>6
  <1> QED
    BY <1>1, <1>3, <1>5, <1>7, <1>8, UnderVault

LEMMA CommitArchiveKeeps ==
    ASSUME IInv, NEW w \in Worker, CommitArchive(w)
    PROVE  IInv'
PROOF
  <1> DEFINE t == tx[w]
  <1>1. /\ Running(w) /\ t.step = "commit" /\ t.op = "archive" /\ End(w)
        /\ UNCHANGED <<account, seat, log, requests>>
    BY DEF CommitArchive, At
  <1>2. TypeOK /\ t \in Transaction /\ FineRequest(t)
    BY <1>1, Relies
  <1>3. VaultRow \in t.held /\ t.by \in Account
    BY <1>1, <1>2 DEF FineRequest, Change, Transaction
  <1>4. PICK x \in BOOLEAN : vault' = [vault EXCEPT !.archived = x]
    BY DEF CommitArchive
  <1>5. votes' \subseteq Account
    BY <1>2, <1>3 DEF CommitArchive, TypeOK
  <1>6. TypeOK'
    BY <1>1, <1>2, <1>4, <1>5, EndFacts DEF TypeOK
  <1>7. vault'.gone = vault.gone /\ vault'.purged = vault.purged /\ vault'.owner = vault.owner
    BY <1>2, <1>4 DEF TypeOK
  <1>8. CanonicalOwns'
    BY <1>1, <1>7 DEF IInv, CanonicalOwns, Owners, Active
  <1>9. ASSUME NEW v \in Worker, v # w
        PROVE  Owned(tx[v].by)' => Owned(tx[v].by)
    BY <1>1, <1>7, <1>9, EndFacts DEF Owned
  <1>10. ASSUME NEW v \in Worker, v # w
         PROVE  Active(tx[v].by)' => Active(tx[v].by)
    BY <1>1, <1>10, EndFacts DEF Active
  <1> QED
    BY <1>1, <1>3, <1>6, <1>8, <1>9, <1>10, UnderVault

LEMMA CommitPushKeeps ==
    ASSUME IInv, NEW w \in Worker, CommitPush(w)
    PROVE  IInv'
PROOF
  <1> DEFINE t == tx[w]
  <1>1. /\ Running(w) /\ t.step = "commit" /\ t.op = "push" /\ End(w)
        /\ UNCHANGED <<account, seat, vault, votes, requests>>
        /\ log' = Append(log, t.by)
    BY DEF CommitPush, At
  <1>2. TypeOK /\ t \in Transaction /\ FineRequest(t)
    BY <1>1, Relies
  <1>3. VaultRow \in t.held /\ t.by \in Account
    BY <1>1, <1>2 DEF FineRequest, Transaction
  <1>4. log' \in Seq(Account)
    BY <1>1, <1>2, <1>3 DEF TypeOK
  <1>5. TypeOK'
    BY <1>1, <1>2, <1>4, EndFacts DEF TypeOK
  <1>6. CanonicalOwns'
    BY <1>1 DEF IInv, CanonicalOwns, Owners, Active
  <1>7. ASSUME NEW v \in Worker, v # w
        PROVE  /\ Owned(tx[v].by)' => Owned(tx[v].by)
               /\ Active(tx[v].by)' => Active(tx[v].by)
    BY <1>1, <1>7, EndFacts DEF Owned, Active
  <1> QED
    BY <1>1, <1>3, <1>5, <1>6, <1>7, UnderVault

LEMMA CommitPurgeKeeps ==
    ASSUME IInv, NEW w \in Worker, CommitPurge(w)
    PROVE  IInv'
PROOF
  <1> DEFINE t == tx[w]
  <1>1. /\ Running(w) /\ t.step = "commit" /\ t.op = "purge" /\ End(w)
        /\ UNCHANGED <<account, votes, log, requests>>
        /\ seat' = [a \in Account |-> IF seat[a].state = "none" THEN seat[a]
                                     ELSE [seat[a] EXCEPT !.state = "revoked"]]
        /\ vault' = [vault EXCEPT !.purged = TRUE]
    BY DEF CommitPurge, At
  <1>2. TypeOK /\ FinePurge(t)
    BY <1>1, Relies
  <1>3. VaultRow \in t.held
    BY <1>1, <1>2 DEF FinePurge
  <1>4. TypeOK'
    <2>1. ASSUME NEW a \in Account
          PROVE  seat[a] \in Seat /\ [seat[a] EXCEPT !.state = "revoked"] \in Seat
      <3>1. seat[a] \in Seat
        BY <1>2 DEF TypeOK
      <3> QED
        BY <3>1 DEF Seat
    <2>2. seat' \in [Account -> Seat]
      BY <1>1, <2>1
    <2> QED
      BY <1>1, <1>2, <2>2, EndFacts DEF TypeOK
  <1>5. vault'.gone = vault.gone /\ vault'.purged /\ vault'.owner = vault.owner
    BY <1>1, <1>2 DEF TypeOK
  <1>6. CanonicalOwns'
    BY <1>5 DEF CanonicalOwns
  <1>7. ASSUME NEW v \in Worker, v # w, Running(v)
        PROVE  /\ Owned(tx[v].by)' => Owned(tx[v].by)
               /\ Active(tx[v].by)' => Active(tx[v].by)
    <2>1. tx'[v] = tx[v] /\ tx[v].by \in Account
      BY <1>1, <1>7, EndFacts, Relies DEF Transaction
    <2> QED
      BY <1>1, <1>2, <1>5, <2>1 DEF Owned, Active, TypeOK, Seat
  <1> QED
    BY <1>1, <1>3, <1>4, <1>6, <1>7, UnderVault

\* Where two states agree on a seat, so do the seats a request leaves.
LEMMA AfterAgrees ==
    ASSUME TypeOK, TypeOK', NEW t \in Transaction, NEW h \in Account,
           seat'[h].state = seat[h].state, seat'[h].role = seat[h].role
    PROVE  /\ (After(t)')[h].state = After(t)[h].state
           /\ (After(t)')[h].role = After(t)[h].role
PROOF
  <1>0. /\ t.by \in Account /\ t.of \in Account
        /\ seat \in [Account -> Seat] /\ seat' \in [Account -> Seat]
    BY DEF TypeOK, Transaction
  <1>s. seat[h] \in Seat /\ seat'[h] \in Seat
    BY <1>0
  <1>1. CASE t.op = "invite"
    BY <1>0, <1>s, <1>1 DEF After
  <1>2. CASE t.op = "accept"
    BY <1>0, <1>s, <1>2 DEF After, Seat
  <1>3. CASE t.op \in {"leave", "revoke"}
    BY <1>0, <1>s, <1>3 DEF After, Seat
  <1>4. CASE t.op = "role"
    BY <1>0, <1>s, <1>4 DEF After, Seat
  <1>5. CASE t.op = "transfer"
    <2>1. CASE h # t.by /\ h # t.of
      BY <1>0, <1>5, <2>1 DEF After
    <2>2. CASE h = t.of /\ h # t.by
      BY <1>0, <1>s, <1>5, <2>2 DEF After, Seat
    <2>3. CASE h = t.by /\ h # t.of
      BY <1>0, <1>s, <1>5, <2>3 DEF After, Seat
    <2>4. CASE h = t.by /\ h = t.of
      BY <1>0, <1>s, <1>5, <2>4 DEF After, Seat
    <2> QED
      BY <2>1, <2>2, <2>3, <2>4
  <1>6. CASE t.op \notin {"invite", "accept", "leave", "revoke", "role", "transfer"}
    BY <1>0, <1>6 DEF After
  <1> QED
    BY <1>1, <1>2, <1>3, <1>4, <1>5, <1>6

\* The deletion of a member: no other transaction has its account or, if it is
\* active, its seat.
LEMMA MemberGoneKeeps ==
    ASSUME IInv, NEW w \in Worker, Running(w), NEW a \in Account, End(w), TypeOK',
           vault' = vault, ~Owned(a),
           \A c \in Account : c # a =>
              /\ account'[c] = account[c]
              /\ seat'[c].state = seat[c].state /\ seat'[c].role = seat[c].role,
           seat'[a].state = "none",
           \A v \in Worker : v # w /\ Running(v) => AccountRow(a) \notin tx[v].held,
           \A v \in Worker : v # w /\ Running(v) /\ Active(a) => SeatRow(a) \notin tx[v].held
    PROVE  IInv'
PROOF
  <1>1. ~Running(w)' /\ Exclusive' /\ TypeOK
    BY EndFacts DEF IInv
  <1>2. \A c \in Account : c # a => /\ Active(c)' <=> Active(c)
                                    /\ IsOwner(c)' <=> IsOwner(c)
    BY DEF Active, IsOwner, Owners
  <1>3. ~Active(a)' /\ ~IsOwner(a)' /\ Owners' \subseteq Owners
    BY DEF Active, IsOwner, Owners
  <1>4. ~vault.gone => vault.owner # a
    BY DEF Owned
  <1>5. CanonicalOwns'
    BY <1>1, <1>2, <1>4 DEF IInv, CanonicalOwns, IsOwner, TypeOK
  <1>6. ASSUME NEW v \in Worker, v # w, Running(v)
        PROVE  Fine(v)'
    <2> DEFINE s == tx[v]
    <2>1. /\ s \in Transaction /\ SeatsLast(s) /\ FineRequest(s)
          /\ FineChange(s) /\ FinePurge(s) /\ FineDelete(s)
      BY <1>6, Relies
    <2>2. s.by \in Account /\ s.of \in Account /\ s.heir \in Account /\ tx'[v] = s
      BY <1>6, <2>1, EndFacts DEF Transaction
    <2>3. AccountRow(a) \notin s.held /\ (Active(a) => SeatRow(a) \notin s.held)
      BY <1>6
    <2>4. SeatsLast(tx[v])'
      BY <2>1, <2>2 DEF SeatsLast
    <2>5. s.op \in Change \cup {"push"} /\ s.step # "accounts" =>
             s.by # a /\ (s.op = "transfer" => s.of # a)
      <3> SUFFICES ASSUME s.op \in Change \cup {"push"}, s.step # "accounts"
                   PROVE  s.by # a /\ (s.op = "transfer" => s.of # a)
        OBVIOUS
      <3>1. Named(s) \subseteq s.held
        BY <2>1 DEF FineRequest
      <3>2. AccountRow(s.by) \in Named(s) /\ (s.op = "transfer" => AccountRow(s.of) \in Named(s))
        BY DEF Named
      <3> QED
        BY <2>3, <3>1, <3>2
    <2>6. Named(tx[v])' = Named(s)
      BY <2>2 DEF Named
    <2>7. FineRequest(tx[v])'
      <3> SUFFICES ASSUME s.op \in Change \cup {"push"}
                   PROVE  FineRequest(tx[v])'
        BY <2>2 DEF FineRequest
      <3>1. s.step # "accounts" => account'[s.by] = account[s.by] /\ (MayPush(s.by) => MayPush(s.by)')
        BY <1>2, <2>2, <2>5 DEF MayPush
      <3> QED
        BY <2>1, <2>2, <2>6, <3>1 DEF FineRequest
    <2>8. s.op \in Change /\ s.step = "commit" /\ Ready(s) => Ready(tx[v])'
      <3> SUFFICES ASSUME s.op \in Change, s.step = "commit", Ready(s)
                   PROVE  Ready(tx[v])'
        OBVIOUS
      <3>1. ~vault.gone
        BY <2>1 DEF FineRequest
      <3>2. ~vault.purged => s.heir # a
        BY <1>4, <2>3, <2>5, <3>1 DEF Ready
      <3>3. ~vault.purged => /\ (After(s)')[s.heir].state = After(s)[s.heir].state
                             /\ (After(s)')[s.heir].role = After(s)[s.heir].role
        BY <1>1, <2>1, <2>2, <3>2, AfterAgrees
      <3>4. After(tx[v])' = After(s)'
        BY <2>2 DEF After
      <3> QED
        BY <1>2, <2>2, <3>2, <3>3, <3>4 DEF Ready
    <2>9. FineChange(tx[v])'
      <3>1. Rows(Owners)' \subseteq Rows(Owners)
        BY <1>3 DEF Rows
      <3> QED
        BY <2>1, <2>2, <2>8, <3>1 DEF FineChange
    <2>10. FinePurge(tx[v])'
      BY <2>1, <2>2, <2>3 DEF FinePurge, Due
    <2>11. FineDelete(tx[v])'
      BY <1>2, <1>3, <2>1, <2>2 DEF FineDelete, Owned
    <2> QED
      BY <2>4, <2>7, <2>9, <2>10, <2>11 DEF Fine
  <1>7. \A v \in Worker : Fine(v)'
    BY <1>1, <1>6, EndFacts DEF Fine
  <1> QED
    BY <1>1, <1>5, <1>7 DEF IInv

LEMMA CommitDeleteKeeps ==
    ASSUME IInv, NEW w \in Worker, CommitDelete(w)
    PROVE  IInv'
PROOF
  <1> DEFINE t == tx[w]
  <1> DEFINE a == tx[w].by
  <1>1. /\ Running(w) /\ t.step = "commit" /\ t.op = "delete" /\ End(w)
        /\ UNCHANGED <<log, requests>>
        /\ account' = [account EXCEPT ![a] = "gone"]
        /\ vault' = [vault EXCEPT !.gone = @ \/ Owned(a)]
        /\ seat' = [b \in Account |-> IF Owned(a) \/ a = b THEN NoSeat
                                     ELSE [seat[b] EXCEPT !.invitedBy = @ \ {a}]]
        /\ votes' = votes \ {a}
    BY DEF CommitDelete, At
  <1>2. TypeOK /\ FineDelete(t) /\ a \in Account
    BY <1>1, Relies DEF Transaction
  <1>3. AccountRow(a) \in t.held
    BY <1>1, <1>2 DEF FineDelete
  <1>4. TypeOK'
    <2>1. ASSUME NEW b \in Account
          PROVE  NoSeat \in Seat /\ [seat[b] EXCEPT !.invitedBy = @ \ {a}] \in Seat
      <3>1. NoSeat \in Seat
        BY DEF Seat, NoSeat, Role
      <3>2. seat[b] \in Seat
        BY <1>2 DEF TypeOK
      <3> QED
        BY <3>1, <3>2 DEF Seat
    <2>2. seat' \in [Account -> Seat]
      BY <1>1, <2>1
    <2>3. Owned(a) \in BOOLEAN
      BY <1>2 DEF Owned, TypeOK
    <2>4. vault' \in [owner : Account, archived : BOOLEAN, aged : BOOLEAN, held : BOOLEAN,
                      purged : BOOLEAN, gone : BOOLEAN]
      BY <1>1, <1>2, <2>3 DEF TypeOK
    <2> QED
      BY <1>1, <1>2, <2>2, <2>4, EndFacts DEF TypeOK
  <1>5. \A v \in Worker : v # w /\ Running(v) => AccountRow(a) \notin tx[v].held
    BY <1>1, <1>2, <1>3, DeletedIsExclusive
  <1>6. \A c \in Account : c # a => account'[c] = account[c]
    BY <1>1, <1>2 DEF TypeOK
  <1>7. CASE Owned(a)
    <2>1. VaultRow \in t.held
      BY <1>1, <1>2, <1>7 DEF FineDelete
    <2>2. vault'.gone
      BY <1>1, <1>2, <1>7 DEF TypeOK
    <2>3. CanonicalOwns'
      BY <2>2 DEF CanonicalOwns
    <2>4. ASSUME NEW v \in Worker, v # w, Running(v)
          PROVE  /\ Owned(tx[v].by)' => Owned(tx[v].by)
                 /\ Active(tx[v].by)' => Active(tx[v].by)
      <3>1. ~Owned(tx[v].by)'
        BY <2>2 DEF Owned
      <3>2. tx'[v] = tx[v] /\ tx[v].by \in Account
        BY <1>1, <2>4, EndFacts, Relies DEF Transaction
      <3>3. ~Active(tx[v].by)'
        BY <1>1, <1>7, <3>2 DEF Active, NoSeat
      <3> QED
        BY <3>1, <3>3
    <2> QED
      BY <1>1, <1>4, <1>5, <1>6, <2>1, <2>3, <2>4, UnderVault
  <1>8. CASE ~Owned(a)
    <2>1. vault' = vault
      BY <1>1, <1>2, <1>8 DEF TypeOK
    <2>2. ASSUME NEW c \in Account, c # a
          PROVE  seat'[c].state = seat[c].state /\ seat'[c].role = seat[c].role
      BY <1>1, <1>2, <1>8, <2>2 DEF TypeOK, Seat
    <2>3. seat'[a].state = "none"
      BY <1>1, <1>2 DEF NoSeat
    <2>4. Active(a) => SeatRow(a) \in t.held
      BY <1>1, <1>2, <1>8 DEF FineDelete
    <2>5. \A v \in Worker : v # w /\ Running(v) /\ Active(a) => SeatRow(a) \notin tx[v].held
      BY <1>1, <1>2, <2>4, SeatIsExclusive
    <2> QED
      BY <1>1, <1>2, <1>4, <1>5, <1>6, <1>8, <2>1, <2>2, <2>3, <2>5, MemberGoneKeeps
  <1> QED
    BY <1>7, <1>8

----------------------------------------------------------------------------
\* Steps outside the transactions: of an account, and of time.

\* Every transaction goes on as it was; what it relies on is unchanged, or is
\* on a row it would have locked.
LEMMA OutsideKeeps ==
    ASSUME IInv, TypeOK', UNCHANGED <<seat, tx>>,
           vault'.owner = vault.owner, vault'.gone = vault.gone, vault'.purged = vault.purged,
           vault'.archived = vault.archived,
           \A w \in Worker : Running(w) =>
              /\ \A a \in Account : AccountRow(a) \in tx[w].held /\ account[a] = "live"
                                    => account'[a] = "live"
              /\ VaultRow \in tx[w].held /\ Due => Due'
    PROVE  IInv'
PROOF
  <1>1. CanonicalOwns'
    BY DEF IInv, CanonicalOwns, Owners, Active
  <1>2. Exclusive'
    BY DEF IInv, Exclusive, Running, Shared
  <1>3. ASSUME NEW w \in Worker, Running(w)
        PROVE  Fine(w)'
    <2> DEFINE s == tx[w]
    <2>1. /\ s \in Transaction /\ SeatsLast(s) /\ FineRequest(s)
          /\ FineChange(s) /\ FinePurge(s) /\ FineDelete(s)
      BY <1>3, Relies
    <2>2. s.by \in Account /\ tx'[w] = s
      BY <2>1 DEF Transaction
    <2>3. SeatsLast(tx[w])'
      BY <2>1, <2>2 DEF SeatsLast
    <2>4. Named(tx[w])' = Named(s)
      BY <2>2 DEF Named
    <2>5. AccountRow(s.by) \in Named(s)
      BY DEF Named
    <2>6. FineRequest(tx[w])'
      BY <1>3, <2>1, <2>2, <2>4, <2>5 DEF FineRequest, MayPush, Active, IsOwner, Owners
    <2>7. After(tx[w])' = After(s)
      BY <2>2 DEF After
    <2>8. Ready(s) => Ready(tx[w])'
      BY <2>2, <2>7 DEF Ready, Active
    <2>9. FineChange(tx[w])'
      BY <2>1, <2>2, <2>8 DEF FineChange, Rows, Owners, Active
    <2>10. FinePurge(tx[w])'
      BY <1>3, <2>1, <2>2 DEF FinePurge
    <2>11. FineDelete(tx[w])'
      BY <2>1, <2>2 DEF FineDelete, Owned, Active
    <2> QED
      BY <2>3, <2>6, <2>9, <2>10, <2>11 DEF Fine
  <1>4. \A w \in Worker : Fine(w)'
    BY <1>3 DEF Fine, Running
  <1> QED
    BY <1>1, <1>2, <1>4 DEF IInv

LEMMA AccountKeeps ==
    ASSUME IInv, NEW a \in Account, RequestDeletion(a) \/ SignIn(a) \/ GraceEnds(a)
    PROVE  IInv'
PROOF
  <1>1. TypeOK
    BY DEF IInv
  <1>2. CASE RequestDeletion(a)
    <2>1. /\ Untouched(AccountRow(a)) /\ account' = [account EXCEPT ![a] = "pending"]
          /\ UNCHANGED <<seat, votes, log, tx, requests>>
      BY <1>2 DEF RequestDeletion, SetAccount
    <2>2. \/ Untouched(VaultRow) /\ vault' = [vault EXCEPT !.held = TRUE]
          \/ vault' = vault
      BY <1>2 DEF RequestDeletion
    <2>3. TypeOK'
      BY <1>1, <2>1, <2>2 DEF TypeOK
    <2>4. /\ vault'.owner = vault.owner /\ vault'.gone = vault.gone
          /\ vault'.purged = vault.purged /\ vault'.archived = vault.archived
      BY <1>1, <2>2 DEF TypeOK
    <2>5. ASSUME NEW w \in Worker, Running(w)
          PROVE  /\ \A b \in Account : AccountRow(b) \in tx[w].held /\ account[b] = "live"
                                       => account'[b] = "live"
                 /\ VaultRow \in tx[w].held /\ Due => Due'
      BY <1>1, <2>1, <2>2, <2>5 DEF Untouched, TypeOK, Due
    <2> QED
      BY <2>1, <2>3, <2>4, <2>5, OutsideKeeps
  <1>3. CASE SignIn(a) \/ GraceEnds(a)
    <2>1. PICK s \in {"live", "expired"} :
             /\ account[a] = "pending" /\ account' = [account EXCEPT ![a] = s]
             /\ UNCHANGED <<seat, vault, votes, log, tx, requests>>
      BY <1>3 DEF SignIn, GraceEnds, SetAccount
    <2>2. TypeOK'
      BY <1>1, <2>1 DEF TypeOK
    <2>3. \A b \in Account : account[b] = "live" => account'[b] = "live"
      BY <1>1, <2>1 DEF TypeOK
    <2> QED
      BY <2>1, <2>2, <2>3, OutsideKeeps DEF Due
  <1> QED
    BY <1>2, <1>3

LEMMA TimeKeeps ==
    ASSUME IInv, ArchiveAges \/ HoldEnds
    PROVE  IInv'
PROOF
  <1>1. TypeOK
    BY DEF IInv
  <1>2. /\ UNCHANGED <<account, seat, votes, log, tx, requests>>
        /\ vault' = [vault EXCEPT !.aged = TRUE] \/ vault' = [vault EXCEPT !.held = FALSE]
    BY DEF ArchiveAges, HoldEnds, VaultTime
  <1>3. TypeOK'
    BY <1>1, <1>2 DEF TypeOK
  <1>4. /\ vault'.owner = vault.owner /\ vault'.gone = vault.gone
        /\ vault'.purged = vault.purged /\ vault'.archived = vault.archived
    BY <1>1, <1>2 DEF TypeOK
  <1>5. Due => Due'
    BY <1>1, <1>2 DEF TypeOK, Due
  <1> QED
    BY <1>2, <1>3, <1>4, <1>5, OutsideKeeps

----------------------------------------------------------------------------
LEMMA InitFine == Init => IInv
PROOF
  <1> SUFFICES ASSUME Init
               PROVE  IInv
    OBVIOUS
  <1>1. PICK founder \in Account, owner \in Account :
          /\ seat \in [Account -> {NoSeat}
                \cup [state : {"active"}, role : Role, invitedBy : {{}, {founder}}]]
          /\ {founder, owner} \subseteq Owners
          /\ vault = [owner |-> owner, archived |-> FALSE, aged |-> FALSE, held |-> FALSE,
                      purged |-> FALSE, gone |-> FALSE]
    BY DEF Init
  <1>2. {NoSeat} \cup [state : {"active"}, role : Role, invitedBy : {{}, {founder}}] \subseteq Seat
    BY DEF NoSeat, Seat, Role
  <1>3. seat \in [Account -> Seat]
    BY <1>1, <1>2
  <1>4. \A w \in Worker : ~Running(w)
    BY DEF Init, Running
  <1>5. TypeOK
    BY <1>1, <1>3 DEF Init, TypeOK
  <1>6. CanonicalOwns
    BY <1>1 DEF CanonicalOwns
  <1> QED
    BY <1>4, <1>5, <1>6 DEF IInv, Exclusive, Fine

LEMMA NextKeeps == IInv /\ [Next]_vars => IInv'
PROOF
  <1> SUFFICES ASSUME IInv, [Next]_vars
               PROVE  IInv'
    OBVIOUS
  <1>1. CASE UNCHANGED vars
    <2>1. UNCHANGED <<account, seat, vault, votes, log, tx, requests>>
      BY <1>1 DEF vars, stored
    <2>2. TypeOK'
      BY <2>1 DEF IInv, TypeOK
    <2> QED
      BY <2>1, <2>2, OutsideKeeps DEF Due
  <1>2. ASSUME NEW w \in Worker, Start(w)
        PROVE  IInv'
    BY <1>2, RequestKeeps, CronKeeps DEF Start
  <1>3. ASSUME NEW w \in Worker, Progress(w)
        PROVE  IInv'
    <2>1. CASE Lock(w)
      BY <2>1, LockKeeps
    <2>2. CASE AccountsLocked(w)
      BY <2>2, AccountsLockedKeeps
    <2>3. CASE VaultLocked(w)
      BY <2>3, VaultLockedKeeps
    <2>4. CASE SeatsLocked(w)
      BY <2>4, SeatsLockedKeeps
    <2>5. CASE OwnersLocked(w)
      BY <2>5, OwnersLockedKeeps
    <2>6. CASE FindOwned(w) \/ DeleteOwned(w) \/ DeleteSeat(w)
      BY <2>6, DeletionKeeps
    <2>7. CASE PurgeOwner(w)
      BY <2>7, PurgeOwnerKeeps
    <2>8. CASE PurgeVault(w)
      BY <2>8, PurgeVaultKeeps
    <2>9. CASE CommitChange(w)
      BY <2>9, CommitChangeKeeps
    <2>10. CASE CommitArchive(w)
      BY <2>10, CommitArchiveKeeps
    <2>11. CASE CommitPush(w)
      BY <2>11, CommitPushKeeps
    <2>12. CASE CommitDelete(w)
      BY <2>12, CommitDeleteKeeps
    <2>13. CASE CommitPurge(w)
      BY <2>13, CommitPurgeKeeps
    <2> QED
      BY <1>3, <2>1, <2>2, <2>3, <2>4, <2>5, <2>6, <2>7, <2>8, <2>9, <2>10, <2>11, <2>12, <2>13
      DEF Progress
  <1>4. ASSUME NEW w \in Worker, Rollback(w)
        PROVE  IInv'
    BY <1>4, RefuseKeeps DEF Rollback
  <1>5. ASSUME NEW a \in Account, RequestDeletion(a) \/ SignIn(a) \/ GraceEnds(a)
        PROVE  IInv'
    BY <1>5, AccountKeeps
  <1>6. CASE ArchiveAges \/ HoldEnds
    BY <1>6, TimeKeeps
  <1> QED
    BY <1>1, <1>2, <1>3, <1>4, <1>5, <1>6 DEF Next

LEMMA Invariant == Spec => []IInv
PROOF
  BY InitFine, NextKeeps, PTL DEF Spec

\* Every variable keeps its type.
THEOREM TypeCorrect == Spec => []TypeOK
PROOF
  <1>1. IInv => TypeOK
    BY DEF IInv
  <1> QED
    BY <1>1, Invariant, PTL

\* The recorded owner of a kaata that is not purged is one of its owners,
\* whatever requests, deletions and purges overlap (bumpEpoch,
\* countActiveOwners, hardDeleteAccount).
THEOREM OwnerIsAnOwner == Spec => []CanonicalOwns
PROOF
  <1>1. IInv => CanonicalOwns
    BY DEF IInv
  <1> QED
    BY <1>1, Invariant, PTL

\* Without a deletion, accounts are shared, a seat is waited for and held only
\* with the row of the kaata, which one transaction has: of those that wait in
\* a circle nobody could wait for a seat, and whoever has the kaata waits for
\* nobody.
LEMMA NoCircleOfRequests == IInv => CyclesNeedDeletion
PROOF
  <1> SUFFICES ASSUME IInv, NEW S \in SUBSET Worker, S # {},
                      \A w \in S : \E v \in S : Waits(w, v),
                      \A w \in S : tx[w].op # "delete"
               PROVE  FALSE
    BY DEF CyclesNeedDeletion
  <1>1. ASSUME NEW w \in S
        PROVE  \E v \in S : v # w /\ Running(w) /\ Running(v)
                            /\ VaultRow \in tx[w].todo /\ VaultRow \in tx[v].held
    <2>1. PICK v \in S : Waits(w, v)
      OBVIOUS
    <2>2. w \in Worker /\ v \in Worker /\ Running(w) /\ Running(v) /\ v # w
      BY <2>1 DEF Waits
    <2>3. tx[w] \in Transaction /\ SeatsLast(tx[w]) /\ SeatsLast(tx[v])
      BY <2>2, Relies
    <2>4. PICK r \in tx[w].todo : r \in tx[v].held /\ ~Shared(r, w, v)
      BY <2>1 DEF Waits
    <2>5. r \in Row
      BY <2>3 DEF Transaction
    <2>6. tx[w].op # "delete" /\ tx[v].op # "delete"
      OBVIOUS
    <2>7. \A a \in Account : r # AccountRow(a)
      BY <2>4, <2>6 DEF Shared
    <2>8. \A a \in Account : r # SeatRow(a)
      <3> SUFFICES ASSUME NEW a \in Account, r = SeatRow(a)
                   PROVE  FALSE
        OBVIOUS
      <3>1. VaultRow \in tx[w].held /\ VaultRow \in tx[v].held
        BY <2>3, <2>4, <2>6 DEF SeatsLast
      <3> QED
        BY <2>2, <3>1, VaultIsExclusive
    <2>9. r = VaultRow
      BY <2>5, <2>7, <2>8 DEF Row
    <2> QED
      BY <2>2, <2>4, <2>9
  <1>2. PICK w \in S : TRUE
    OBVIOUS
  <1>3. PICK v \in S : Running(v) /\ VaultRow \in tx[v].held
    BY <1>1, <1>2
  <1>4. PICK u \in S : u # v /\ Running(u) /\ VaultRow \in tx[u].held
    BY <1>1, <1>3
  <1> QED
    BY <1>3, <1>4, VaultIsExclusive

\* Requests, pushes and purges never wait for one another in a circle: accounts
\* are shared, the kaata comes next and the seats last (lockPushAccounts,
\* lockActiveAccounts, countActiveOwners).
THEOREM CirclesNeedDeletions == Spec => []CyclesNeedDeletion
PROOF
  BY Invariant, NoCircleOfRequests, PTL

\* Every event in the history was written with a seat that may write and by a
\* live account, at the moment of its commit (PushEvents).
THEOREM OnlyMembersWrite == Spec => WritersAreMembers
PROOF
  <1> DEFINE A == LET a == log'[Len(log')] IN MayPush(a) /\ account[a] = "live"
  <1>1. IInv /\ [Next]_vars => [log' # log => A]_vars
    <2> SUFFICES ASSUME IInv, Next, log' # log
                 PROVE  A
      BY DEF vars
    <2>1. PICK w \in Worker : CommitPush(w)
      <3>1. \E w \in Worker : Start(w) \/ Progress(w) \/ Rollback(w)
        BY DEF Next, RequestDeletion, SignIn, GraceEnds, SetAccount, ArchiveAges, HoldEnds, VaultTime
      <3>2. PICK w \in Worker : Start(w) \/ Progress(w) \/ Rollback(w)
        BY <3>1
      <3>3. log' = log \/ CommitPush(w)
        <4>1. Start(w) => log' = log
          BY DEF Start, Invite, Accept, Leave, Transfer, SetRole, Revoke, Archive, Unarchive,
                 Push, Delete, Purge, Begin, stored
        <4>2. Rollback(w) => log' = log
          BY DEF Rollback, Refuse, stored
        <4>3. Progress(w) => log' = log \/ CommitPush(w)
          BY DEF Progress, Lock, AccountsLocked, VaultLocked, SeatsLocked, OwnersLocked, FindOwned,
                 DeleteOwned, DeleteSeat, PurgeOwner, PurgeVault, CommitChange, CommitArchive,
                 CommitDelete, CommitPurge, Write, GoOn, Refuse, stored
        <4> QED
          BY <3>2, <4>1, <4>2, <4>3
      <3> QED
        BY <3>3
    <2>2. /\ Running(w) /\ tx[w].op = "push" /\ tx[w].step = "commit"
          /\ log' = Append(log, tx[w].by)
      BY <2>1 DEF CommitPush, At
    <2>3. TypeOK /\ tx[w] \in Transaction /\ FineRequest(tx[w])
      BY <2>2, Relies
    <2>4. MayPush(tx[w].by) /\ account[tx[w].by] = "live"
      BY <2>2, <2>3 DEF FineRequest
    <2>5. tx[w].by \in Account /\ log \in Seq(Account)
      BY <2>3 DEF TypeOK, Transaction
    <2>6. log'[Len(log')] = tx[w].by
      BY <2>2, <2>5
    <2> QED
      BY <2>4, <2>6
  <1> QED
    BY <1>1, Invariant, PTL DEF Spec, WritersAreMembers

\* A kaata is archived only with the vote of each of its owners of that moment,
\* and purged only past its deadlines and with an owner who stays
\* (countArchiveConcurrences, purgeOneVault).
THEOREM EndsAreLawful == Spec => EndsLawfully
PROOF
  <1> DEFINE B == /\ vault'.archived /\ ~vault.archived => Owners \subseteq votes' \/ Cardinality(Owners) = 1
                  /\ vault'.purged /\ ~vault.purged => Due /\ account[vault.owner] = "live"
  <1>1. IInv /\ [Next]_vars => [B]_vars
    <2> SUFFICES ASSUME IInv, Next
                 PROVE  B
      BY DEF vars
    <2>0. TypeOK
      BY DEF IInv
    <2>1. CASE (vault'.archived => vault.archived) /\ (vault'.purged => vault.purged)
      BY <2>1
    <2>2. ASSUME NEW w \in Worker, CommitArchive(w)
          PROVE  B
      <3> DEFINE vote == IF Owners = {tx[w].by} THEN {} ELSE {tx[w].by}
      <3>1. vault' = [vault EXCEPT !.archived = vote = {} \/ Owners \subseteq votes']
        BY <2>2 DEF CommitArchive
      <3>2. vault'.purged = vault.purged /\ (vault'.archived <=> vote = {} \/ Owners \subseteq votes')
        BY <2>0, <3>1 DEF TypeOK
      <3>3. vote = {} => Cardinality(Owners) = 1
        BY FS_Singleton
      <3> QED
        BY <3>2, <3>3
    <2>3. ASSUME NEW w \in Worker, CommitPurge(w)
          PROVE  B
      <3>1. /\ Running(w) /\ tx[w].op = "purge" /\ tx[w].step = "commit"
            /\ vault' = [vault EXCEPT !.purged = TRUE]
        BY <2>3 DEF CommitPurge, At
      <3>2. FinePurge(tx[w])
        BY <3>1, Relies
      <3>3. Due /\ account[vault.owner] = "live"
        BY <3>1, <3>2 DEF FinePurge
      <3>4. vault'.archived = vault.archived
        BY <2>0, <3>1 DEF TypeOK
      <3> QED
        BY <3>3, <3>4
    <2>4. ASSUME NEW w \in Worker, Progress(w), ~CommitArchive(w), ~CommitPurge(w)
          PROVE  (vault'.archived => vault.archived) /\ (vault'.purged => vault.purged)
      <3>1. CASE CommitChange(w)
        BY <2>0, <3>1 DEF CommitChange, TypeOK
      <3>2. CASE CommitDelete(w)
        BY <2>0, <3>2 DEF CommitDelete, TypeOK
      <3>3. CASE ~CommitChange(w) /\ ~CommitDelete(w)
        BY <2>4, <3>3
        DEF Progress, Lock, AccountsLocked, VaultLocked, SeatsLocked, OwnersLocked, FindOwned,
            DeleteOwned, DeleteSeat, PurgeOwner, PurgeVault, CommitPush, Write, GoOn, Refuse, stored
      <3> QED
        BY <3>1, <3>2, <3>3
    <2>5. ASSUME NEW w \in Worker, Start(w) \/ Rollback(w)
          PROVE  vault' = vault
      BY <2>5 DEF Start, Invite, Accept, Leave, Transfer, SetRole, Revoke, Archive, Unarchive,
                  Push, Delete, Purge, Begin, Rollback, Refuse, stored
    <2>6. ASSUME (\E a \in Account : RequestDeletion(a) \/ SignIn(a) \/ GraceEnds(a))
                 \/ ArchiveAges \/ HoldEnds
          PROVE  vault'.archived = vault.archived /\ vault'.purged = vault.purged
      BY <2>0, <2>6 DEF RequestDeletion, SignIn, GraceEnds, ArchiveAges, HoldEnds, VaultTime, TypeOK
    <2> QED
      BY <2>1, <2>2, <2>3, <2>4, <2>5, <2>6 DEF Next
  <1> QED
    BY <1>1, Invariant, PTL DEF Spec, EndsLawfully
=============================================================================
