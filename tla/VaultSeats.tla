----------------------------- MODULE VaultSeats -----------------------------
(***************************************************************************)
(* Who has a seat in a kaata, on the server: the REST changes of members,  *)
(* ownership and archive (backend/internal/vaults/service.go), the purge   *)
(* of an archived kaata (archive_purge.go), the deletion of an account     *)
(* (auth/delete_account.go, account_deletion_grace.go) and the gate every  *)
(* push passes (sync/service.go).  Each request is one READ COMMITTED      *)
(* transaction of several statements; what keeps them apart is the row     *)
(* locks each takes on the way, and those are modelled one by one.         *)
(*                                                                         *)
(* Abstractions.  One kaata.  An account's vault_members rows are one      *)
(* seat: a revoked account does not come back by an invitation, and        *)
(* readmission is not modelled.  Membership events, which the server folds *)
(* into the seats when they are pushed, are left out: a push here writes   *)
(* entries.  The rows one statement locks are locked in any order.  Tokens,*)
(* e-mail addresses, attempts, devices, tabs, the epoch and the clock      *)
(* stamps are left out, so a repair may pick any owner for the newest.     *)
(***************************************************************************)
EXTENDS Integers, FiniteSets, Sequences

CONSTANTS
    Account,        \* accounts
    Worker,         \* database connections
    MaxRequests,    \* bound: requests that begin
    MaxPushes       \* bound: events pushed

ASSUME SeatsAssumption ==
    /\ IsFiniteSet(Account)
    /\ MaxRequests \in Nat /\ MaxPushes \in Nat

VARIABLES
    account,    \* account[a]: the accounts row, by its pending_delete_at
    seat,       \* seat[a]: the vault_members row of a
    vault,      \* the vaults row
    votes,      \* actors of the audit log's archive_concurred rows
    log,        \* who pushed the events, in the order of their commits
    tx,         \* tx[w]: the transaction of connection w
    requests    \* requests begun so far

stored == <<account, seat, vault, votes, log>>
vars == <<stored, tx, requests>>

\* "editor" stands for every role below manager.
Role == {"owner", "manager", "editor"}

NoSeat == [state |-> "none", role |-> "editor", invitedBy |-> {}]
Seat == [state : {"none", "invited", "active", "revoked"}, role : Role,
         invitedBy : SUBSET Account]

AccountRow(a) == <<"account", {a}>>
SeatRow(a) == <<"seat", {a}>>
VaultRow == <<"vault", {}>>
Row == {AccountRow(a) : a \in Account} \cup {SeatRow(a) : a \in Account} \cup {VaultRow}

Change == {"invite", "accept", "leave", "transfer", "role", "revoke", "archive", "unarchive"}
Step == {"accounts", "vault", "seats", "owners", "account", "owned", "member",
         "scanned", "owner", "commit"}

\* Only a running transaction is a record: what it does for whom, its last step,
\* the rows its next statement locks, those it has, the owner it will leave.
Transaction == [op : Change \cup {"push", "delete", "purge"}, by : Account, of : Account,
                role : Role \cup {"leave"}, step : Step,
                todo : SUBSET Row, held : SUBSET Row, heir : Account]
Idle == [op |-> "idle"]

Running(w) == tx[w] # Idle

\* Requests read accounts FOR KEY SHARE, and a write of a foreign key does too;
\* only a deletion holds one for itself.
Shared(r, w, v) == (\E a \in Account : r = AccountRow(a)) /\ "delete" \notin {tx[w].op, tx[v].op}

Free(r, w) == \A v \in Worker \ {w} : Running(v) /\ r \in tx[v].held => Shared(r, w, v)

Active(a) == seat[a].state = "active"
Owners == {a \in Account : Active(a) /\ seat[a].role = "owner"}
IsOwner(a) == a \in Owners
Below(a) == seat[a].role = "editor"
Rows(S) == {SeatRow(a) : a \in S}

\* Past the 30 days, and past the hold of a recovered account.
Due == /\ vault.archived /\ vault.aged
       /\ ~vault.held /\ ~vault.purged /\ ~vault.gone

\* A kaata with one owner or more, the first of whom invited the others.
Init ==
    /\ account = [a \in Account |-> "live"]
    /\ \E founder \in Account, owner \in Account :
         /\ seat \in [Account -> {NoSeat}
               \cup [state : {"active"}, role : Role, invitedBy : {{}, {founder}}]]
         /\ \A a \in Account : Active(a) => (seat[a].invitedBy = {} <=> a = founder)
         /\ {founder, owner} \subseteq Owners
         /\ vault = [owner |-> owner, archived |-> FALSE, aged |-> FALSE, held |-> FALSE,
                     purged |-> FALSE, gone |-> FALSE]
    /\ votes = {} /\ log = <<>>
    /\ tx = [w \in Worker |-> Idle]
    /\ requests = 0

----------------------------------------------------------------------------
\* Transactions: begin, lock, go on, end.

Begin(w, op, a, b, r) ==
    /\ ~Running(w) /\ requests < MaxRequests
    /\ tx' = [tx EXCEPT ![w] =
         [op |-> op, by |-> a, of |-> b, role |-> r, step |-> "accounts",
          todo |-> {AccountRow(c) : c \in IF op = "invite" THEN {a} ELSE {a, b}},
          held |-> {}, heir |-> a]]
    /\ requests' = requests + 1
    /\ UNCHANGED stored

Invite(w)    == \E a, b \in Account : a # b /\ Begin(w, "invite", a, b, "editor")
Accept(w)    == \E a \in Account : Begin(w, "accept", a, a, "editor")
Leave(w)     == \E a \in Account : Begin(w, "leave", a, a, "editor")
Transfer(w)  == \E a, b \in Account, r \in {"editor", "leave"} : a # b /\ Begin(w, "transfer", a, b, r)
SetRole(w)   == \E a, b \in Account, r \in Role : Begin(w, "role", a, b, r)
Revoke(w)    == \E a, b \in Account : Begin(w, "revoke", a, b, "editor")
Archive(w)   == \E a \in Account : Begin(w, "archive", a, a, "editor")
Unarchive(w) == \E a \in Account : Begin(w, "unarchive", a, a, "editor")
\* The role a push is let in with may be a minute old: it refuses nobody here.
Push(w)      == Len(log) < MaxPushes /\ \E a \in Account : Begin(w, "push", a, a, "editor")

Lock(w) ==
    /\ Running(w)
    /\ \E r \in tx[w].todo :
         /\ Free(r, w)
         /\ tx' = [tx EXCEPT ![w].todo = @ \ {r}, ![w].held = @ \cup {r}]
    /\ UNCHANGED <<stored, requests>>

\* w has the locks of its last statement and reads what they protect.
At(w, step) == Running(w) /\ tx[w].step = step /\ tx[w].todo = {}

GoOn(w, step, rows) ==
    /\ tx' = [tx EXCEPT ![w].step = step, ![w].todo = rows \ tx[w].held]
    /\ UNCHANGED <<stored, requests>>

\* mutant: the connection goes back to the pool with the locks it had
EndKeepsLocks(w) == tx' = [tx EXCEPT ![w].op = "idle"]
End(w) == tx' = [tx EXCEPT ![w] = Idle]

Refuse(w) == End(w) /\ UNCHANGED <<stored, requests>>

\* A lost connection, a deadlock found by the database: nothing is kept.
Rollback(w) == Running(w) /\ Refuse(w)

\* mutant: only a push locks the kaata first
SeatsFirst(w) ==
    /\ At(w, "accounts")
    /\ IF account[tx[w].by] # "live" THEN Refuse(w)
       ELSE IF tx[w].op = "push" THEN GoOn(w, "vault", {VaultRow})
       ELSE GoOn(w, "seats", {SeatRow(a) : a \in {tx[w].by, tx[w].of}})

\* lockActiveAccounts, lockPushAccounts: the caller is not being deleted.
AccountsLocked(w) ==
    /\ At(w, "accounts")
    /\ IF account[tx[w].by] = "live" THEN GoOn(w, "vault", {VaultRow}) ELSE Refuse(w)

MayPush(a) == Active(a) /\ (vault.archived => IsOwner(a))

\* A statement locks the rows it finds when it begins, and reads them again
\* when it has them.
Found(t) ==
    {a \in IF t.op = "invite" THEN {t.by} ELSE {t.by, t.of} :
       seat[a].state = IF t.op = "accept" THEN "invited" ELSE "active"}

\* mutant: a push is let in by what was checked before it had the locks
VaultLockedUnchecked(w) ==
    /\ At(w, "vault")
    /\ IF vault.gone THEN Refuse(w)
       ELSE IF tx[w].op = "push" THEN GoOn(w, "commit", {})
       ELSE GoOn(w, "seats", Rows(Found(tx[w])))

VaultLocked(w) ==
    /\ At(w, "vault")
    /\ LET t == tx[w] IN
       IF vault.gone \/ (t.op = "push" /\ ~MayPush(t.by)) THEN Refuse(w)
       ELSE IF t.op = "push" THEN GoOn(w, "commit", {})
       ELSE GoOn(w, "seats", Rows(Found(t)))

Manages(a) == Active(a) /\ seat[a].role \in {"owner", "manager"}

\* The checks of each request.  A manager also moves members between the roles
\* that are one here.
Permitted(t) ==
    CASE t.op = "invite"    -> Manages(t.by) /\ seat[t.of].state = "none"
      [] t.op = "accept"    -> seat[t.by].state = "invited" /\ ~vault.archived
      [] t.op = "leave"     -> Active(t.by)
      [] t.op = "transfer"  -> IsOwner(t.by) /\ Active(t.of)
      [] t.op = "role"      -> IsOwner(t.by) /\ Active(t.of) /\ seat[t.of].role # t.role
      [] t.op = "revoke"    -> Manages(t.by) /\ Active(t.of) /\ (IsOwner(t.by) \/ Below(t.of))
      [] t.op = "archive"   -> IsOwner(t.by) /\ ~vault.archived
      [] t.op = "unarchive" -> /\ IsOwner(t.by) /\ vault.archived /\ ~vault.purged
                               /\ ~vault.aged \/ vault.held

DropsOwner(t) ==
    /\ t.op \in {"leave", "revoke"} \/ (t.op = "role" /\ t.role # "owner")
    /\ IsOwner(t.of)

\* The seats as t leaves them.
After(t) ==
    CASE t.op = "invite"              -> [seat EXCEPT ![t.of] = [state |-> "invited", role |-> "editor",
                                                                invitedBy |-> {t.by}]]
      [] t.op = "accept"              -> [seat EXCEPT ![t.by].state = "active"]
      [] t.op \in {"leave", "revoke"} -> [seat EXCEPT ![t.of].state = "revoked"]
      [] t.op = "role"                -> [seat EXCEPT ![t.of].role = t.role]
      [] t.op = "transfer"            -> [seat EXCEPT ![t.of].role = "owner",
            ![t.by] = IF t.role = "leave" THEN [@ EXCEPT !.state = "revoked"]
                                          ELSE [@ EXCEPT !.role = "editor"]]
      [] OTHER                        -> seat

\* mutant: only a transfer moves owner_account_id
HeirsUnrepaired(t) == IF t.op = "transfer" THEN {t.of} ELSE {vault.owner}

\* The next owner_account_id: bumpEpoch keeps it on an owner, and the foreign
\* key locks the account of a new one.
Heirs(t) ==
    LET left == {a \in Account : After(t)[a].state = "active" /\ After(t)[a].role = "owner"}
    IN  CASE t.op = "transfer" -> {t.of}
          [] t.op \in {"leave", "role", "revoke"} /\ vault.owner \notin left /\ left # {} -> left
          [] OTHER -> {vault.owner}

Write(w) ==
    \E h \in Heirs(tx[w]) :
       /\ tx' = [tx EXCEPT ![w].step = "commit", ![w].heir = h,
                           ![w].todo = IF h = vault.owner THEN {} ELSE {AccountRow(h)} \ tx[w].held]
       /\ UNCHANGED <<stored, requests>>

SeatsLocked(w) ==
    /\ At(w, "seats")
    /\ LET t == tx[w] IN
       IF ~Permitted(t) THEN Refuse(w)
       ELSE IF t.op = "archive" \/ DropsOwner(t) THEN GoOn(w, "owners", Rows(Owners))
       ELSE Write(w)

\* countActiveOwners: under the locks of all of them.
OwnersLocked(w) ==
    /\ At(w, "owners")
    /\ IF DropsOwner(tx[w]) /\ Owners \subseteq {tx[w].of} THEN Refuse(w) ELSE Write(w)

CommitChange(w) ==
    /\ At(w, "commit") /\ tx[w].op \in Change \ {"archive"}
    /\ LET t == tx[w] IN
       /\ seat' = After(t)
       /\ vault' = IF t.op = "unarchive"
                   THEN [vault EXCEPT !.archived = FALSE, !.aged = FALSE, !.held = FALSE]
                   ELSE [vault EXCEPT !.owner = t.heir]
    /\ End(w)
    /\ UNCHANGED <<account, votes, log, requests>>

\* One owner archives alone; of several, the last to agree does.
CommitArchive(w) ==
    /\ At(w, "commit") /\ tx[w].op = "archive"
    /\ LET vote == IF Owners = {tx[w].by} THEN {} ELSE {tx[w].by} IN
       /\ votes' = votes \cup vote
       /\ vault' = [vault EXCEPT !.archived = vote = {} \/ Owners \subseteq votes']
    /\ End(w)
    /\ UNCHANGED <<account, seat, log, requests>>

CommitPush(w) ==
    /\ At(w, "commit") /\ tx[w].op = "push" /\ Len(log) < MaxPushes
    /\ log' = Append(log, tx[w].by)
    /\ End(w)
    /\ UNCHANGED <<account, seat, vault, votes, requests>>

----------------------------------------------------------------------------
\* The deletion of an account and its purge, 30 days later.

Untouched(r) == \A w \in Worker : Running(w) => r \notin tx[w].held

SetAccount(a, from, to) ==
    /\ account[a] = from
    /\ account' = [account EXCEPT ![a] = to]
    /\ UNCHANGED <<seat, votes, log, tx, requests>>

\* RequestAccountDeletion: an archive of the account's own is kept as long.
RequestDeletion(a) ==
    /\ Untouched(AccountRow(a))
    /\ SetAccount(a, "live", "pending")
    /\ IF vault.owner = a /\ vault.archived /\ ~vault.purged /\ ~vault.gone
       THEN Untouched(VaultRow) /\ vault' = [vault EXCEPT !.held = TRUE]
       ELSE UNCHANGED vault

\* completeSignIn, cancelPendingAccountDeletion
SignIn(a) == Untouched(AccountRow(a)) /\ SetAccount(a, "pending", "live") /\ UNCHANGED vault

GraceEnds(a) == SetAccount(a, "pending", "expired") /\ UNCHANGED vault

\* hardDeleteAccount: SKIP LOCKED on the account, so it never waits for it.
Delete(w) ==
    \E a \in Account :
        /\ ~Running(w) /\ account[a] = "expired" /\ Untouched(AccountRow(a))
        /\ tx' = [tx EXCEPT ![w] =
             [op |-> "delete", by |-> a, of |-> a, role |-> "editor", step |-> "account",
              todo |-> {}, held |-> {AccountRow(a)}, heir |-> a]]
        /\ UNCHANGED <<stored, requests>>

Owned(a) == vault.owner = a /\ ~vault.gone
Kept == {a \in Account : seat[a].state # "none"}
\* No account is on the row of an invitation until it is accepted.
OwnRow(a) == {b \in {a} : seat[b].state \in {"active", "revoked"}}

\* DELETE FROM vaults locks the kaata only if it was the account's own when the
\* statement began, and looks again when it has the lock.
FindOwned(w) ==
    /\ At(w, "account")
    /\ IF Owned(tx[w].by) THEN GoOn(w, "owned", {VaultRow})
       ELSE GoOn(w, "member", Rows(OwnRow(tx[w].by)))

DeleteOwned(w) ==
    /\ At(w, "owned")
    /\ IF Owned(tx[w].by) THEN GoOn(w, "commit", Rows(Kept))
       ELSE GoOn(w, "member", Rows(OwnRow(tx[w].by)))

\* The own seat is gone; the seats of those it invited forget their inviter (and
\* the rows of those it revoked, which no request locks, their revoker).
DeleteSeat(w) ==
    /\ At(w, "member")
    /\ GoOn(w, "commit", Rows({a \in Kept : tx[w].by \in seat[a].invitedBy}))

CommitDelete(w) ==
    /\ At(w, "commit") /\ tx[w].op = "delete"
    /\ LET a == tx[w].by
           whole == Owned(a)
       IN
       /\ account' = [account EXCEPT ![a] = "gone"]
       /\ vault' = [vault EXCEPT !.gone = @ \/ whole]
       /\ seat' = [b \in Account |-> IF whole \/ a = b THEN NoSeat
                                    ELSE [seat[b] EXCEPT !.invitedBy = @ \ {a}]]
       /\ votes' = votes \ {a}
    /\ End(w)
    /\ UNCHANGED <<log, requests>>

----------------------------------------------------------------------------
\* The purge of an archived kaata.

VaultTime(from, to) ==
    /\ from /\ vault' = to
    /\ UNCHANGED <<account, seat, votes, log, tx, requests>>

ArchiveAges == VaultTime(vault.archived /\ ~vault.aged, [vault EXCEPT !.aged = TRUE])
HoldEnds == VaultTime(vault.held, [vault EXCEPT !.held = FALSE])

\* findPurgeCandidates
Purge(w) ==
    /\ ~Running(w) /\ Due /\ account[vault.owner] = "live"
    /\ tx' = [tx EXCEPT ![w] =
         [op |-> "purge", by |-> vault.owner, of |-> vault.owner, role |-> "editor",
          step |-> "scanned", todo |-> {}, held |-> {}, heir |-> vault.owner]]
    /\ UNCHANGED <<stored, requests>>

\* purgeOneVault skips what is locked and checks again what it has.
PurgeOwner(w) ==
    /\ At(w, "scanned")
    /\ LET r == AccountRow(tx[w].by) IN
       IF Free(r, w) /\ account[tx[w].by] = "live"
       THEN /\ tx' = [tx EXCEPT ![w].step = "owner", ![w].held = {r}]
            /\ UNCHANGED <<stored, requests>>
       ELSE Refuse(w)

\* mutant: what the scan found is not checked again
PurgeVaultUnchecked(w) ==
    /\ At(w, "owner")
    /\ IF Free(VaultRow, w)
       THEN /\ tx' = [tx EXCEPT ![w].step = "commit", ![w].held = @ \cup {VaultRow},
                                ![w].todo = Rows({a \in Kept : seat[a].state # "revoked"})]
            /\ UNCHANGED <<stored, requests>>
       ELSE Refuse(w)

PurgeVault(w) ==
    /\ At(w, "owner")
    /\ IF Free(VaultRow, w) /\ Due /\ vault.owner = tx[w].by
       THEN /\ tx' = [tx EXCEPT ![w].step = "commit", ![w].held = @ \cup {VaultRow},
                                ![w].todo = Rows({a \in Kept : seat[a].state # "revoked"})]
            /\ UNCHANGED <<stored, requests>>
       ELSE Refuse(w)

CommitPurge(w) ==
    /\ At(w, "commit") /\ tx[w].op = "purge"
    /\ seat' = [a \in Account |-> IF seat[a].state = "none" THEN seat[a]
                                 ELSE [seat[a] EXCEPT !.state = "revoked"]]
    /\ vault' = [vault EXCEPT !.purged = TRUE]
    /\ End(w)
    /\ UNCHANGED <<account, votes, log, requests>>

----------------------------------------------------------------------------
Start(w) ==
    \/ Invite(w) \/ Accept(w) \/ Leave(w) \/ Transfer(w) \/ SetRole(w) \/ Revoke(w)
    \/ Archive(w) \/ Unarchive(w) \/ Push(w) \/ Delete(w) \/ Purge(w)

Progress(w) ==
    \/ Lock(w) \/ AccountsLocked(w) \/ VaultLocked(w) \/ SeatsLocked(w) \/ OwnersLocked(w)
    \/ FindOwned(w) \/ DeleteOwned(w) \/ DeleteSeat(w) \/ PurgeOwner(w) \/ PurgeVault(w)
    \/ CommitChange(w) \/ CommitArchive(w) \/ CommitPush(w) \/ CommitDelete(w) \/ CommitPurge(w)

Next ==
    \/ \E w \in Worker : Start(w) \/ Progress(w) \/ Rollback(w)
    \/ \E a \in Account : RequestDeletion(a) \/ SignIn(a) \/ GraceEnds(a)
    \/ ArchiveAges \/ HoldEnds

Spec == Init /\ [][Next]_vars

----------------------------------------------------------------------------
TypeOK ==
    /\ account \in [Account -> {"live", "pending", "expired", "gone"}]
    /\ seat \in [Account -> Seat]
    /\ vault \in [owner : Account, archived : BOOLEAN, aged : BOOLEAN, held : BOOLEAN,
                  purged : BOOLEAN, gone : BOOLEAN]
    /\ votes \subseteq Account
    /\ log \in Seq(Account)
    /\ tx \in [Worker -> Transaction \cup {Idle}]
    /\ requests \in Nat

\* owner_account_id is an owner of the kaata, whatever requests and deletions
\* overlap: the purge of an account decides by it whose books they are
\* (bumpEpoch), and a kaata never runs out of owners (countActiveOwners).
CanonicalOwns == ~vault.gone /\ ~vault.purged => vault.owner \in Owners

\* An event enters the history only if its sender has a seat that may write and
\* a live account at that moment, however long the push waited for its locks
\* ("recheck current membership after acquiring the locks", sync/service.go).
WritersAreMembers ==
    [][log' # log => LET a == log'[Len(log')] IN MayPush(a) /\ account[a] = "live"]_vars

\* A kaata is archived when every owner of that moment has asked for it: votes
\* of former owners do not count (countArchiveConcurrences).  It is purged only
\* when its archive is past every deadline and its owner is not being deleted.
EndsLawfully ==
    [][/\ vault'.archived /\ ~vault.archived => Owners \subseteq votes' \/ Cardinality(Owners) = 1
       /\ vault'.purged /\ ~vault.purged => Due /\ account[vault.owner] = "live"]_vars

\* w's next statement needs a row that v has.
Waits(w, v) ==
    /\ Running(w) /\ Running(v) /\ w # v
    /\ \E r \in tx[w].todo : r \in tx[v].held /\ ~Shared(r, w, v)

\* "Two owners cannot each hold their own membership and wait on the other's"
\* (countActiveOwners): requests, pushes and purges never wait for one another
\* in a circle; every circle, of any length, has the deletion of an account in it.
CyclesNeedDeletion ==
    \A S \in (SUBSET Worker) \ {{}} :
        (\A w \in S : \E v \in S : Waits(w, v)) => \E w \in S : tx[w].op = "delete"
=============================================================================
