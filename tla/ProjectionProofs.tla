--------------------------- MODULE ProjectionProofs ---------------------------
(***************************************************************************)
(* What holds of the projection of a phone for every set of events, every  *)
(* order of arrival, any number of passes, faults and upgrades; and that   *)
(* its tables then agree with the server's fold of the same events.        *)
(***************************************************************************)
EXTENDS Projection, WellFoundedInduction, FiniteSetTheorems, TLAPS

-----------------------------------------------------------------------------
(* The operators *)

(* A set of events that is not empty has an earliest one.                  *)
LEMMA EarliestExists ==
    ASSUME NEW S \in SUBSET Event, S # {}
    PROVE  /\ EarliestOf(S) \in S
           /\ \A d \in S : Hlc[EarliestOf(S)] <= Hlc[d]
PROOF
  <1> DEFINE T == {Hlc[e] : e \in S}
             R == OpToRel(<, Nat)
  <1>1. T \subseteq Nat /\ T # {}
    BY EventAssumption
  <1>2. IsWellFoundedOn(R, Nat)
    BY NatLessThanWellFounded
  <1>3. PICK n \in T : \A k \in T : ~(<<k, n>> \in R)
    <2> HIDE DEF T, R
    <2> QED  BY <1>1, <1>2, WFMin
  <1>4. PICK m \in S : Hlc[m] = n
    BY <1>3
  <1>5. \A d \in S : Hlc[m] <= Hlc[d]
    <2> TAKE d \in S
    <2>1. Hlc[d] \in T /\ Hlc[d] \in Nat /\ n \in Nat
      BY <1>1, <1>3
    <2>2. ~(Hlc[d] < n)
      BY <1>3, <2>1 DEF OpToRel
    <2> QED  BY <1>4, <2>1, <2>2
  <1> QED  BY <1>5, Zenon DEF EarliestOf

(* An account with a device is not what an entry_created is about.         *)
Accounts(t) ==
    \A x \in Object : t[x]["device"] # None =>
        \A d \in Event : Target[d] = x => Kind[d] # "entry_created"

(* What u keeps of t.                                                      *)
Keeps(t, u) ==
    /\ u \in Table /\ Accounts(u)
    /\ \A x \in Object : Exists(t, x) => Exists(u, x)
    /\ \A x \in Object : t[x]["device"] # None => u[x]["device"] # None

(* Writing some fields of a row empties none; only an event that may touch  *)
(* the device writes it.                                                   *)
LEMMA PutKeeps ==
    ASSUME NEW t \in Table, Accounts(t), NEW e \in Event, NEW S,
           "device" \in S => \A d \in Event : Target[d] = Target[e] => Kind[d] # "entry_created"
    PROVE  Keeps(t, Put(t, e, S))
PROOF
  <1>0. Target[e] \in Object /\ e # None /\ {"created", "device"} \subseteq Field
    BY EventAssumption DEF Object, Field
  <1>1. Put(t, e, S) \in Table
    BY <1>0 DEF Put, Table
  <1>2. ASSUME NEW x \in Object, NEW f \in Field
        PROVE  Put(t, e, S)[x][f] = IF x = Target[e] /\ f \in S THEN e ELSE t[x][f]
    BY <1>0 DEF Put, Table
  <1> QED  BY <1>0, <1>1, <1>2 DEF Keeps, Accounts, Exists

(* The row an amendment leaves: it writes the fields W, and the unit goes   *)
(* its own way.                                                            *)
Amended(t, e, W, frozen, unit) ==
    [t EXCEPT ![Target[e]] =
        [f \in Field |-> IF f \in W THEN e
                         ELSE IF f = "original_currency" THEN frozen
                         ELSE IF f = "currency" THEN unit
                         ELSE t[Target[e]][f]]]

\* An amendment inserts and deletes no row.
LEMMA AmendedKeeps ==
    ASSUME NEW t \in Table, Accounts(t), NEW e \in Event, NEW W,
           "device" \notin W, "created" \notin W,
           NEW frozen \in Event \cup {None}, NEW unit \in Event \cup {None}
    PROVE  Keeps(t, Amended(t, e, W, frozen, unit))
PROOF
  <1>0. Target[e] \in Object /\ {"created", "device"} \subseteq Field
    BY DEF Object, Field
  <1>1. Amended(t, e, W, frozen, unit) \in Table
    BY <1>0 DEF Amended, Table
  <1>2. ASSUME NEW x \in Object
        PROVE  /\ Amended(t, e, W, frozen, unit)[x]["created"] = t[x]["created"]
               /\ Amended(t, e, W, frozen, unit)[x]["device"] = t[x]["device"]
    BY <1>0 DEF Amended, Table
  <1> QED  BY <1>1, <1>2 DEF Keeps, Accounts, Exists

(* Every applier makes a table of a table, keeps every row that exists, and *)
(* unbinds no device.                                                      *)
LEMMA ApplyKeeps ==
    ASSUME NEW t \in Table, Accounts(t), NEW e \in Event
    PROVE  Keeps(t, Apply(t, e))
PROOF
  <1> DEFINE Entry == Kind[e] \in {"entry_created", "entry_amended", "entry_deleted"}
  <1>0. /\ Target[e] \in Object /\ e # None /\ {"created", "device"} \subseteq Field
        /\ "device" \notin EntryField /\ "created" \notin EntryField
    BY EventAssumption DEF Object, Field, EntryField
  <1>1. Keeps(t, t)
    BY DEF Keeps
  <1>2. CASE Kind[e] = "entry_created"
    <2>1. EntryCreated(t, e) \in Table
      BY <1>0 DEF EntryCreated, Table
    <2>2. ASSUME NEW x \in Object, x # Target[e]
          PROVE  EntryCreated(t, e)[x] = t[x]
      BY <2>2 DEF EntryCreated, Table
    <2>3. EntryCreated(t, e)[Target[e]]["created"] = e
      BY <1>0 DEF EntryCreated, Table
    <2>4. EntryCreated(t, e)[Target[e]]["device"] = None /\ t[Target[e]]["device"] = None
      BY <1>0, <1>2 DEF EntryCreated, Table, Accounts
    <2>5. Apply(t, e) = EntryCreated(t, e)
      BY <1>2 DEF Apply
    <2> HIDE DEF Apply
    <2> QED  BY <1>0, <2>1, <2>2, <2>3, <2>4, <2>5 DEF Keeps, Accounts, Exists
  <1>3. CASE Kind[e] = "entry_amended"
    <2> DEFINE cells  == t[Target[e]]
               won    == Won(t, e, Fields[e] \cap EntryField)
               frozen == IF "currency" \in Fields[e] /\ cells["original_currency"] = None
                         THEN cells["currency"] ELSE cells["original_currency"]
               unit   == IF "amount_afn" \in won THEN UnitOf(cells, frozen, e) ELSE cells["currency"]
               top    == IF won # {} /\ LatestWrite(t, e) THEN {"current"} ELSE {}
    <2>3. won \in SUBSET EntryField /\ top \in SUBSET {"current"}
      BY DEF Won
    <2>4. cells["currency"] \in Event \cup {None} /\ cells["original_currency"] \in Event \cup {None}
      BY <1>0 DEF Table, Field
    <2>5. frozen \in Event \cup {None} /\ unit \in Event \cup {None}
      BY <2>4 DEF UnitOf
    <2>6. EntryAmended(t, e) =
            IF cells["deleted"] # None THEN t
            ELSE Amended(t, e, won \cup top, frozen, unit)
      BY Zenon DEF EntryAmended, Amended
    <2>7. "device" \notin won \cup top /\ "created" \notin won \cup top
      BY <1>0, <2>3
    <2> HIDE DEF cells, won, frozen, unit, top
    <2>8. Keeps(t, Amended(t, e, won \cup top, frozen, unit))
      BY <2>5, <2>7, AmendedKeeps
    <2>2. EntryAmended(t, e) = t \/ Keeps(t, EntryAmended(t, e))
      BY <2>6, <2>8, Zenon
    <2> QED  BY <1>1, <1>3, <2>2 DEF Apply
  <1>4. CASE Kind[e] = "entry_deleted"
    BY <1>4, PutKeeps DEF Apply, EntryDeleted
  <1>5. CASE ~Entry
    <2>1. \A d \in Event : Target[d] = Target[e] => Kind[d] # "entry_created"
      BY <1>5, TargetAssumption DEF Families
    <2>2. \A S : Keeps(t, Put(t, e, S))
      BY <2>1, PutKeeps
    <2>3. Keeps(t, PersonArchived(t, e)) /\ Keeps(t, VaultSettingSet(t, e))
      BY <1>1, <2>2 DEF PersonArchived, VaultSettingSet
    <2>4. /\ Keeps(t, PersonAdded(t, e)) /\ Keeps(t, PersonChanged(t, e))
          /\ Keeps(t, ShopProfileUpdated(t, e))
      BY <2>2 DEF PersonAdded, PersonChanged, ShopProfileUpdated
    <2> QED  BY <1>1, <1>5, <2>2, <2>3, <2>4 DEF Apply
  <1> QED  BY <1>2, <1>3, <1>4, <1>5

(* Two changes of the fields of one person leave the same row in either     *)
(* order: the later clock wins field by field (field-hlc.ts).              *)
THEOREM ChangesCommute ==
    ASSUME NEW t \in Table, NEW d \in Event, NEW e \in Event
    PROVE  PersonChanged(PersonChanged(t, d), e) = PersonChanged(PersonChanged(t, e), d)
PROOF
  <1> DEFINE After(b, c) == PersonChanged(PersonChanged(t, b), c)
  <1>0. /\ Target[d] \in Object /\ Target[e] \in Object /\ d # None /\ e # None
        /\ Hlc[d] \in Nat /\ Hlc[e] \in Nat /\ (Hlc[d] = Hlc[e] => d = e)
    BY EventAssumption DEF Object
  <1>1. ASSUME NEW u \in Table, NEW b \in Event
        PROVE  /\ PersonChanged(u, b) \in Table
               /\ \A x \in Object, f \in Field :
                    PersonChanged(u, b)[x][f] =
                      IF x = Target[b] /\ f \in Fields[b] /\ Later(b, u[x][f]) THEN b ELSE u[x][f]
    <2>1. Target[b] \in Object
      BY DEF Object
    <2> QED  BY <2>1 DEF PersonChanged, Put, Won, Table
  <1>2. After(d, e) \in Table /\ After(e, d) \in Table
    BY <1>1
  <1>3. ASSUME NEW x \in Object, NEW f \in Field
        PROVE  After(d, e)[x][f] = After(e, d)[x][f]
    <2>1. t[x][f] \in Event \cup {None}
      BY DEF Table
    <2>2. PersonChanged(t, d) \in Table /\ PersonChanged(t, e) \in Table
      BY <1>1
    <2>3. /\ PersonChanged(t, d)[x][f] =
               IF x = Target[d] /\ f \in Fields[d] /\ Later(d, t[x][f]) THEN d ELSE t[x][f]
          /\ PersonChanged(t, e)[x][f] =
               IF x = Target[e] /\ f \in Fields[e] /\ Later(e, t[x][f]) THEN e ELSE t[x][f]
      BY <1>1
    <2>4. /\ After(d, e)[x][f] =
               IF x = Target[e] /\ f \in Fields[e] /\ Later(e, PersonChanged(t, d)[x][f])
               THEN e ELSE PersonChanged(t, d)[x][f]
          /\ After(e, d)[x][f] =
               IF x = Target[d] /\ f \in Fields[d] /\ Later(d, PersonChanged(t, e)[x][f])
               THEN d ELSE PersonChanged(t, e)[x][f]
      BY <1>1, <2>2
    <2> HIDE DEF After
    <2>5. t[x][f] = None \/ Hlc[t[x][f]] \in Nat
      BY <2>1, EventAssumption
    <2> QED  BY <1>0, <2>1, <2>3, <2>4, <2>5 DEF Later
  <1> HIDE DEF After
  <1>4. After(d, e) = After(e, d)
    BY <1>2, <1>3 DEF Table
  <1> QED  BY <1>4 DEF After

-----------------------------------------------------------------------------
(* The invariant *)

(* Why a row may be given up: by the sweep, or by verifyAndIngest.         *)
Unfit(e) == e \notin Signed /\ (Kind[e] \in Membership \/ e \notin Unsigned)

(* What an applied row is carried by, in the log and in the tables.        *)
Carried(e) ==
    /\ ~Missing(table, e)
    /\ e \in Mine \/ (e \in Signed /\ Bound(Author[e]) /\ HasRole(Author[e], e))

(* The row being replayed, and those still to come, are other phones'; the  *)
(* verdict between the two transactions is already true of the tables.     *)
Replaying ==
    /\ phase = "verdict" => current \in Event /\ verdict \in RowState
    /\ current \notin Mine /\ todo \cap Mine = {}
    /\ verdict = "applied" /\ current \in Event => Carried(current)
    /\ verdict = "buried" /\ current \in Event =>
         current \notin Signed /\ Kind[current] \in Membership

OwnRows == \A e \in Mine : row[e] \in {"absent", "applied"}

IInv == TypeOK /\ Accounts(table) /\ OwnRows /\ Replaying /\ Grounded /\ BuriedForCause

\* The invariant holds at the start,
LEMMA InitIInv == Init => IInv
PROOF
  <1> SUFFICES ASSUME Init PROVE IInv
    OBVIOUS
  <1>1. table \in Table /\ Accounts(table)
    BY DEF Init, EmptyTable, Table, Accounts, Field
  <1>2. None \notin Mine
    BY EventAssumption, PhoneAssumption
  <1>3. row = [e \in Event |-> "absent"] /\ \A e \in Event : row[e] = "absent"
    BY DEF Init
  <1>4. TypeOK
    BY <1>1, <1>3 DEF Init, TypeOK, RowState
  <1>5. OwnRows /\ Grounded /\ BuriedForCause
    BY <1>3, PhoneAssumption DEF OwnRows, Grounded, BuriedForCause
  <1>6. Replaying
    BY <1>2 DEF Init, Replaying
  <1> QED  BY <1>1, <1>4, <1>5, <1>6 DEF IInv

(* A step that changes the tables by what keeps rows and devices, and takes *)
(* no applied row back, keeps what is carried carried.                     *)
LEMMA CarriedKept ==
    ASSUME table \in Table, Keeps(table, table') \/ table' = table,
           row \in [Event -> RowState], row' \in [Event -> RowState],
           \A e \in Event : row[e] = "applied" => row'[e] = "applied",
           NEW e \in Event, Carried(e)
    PROVE  Carried(e)'
PROOF
  <1>1. Target[e] \in Object
    BY DEF Object
  <1>2. ~Missing(table', e)
    BY <1>1 DEF Carried, Missing, Keeps
  <1>3. ASSUME NEW a, Bound(a) PROVE Bound(a)'
    BY <1>3 DEF Bound, Keeps
  <1>4. ASSUME NEW a, HasRole(a, e) PROVE HasRole(a, e)'
    BY <1>4 DEF HasRole
  <1> QED  BY <1>2, <1>3, <1>4 DEF Carried

(* Outcome names a state of a row, and says "applied" of another phone's    *)
(* event only when the tables carry it.                                    *)
LEMMA OutcomeSound ==
    ASSUME NEW e \in Event, e \notin Mine
    PROVE  /\ Outcome(e) \in {"stored", "applied", "buried"}
           /\ Outcome(e) = "applied" => Carried(e)
           /\ Outcome(e) = "buried" => e \notin Signed /\ Kind[e] \in Membership
PROOF
  BY DEF Outcome, Refused, Allowed, Carried

(* A row that becomes stored, or applied or buried with good reason, leaves *)
(* the log grounded.                                                       *)
LEMMA LogKept ==
    ASSUME IInv, Keeps(table, table') \/ table' = table,
           row' \in [Event -> RowState],
           \A e \in Event : row[e] = "applied" => row'[e] = "applied",
           \A e \in Event : row'[e] = "applied" /\ row[e] # "applied" => Carried(e)',
           \A e \in Event : row'[e] = "buried" /\ row[e] # "buried" => Unfit(e)
    PROVE  /\ Grounded' /\ BuriedForCause' /\ Accounts(table') /\ table' \in Table
           /\ \A e \in Event : Carried(e) => Carried(e)'
PROOF
  <1>1. table \in Table /\ row \in [Event -> RowState] /\ Accounts(table)
    BY DEF IInv, TypeOK
  <1>2. \A e \in Event : Carried(e) => Carried(e)'
    BY <1>1, CarriedKept
  <1>3. \A e \in Event : row[e] = "applied" => Carried(e)
    BY DEF IInv, Grounded, Carried
  <1>4. \A e \in Event : row'[e] = "applied" => Carried(e)'
    BY <1>2, <1>3
  <1>5. Grounded'
    BY <1>4 DEF Grounded, Carried
  <1>6. BuriedForCause'
    BY DEF IInv, BuriedForCause, Unfit
  <1>7. Accounts(table') /\ table' \in Table
    BY <1>1 DEF Keeps
  <1> QED  BY <1>2, <1>5, <1>6, <1>7

\* and after every step of arrival, sweep, fault and launch.
LEMMA StepIInv == IInv /\ [Next]_vars => IInv'
PROOF
  <1> SUFFICES ASSUME IInv, [Next]_vars PROVE IInv'
    OBVIOUS
  <1>u. TypeOK /\ Accounts(table) /\ OwnRows /\ Replaying /\ Grounded /\ BuriedForCause
    BY DEF IInv
  <1>t. /\ row \in [Event -> RowState] /\ table \in Table /\ build \in Nat /\ todo \subseteq Event
        /\ current \in Event \cup {None} /\ verdict \in RowState \cup {"none"}
        /\ pass \in Nat /\ faults \in Nat /\ None \notin Mine /\ Mine \subseteq Event
    BY <1>u, EventAssumption, PhoneAssumption DEF TypeOK
  <1>a. ASSUME UNCHANGED table, NEW e \in Event, e \notin Mine, row[e] = "absent",
               NEW s \in {"stored", "buried"}, row' = [row EXCEPT ![e] = s],
               s = "buried" => Unfit(e), UNCHANGED sweepVars,
               UNCHANGED build, UNCHANGED faults, UNCHANGED up,
               {timer', queued', drained'} \subseteq BOOLEAN
        PROVE  IInv'
    <2>1. row' \in [Event -> RowState] /\ \A d \in Event : row'[d] = IF d = e THEN s ELSE row[d]
      BY <1>t, <1>a DEF RowState
    <2>2. /\ Grounded' /\ BuriedForCause' /\ Accounts(table') /\ table' \in Table
          /\ \A d \in Event : Carried(d) => Carried(d)'
      BY <1>a, <2>1, LogKept
    <2>3. TypeOK'
      BY <1>u, <1>a, <2>1, <2>2 DEF TypeOK, sweepVars
    <2>4. OwnRows'
      BY <1>u, <1>a, <1>t, <2>1 DEF OwnRows
    <2>5. Replaying'
      BY <1>u, <1>a, <2>2 DEF Replaying, sweepVars
    <2> QED  BY <2>2, <2>3, <2>4, <2>5 DEF IInv
  <1>b. ASSUME NEW e \in Event, PullEvent(e) PROVE IInv'
    BY <1>u, <1>a, <1>b DEF PullEvent, Written, TypeOK
  <1>d. ASSUME NEW e \in Event, LocalEvent(e) PROVE IInv'
    <2>1. row' \in [Event -> RowState] /\ \A d \in Event : row'[d] = IF d = e THEN "applied" ELSE row[d]
      BY <1>t, <1>d DEF LocalEvent, RowState
    <2>2. Keeps(table, table')
      BY <1>u, <1>t, <1>d, ApplyKeeps DEF LocalEvent
    <2>3. Carried(e)'
      BY <1>d, <2>2 DEF LocalEvent, Carried, Missing, Keeps, Object
    <2>4. /\ Grounded' /\ BuriedForCause' /\ Accounts(table') /\ table' \in Table
          /\ \A d \in Event : Carried(d) => Carried(d)'
      BY <2>1, <2>2, <2>3, LogKept
    <2>5. TypeOK'
      BY <1>u, <1>d, <2>1, <2>4 DEF TypeOK, LocalEvent, sweepVars
    <2>6. OwnRows'
      BY <1>u, <1>d, <1>t, <2>1 DEF OwnRows
    <2>7. Replaying'
      BY <1>u, <1>d, <2>4 DEF Replaying, LocalEvent, sweepVars
    <2> QED  BY <2>4, <2>5, <2>6, <2>7 DEF IInv
  <1> DEFINE Quiet ==
        /\ UNCHANGED <<row, table>>
        /\ {up', timer', queued', drained', progress'} \subseteq BOOLEAN
        /\ build' \in Nat /\ faults' \in Nat /\ pass' \in Nat
        /\ \/ UNCHANGED <<phase, todo, current, verdict>>
           \/ phase' = "rows" /\ todo' = Stored /\ UNCHANGED <<current, verdict>>
           \/ SweepIdle
  <1>e. ASSUME Quiet
        PROVE  IInv'
    <2>1. /\ Grounded' /\ BuriedForCause' /\ Accounts(table') /\ table' \in Table
          /\ \A d \in Event : Carried(d) => Carried(d)'
      BY <1>e, <1>t, LogKept
    <2>2. Stored \subseteq Event /\ Stored \cap Mine = {}
      BY <1>u, <1>t DEF Stored, OwnRows
    <2>3. TypeOK'
      BY <1>u, <1>e, <2>1, <2>2 DEF TypeOK, SweepIdle
    <2>4. OwnRows'
      BY <1>u, <1>e DEF OwnRows
    <2>5. Replaying'
      BY <1>u, <1>e, <1>t, <2>1, <2>2 DEF Replaying, SweepIdle
    <2> QED  BY <2>1, <2>3, <2>4, <2>5 DEF IInv
  <1>c. ASSUME NEW e \in Event, MeshEvent(e) PROVE IInv'
    <2>1. /\ e \notin Mine /\ timer' = TRUE
          /\ UNCHANGED <<table, build, up, queued, drained, sweepVars, faults>>
      BY <1>c DEF MeshEvent, Written
    <2>2. CASE row' = row
      <3>1. Quiet
        BY <1>u, <2>1, <2>2 DEF sweepVars, TypeOK
      <3> HIDE DEF Quiet
      <3> QED  BY <1>e, <3>1
    <2>3. CASE row' # row
      <3>1. /\ row[e] = "absent" /\ row' = [row EXCEPT ![e] = Verified(e)]
        BY <1>c, <2>3 DEF MeshEvent
      <3>2. Verified(e) # "absent"
        BY <1>t, <2>3, <3>1
      <3>3. Verified(e) \in {"stored", "buried"} /\ (Verified(e) = "buried" => Unfit(e))
        BY <3>2 DEF Verified, Unfit
      <3> QED  BY <1>u, <1>a, <2>1, <3>1, <3>3 DEF TypeOK
    <2> QED  BY <2>2, <2>3
  <1>f. CASE PullEnds \/ PullFails \/ TimerFires \/ Foreground \/ Launch
    <2>1. CASE PullEnds
      <3>1. Quiet
        BY <1>u, <2>1 DEF PullEnds, sweepVars, TypeOK
      <3> HIDE DEF Quiet
      <3> QED  BY <1>e, <3>1
    <2>2. CASE PullFails
      <3>0. faults' \in Nat /\ pass' \in Nat
        BY <1>t, <2>2 DEF PullFails, sweepVars
      <3>1. Quiet
        BY <1>u, <2>2, <3>0 DEF PullFails, sweepVars, TypeOK
      <3> HIDE DEF Quiet
      <3> QED  BY <1>e, <3>1
    <2>3. CASE TimerFires
      <3>1. Quiet
        BY <1>u, <2>3 DEF TimerFires, sweepVars, TypeOK
      <3> HIDE DEF Quiet
      <3> QED  BY <1>e, <3>1
    <2>4. CASE Foreground
      <3>1. Quiet
        BY <1>u, <2>4 DEF Foreground, sweepVars, TypeOK
      <3> HIDE DEF Quiet
      <3> QED  BY <1>e, <3>1
    <2>5. CASE Launch
      <3>1. Quiet
        BY <1>u, <2>5 DEF Launch, sweepVars, TypeOK
      <3> HIDE DEF Quiet
      <3> QED  BY <1>e, <3>1
    <2> QED  BY <1>f, <2>1, <2>2, <2>3, <2>4, <2>5
  <1>h. CASE SweepStarts \/ NextPass
    <2>1. CASE SweepStarts
      <3>1. Quiet
        BY <1>u, <2>1 DEF SweepStarts, TypeOK
      <3> HIDE DEF Quiet
      <3> QED  BY <1>e, <3>1
    <2>2. CASE NextPass
      <3>0. faults' \in Nat /\ pass' \in Nat
        BY <1>t, <2>2 DEF NextPass
      <3>1. Quiet
        BY <1>u, <2>2, <3>0 DEF NextPass, TypeOK
      <3> HIDE DEF Quiet
      <3> QED  BY <1>e, <3>1
    <2> QED  BY <1>h, <2>1, <2>2
  <1>i. CASE StampFails \/ SweepEnds \/ Crash
    <2>1. CASE StampFails
      <3>0. faults' \in Nat /\ pass' \in Nat
        BY <1>t, <2>1 DEF StampFails, SweepIdle
      <3>1. Quiet
        BY <1>u, <2>1, <3>0 DEF StampFails, SweepIdle, TypeOK
      <3> HIDE DEF Quiet
      <3> QED  BY <1>e, <3>1
    <2>2. CASE SweepEnds
      <3>1. Quiet
        BY <1>u, <2>2 DEF SweepEnds, SweepIdle, TypeOK
      <3> HIDE DEF Quiet
      <3> QED  BY <1>e, <3>1
    <2>3. CASE Crash
      <3>0. faults' \in Nat /\ pass' \in Nat
        BY <1>t, <2>3 DEF Crash, SweepIdle
      <3>1. Quiet
        BY <1>u, <2>3, <3>0 DEF Crash, SweepIdle, TypeOK
      <3> HIDE DEF Quiet
      <3> QED  BY <1>e, <3>1
    <2> QED  BY <1>i, <2>1, <2>2, <2>3
  <1>j. CASE Replay \/ ReplayFails
    <2>1. current' \in todo /\ current' \in Event /\ current' \notin Mine /\ todo' \subseteq todo
      BY <1>u, <1>j, <1>t, EarliestExists DEF Replay, ReplayFails, Replaying
    <2>2. /\ verdict' \in RowState
          /\ verdict' = "applied" => Carried(current') /\ table' = Apply(table, current')
          /\ verdict' = "buried" => current' \notin Signed /\ Kind[current'] \in Membership
          /\ verdict' # "applied" => table' = table
      BY <1>j, <2>1, OutcomeSound DEF Replay, ReplayFails, RowState
    <2>3. Keeps(table, table') \/ table' = table
      BY <1>u, <1>t, <2>1, <2>2, ApplyKeeps
    <2>4. row' = row
      BY <1>j DEF Replay, ReplayFails
    <2>5. /\ Grounded' /\ BuriedForCause' /\ Accounts(table') /\ table' \in Table
          /\ \A d \in Event : Carried(d) => Carried(d)'
      BY <1>t, <2>3, <2>4, LogKept
    <2>6. TypeOK'
      BY <1>u, <1>j, <1>t, <2>1, <2>2, <2>4, <2>5 DEF TypeOK, Replay, ReplayFails
    <2>7. OwnRows'
      BY <1>u, <2>4 DEF OwnRows
    <2>8. Replaying'
      BY <1>u, <2>1, <2>2, <2>5 DEF Replaying
    <2> QED  BY <2>5, <2>6, <2>7, <2>8 DEF IInv
  <1>k. CASE Stamp
    <2>1. current \in Event /\ verdict \in RowState /\ current \notin Mine
      BY <1>u, <1>k DEF Stamp, Replaying
    <2>2. /\ row' \in [Event -> RowState]
          /\ \A d \in Event : row'[d] = row[d] \/ (d = current /\ row'[d] = verdict)
          /\ \A d \in Event : row[d] = "applied" => row'[d] = "applied"
      BY <1>u, <1>k, <1>t, <2>1 DEF Stamp
    <2>3. table' = table /\ verdict' = "none" /\ current' = None /\ todo' = todo /\ phase' = "rows"
      BY <1>k DEF Stamp
    <2>4. \A d \in Event : Carried(d) => Carried(d)'
      BY <1>t, <2>2, <2>3, CarriedKept
    <2>5. /\ Grounded' /\ BuriedForCause' /\ Accounts(table') /\ table' \in Table
          /\ \A d \in Event : Carried(d) => Carried(d)'
      BY <1>u, <2>1, <2>2, <2>3, <2>4, LogKept DEF Replaying, Unfit
    <2>6. TypeOK'
      BY <1>u, <1>k, <1>t, <2>2, <2>3, <2>5 DEF TypeOK, Stamp
    <2>7. OwnRows'
      BY <1>u, <1>t, <2>1, <2>2 DEF OwnRows
    <2>8. Replaying'
      BY <1>u, <1>t, <2>3 DEF Replaying
    <2> QED  BY <2>5, <2>6, <2>7, <2>8 DEF IInv
  <1>l. CASE UNCHANGED vars
    <2>1. Quiet
      BY <1>u, <1>l DEF vars, sweepVars, TypeOK
    <2> HIDE DEF Quiet
    <2> QED  BY <1>e, <2>1
  <1> QED
    BY <1>b, <1>c, <1>d, <1>f, <1>h, <1>i, <1>j, <1>k, <1>l
       DEF Next, Arrive, Sweep, Fault

\* The inductive invariant of the phone: what is applied, or about to be
\* stamped so, is grounded in the tables, and what is given up has a cause.
THEOREM Invariance == Spec => []IInv
PROOF
  BY InitIInv, StepIInv, PTL DEF Spec

(* The rows, the tables and the state of a sweep keep their shape.         *)
THEOREM TypeCorrect == Spec => []TypeOK
PROOF
  <1>1. IInv => TypeOK
    BY DEF IInv
  <1> QED  BY Invariance, <1>1, PTL

(* No row is called applied before the tables carry it (sweep.ts, replay.ts *)
(* and the appliers' MissingPrereqError).                                  *)
THEOREM AppliedIsGrounded == Spec => []Grounded
PROOF
  <1>1. IInv => Grounded
    BY DEF IInv
  <1> QED  BY Invariance, <1>1, PTL

(* No event with a good signature is ever given up, and no ledger event for *)
(* want of one (classifyRoleGateRefusal, verifyAndIngest).                 *)
THEOREM TombstonesHaveCause == Spec => []BuriedForCause
PROOF
  <1>1. IInv => BuriedForCause
    BY DEF IInv
  <1> QED  BY Invariance, <1>1, PTL

\* A sweep replays what waits, each row once in a pass.
SweepWaits ==
    /\ todo \subseteq Stored
    /\ phase = "verdict" => /\ row[current] = "stored" /\ current \notin todo
                            /\ verdict # "absent"
                            /\ verdict = "buried" => current \notin Signed

(* No write, relay or pull touches a row that waits: the mutex keeps other  *)
(* sweeps out, and what is in the log is not inserted again.               *)
LEMMA SweepGoesOn == IInv /\ SweepWaits /\ [Next]_vars => SweepWaits'
PROOF
  <1> SUFFICES ASSUME IInv, SweepWaits, [Next]_vars PROVE SweepWaits'
    OBVIOUS
  <1>0. /\ row \in [Event -> RowState] /\ todo \subseteq Event
        /\ phase = "verdict" => current \in Event
        /\ current \notin Mine /\ todo \cap Mine = {}
    BY DEF IInv, TypeOK, Replaying
  <1>1. ASSUME UNCHANGED sweepVars, \A d \in Event : row[d] = "stored" => row'[d] = "stored"
        PROVE  SweepWaits'
    BY <1>0, <1>1 DEF SweepWaits, Stored, sweepVars
  <1>2. ASSUME NEW e \in Event, PullEvent(e) \/ MeshEvent(e) \/ LocalEvent(e) PROVE SweepWaits'
    <2>1. /\ UNCHANGED sweepVars
          /\ \A d \in Event : d # e \/ row[d] # "absent" => row'[d] = row[d]
      BY <1>0, <1>2 DEF PullEvent, MeshEvent, LocalEvent
    <2> QED  BY <1>1, <2>1
  <1>3. CASE PullEnds \/ TimerFires \/ PullFails \/ Launch \/ Foreground \/ UNCHANGED vars
    <2>1. UNCHANGED <<row, sweepVars>>
      BY <1>3 DEF PullEnds, TimerFires, PullFails, Launch, Foreground, vars
    <2> QED  BY <1>1, <2>1
  <1>4. CASE SweepStarts \/ NextPass
    <2>1. row' = row /\ phase' = "rows" /\ todo' = Stored
      BY <1>4 DEF SweepStarts, NextPass
    <2> QED  BY <2>1 DEF SweepWaits, Stored
  <1>5. CASE StampFails \/ SweepEnds \/ Crash
    BY <1>5 DEF StampFails, SweepEnds, Crash, SweepIdle, SweepWaits
  <1>6. CASE Replay \/ ReplayFails
    <2>1. EarliestOf(todo) \in todo
      BY <1>0, <1>6, EarliestExists DEF Replay, ReplayFails
    <2>2. /\ row' = row /\ current' = EarliestOf(todo) /\ todo' = todo \ {EarliestOf(todo)}
          /\ verdict' = "stored" \/ verdict' = Outcome(current')
      BY <1>6 DEF Replay, ReplayFails
    <2>3. Outcome(current') # "absent" /\ (Outcome(current') = "buried" => current' \notin Signed)
      BY <1>0, <2>1, <2>2, OutcomeSound
    <2> QED  BY <2>1, <2>2, <2>3 DEF SweepWaits, Stored
  <1>7. CASE Stamp
    <2>1. /\ phase' = "rows" /\ todo' = todo /\ current \in Event /\ current \notin todo
          /\ row' = [row EXCEPT ![current] = verdict]
      BY <1>0, <1>7 DEF Stamp, SweepWaits
    <2> QED  BY <1>0, <2>1 DEF SweepWaits, Stored
  <1> QED
    BY <1>2, <1>3, <1>4, <1>5, <1>6, <1>7 DEF Next, Arrive, Sweep, Fault

(* A step judges a row that was absent or waits, and gives up a waiting one *)
(* only for what the sweep may.                                            *)
LEMMA StepJudges == IInv /\ SweepWaits /\ [Next]_vars => [VerdictsLast]_vars
PROOF
  <1> SUFFICES ASSUME IInv, SweepWaits, Next PROVE VerdictsLast
    OBVIOUS
  <1>0. row \in [Event -> RowState]
    BY DEF IInv, TypeOK
  <1>1. ASSUME NEW e \in Event, PullEvent(e) \/ MeshEvent(e) \/ LocalEvent(e) PROVE VerdictsLast
    <2>1. \A d \in Event : d # e \/ row[d] # "absent" => row'[d] = row[d]
      BY <1>0, <1>1 DEF PullEvent, MeshEvent, LocalEvent
    <2> QED  BY <2>1 DEF VerdictsLast
  <1>2. CASE Stamp
    <2>1. /\ current \in Event /\ row[current] = "stored"
          /\ row' = [row EXCEPT ![current] = verdict]
          /\ verdict = "buried" => Kind[current] \in Membership
      BY <1>2 DEF Stamp, SweepWaits, IInv, Replaying
    <2>2. \A d \in Event : row'[d] = IF d = current THEN verdict ELSE row[d]
      BY <1>0, <2>1
    <2> QED  BY <2>1, <2>2 DEF VerdictsLast
  <1>3. CASE row' = row
    BY <1>3 DEF VerdictsLast
  <1> QED
    BY <1>1, <1>2, <1>3
       DEF Next, Arrive, Sweep, Fault, PullEnds, TimerFires, PullFails, Launch, Foreground,
           SweepStarts, NextPass, SweepEnds, Replay, ReplayFails, StampFails, Crash

LEMMA SweepsWait == Spec => []SweepWaits
PROOF
  <1>1. Init => SweepWaits
    BY DEF Init, SweepWaits
  <1> QED  BY <1>1, Invariance, SweepGoesOn, PTL DEF Spec

(* Together, whichever of pull, relay, append and sweep judged a row: what  *)
(* is applied is carried by the tables and what is given up has a cause,    *)
(* both are final, and a ledger event once stored is never given up         *)
(* (replay.ts, sweep.ts, ingest-types.ts).                                 *)
THEOREM VerdictsAreTrue == Spec => VerdictsHold
PROOF
  BY AppliedIsGrounded, TombstonesHaveCause, Invariance, SweepsWait, StepJudges, PTL
     DEF Spec, VerdictsHold

(* A set of events that is finite and not empty has a latest one.           *)
LEMMA LatestExists ==
    ASSUME NEW S \in SUBSET Event, S # {}, IsFiniteSet(S)
    PROVE  /\ LatestOf(S) \in S
           /\ \A d \in S : Hlc[d] <= Hlc[LatestOf(S)]
PROOF
  <1> DEFINE After(e) == {d \in S : Hlc[e] < Hlc[d]}
             T == {Cardinality(After(e)) : e \in S}
             R == OpToRel(<, Nat)
  <1>1. \A e \in S : IsFiniteSet(After(e)) /\ Cardinality(After(e)) \in Nat
    BY FS_Subset, FS_CardinalityType
  <1>2. T \subseteq Nat /\ T # {}
    BY <1>1
  <1>3. PICK n \in T : \A k \in T : ~(<<k, n>> \in R)
    <2>1. IsWellFoundedOn(R, Nat)
      BY NatLessThanWellFounded
    <2> HIDE DEF T, R
    <2> QED  BY <1>2, <2>1, WFMin
  <1>4. PICK m \in S : Cardinality(After(m)) = n
    BY <1>3
  <1>5. ASSUME NEW d \in S, Hlc[m] < Hlc[d] PROVE FALSE
    <2>1. After(d) \subseteq After(m) /\ d \in After(m) /\ d \notin After(d)
      BY <1>5, EventAssumption
    <2> HIDE DEF After
    <2>2. Cardinality(After(d)) < Cardinality(After(m))
      BY <1>1, <2>1, FS_Subset, FS_CardinalityType
    <2>3. Cardinality(After(d)) \in T /\ n \in Nat /\ Cardinality(After(d)) \in Nat
      BY <1>1, <1>2, <1>3
    <2> QED  BY <1>3, <1>4, <2>2, <2>3 DEF OpToRel
  <1>6. \A d \in S : Hlc[d] <= Hlc[m]
    BY <1>5, EventAssumption
  <1> QED  BY <1>6, Zenon DEF LatestOf

\* f folds every part of S.
FoldsIn(S, f) ==
    f = [s \in SUBSET S |-> IF s = {} THEN EmptyTable
                            ELSE ServerApply(LatestOf(s), f[s \ {LatestOf(s)}])]

(* A property of the finite sets of events that passes from what is left    *)
(* without the latest event to the whole holds of all; here, of the sets in *)
(* a family G that is closed under taking the latest event out.             *)
LEMMA ByLatest ==
    ASSUME NEW S \in SUBSET Event, IsFiniteSet(S), NEW G,
           \A s \in SUBSET S : s = {} => s \in G,
           \A s \in SUBSET S : s # {} /\ s \ {LatestOf(s)} \in G => s \in G
    PROVE  S \in G
PROOF
  <1> DEFINE B == {s \in SUBSET S : s \notin G}
             T == {Cardinality(s) : s \in B}
             R == OpToRel(<, Nat)
  <1>1. \A s \in SUBSET S : IsFiniteSet(s) /\ Cardinality(s) \in Nat
    BY FS_Subset, FS_CardinalityType
  <1> SUFFICES ASSUME S \notin G PROVE FALSE
    OBVIOUS
  <1>2. T \subseteq Nat /\ T # {}
    BY <1>1
  <1>3. PICK n \in T : \A k \in T : ~(<<k, n>> \in R)
    <2>1. IsWellFoundedOn(R, Nat)
      BY NatLessThanWellFounded
    <2> HIDE DEF T, R
    <2> QED  BY <1>2, <2>1, WFMin
  <1>4. PICK s \in B : Cardinality(s) = n
    BY <1>3
  <1>5. s # {} /\ s \in SUBSET S /\ s \notin G
    BY <1>4
  <1>6. LatestOf(s) \in s
    BY <1>1, <1>5, LatestExists
  <1> DEFINE r == s \ {LatestOf(s)}
  <1>7. r \in SUBSET S /\ r \notin G
    BY <1>5
  <1>8. Cardinality(r) < Cardinality(s)
    <2>1. IsFiniteSet(s) /\ Cardinality(s) \in Nat
      BY <1>1, <1>5
    <2>2. Cardinality(r) = Cardinality(s) - 1
      BY <1>6, <2>1, FS_RemoveElement
    <2> QED  BY <2>1, <2>2
  <1>9. Cardinality(r) \in T /\ n \in Nat /\ Cardinality(r) \in Nat
    <2>1. r \in B /\ Cardinality(r) \in Nat
      BY <1>1, <1>7
    <2> HIDE DEF r, B
    <2>2. Cardinality(r) \in T
      BY <2>1
    <2> HIDE DEF T
    <2> QED  BY <1>2, <1>3, <2>1, <2>2
  <1> HIDE DEF r, T, B
  <1> QED  BY <1>3, <1>4, <1>8, <1>9 DEF OpToRel

(* Two folds agree on the finite sets both are about.                       *)
LEMMA FoldsAgree ==
    ASSUME NEW S \in SUBSET Event, IsFiniteSet(S), NEW Q, NEW P, S \subseteq Q, S \subseteq P,
           NEW f, NEW g, FoldsIn(Q, f), FoldsIn(P, g)
    PROVE  f[S] = g[S]
PROOF
  <1> DEFINE G == {s \in SUBSET S : f[s] = g[s]}
  <1>1. \A s \in SUBSET S : /\ f[s] = IF s = {} THEN EmptyTable
                                  ELSE ServerApply(LatestOf(s), f[s \ {LatestOf(s)}])
                        /\ g[s] = IF s = {} THEN EmptyTable
                                  ELSE ServerApply(LatestOf(s), g[s \ {LatestOf(s)}])
    BY DEF FoldsIn
  <1>2. \A s \in SUBSET S : s = {} => s \in G
    BY <1>1
  <1>3. ASSUME NEW s \in SUBSET S, s # {}, s \ {LatestOf(s)} \in G PROVE s \in G
    <2>1. f[s \ {LatestOf(s)}] = g[s \ {LatestOf(s)}]
      BY <1>3
    <2> QED  BY <1>1, <1>3, <2>1
  <1> HIDE DEF G
  <1>4. S \in G
    BY <1>2, <1>3, ByLatest
  <1> QED  BY <1>4 DEF G

(* There is a fold of every finite set of events: that of what is left      *)
(* without the latest event, extended to the sets with it.                  *)
LEMMA FoldsExist ==
    ASSUME NEW S \in SUBSET Event, IsFiniteSet(S)
    PROVE  \E f : FoldsIn(S, f)
PROOF
  <1> DEFINE G == {s \in SUBSET S : \E f : FoldsIn(s, f)}
  <1>1. ASSUME NEW s \in SUBSET S, s = {} PROVE s \in G
    <2> DEFINE f == [q \in SUBSET s |-> EmptyTable]
    <2>1. FoldsIn(s, f)
      BY <1>1 DEF FoldsIn
    <2> QED  BY <2>1
  <1>2. ASSUME NEW s \in SUBSET S, s # {}, s \ {LatestOf(s)} \in G PROVE s \in G
    <2> DEFINE m == LatestOf(s)
               r == s \ {m}
    <2>1. PICK g : FoldsIn(r, g)
      BY <1>2
    <2>2. m \in s /\ \A d \in s : Hlc[d] <= Hlc[m]
      BY <1>2, FS_Subset, LatestExists
    <2> HIDE DEF m
    <2>3. ASSUME NEW q \in SUBSET s, m \in q PROVE LatestOf(q) = m
      <3>1. LatestOf(q) \in q /\ \A d \in q : Hlc[d] <= Hlc[LatestOf(q)]
        BY <2>3, FS_Subset, LatestExists
      <3> QED  BY <2>2, <2>3, <3>1, EventAssumption
    <2>4. ASSUME NEW q \in SUBSET s, q # {} PROVE LatestOf(q) \in q
      BY <2>4, FS_Subset, LatestExists
    <2> DEFINE f == [q \in SUBSET s |-> IF m \in q THEN ServerApply(m, g[q \ {m}]) ELSE g[q]]
    <2>5. \A q \in SUBSET r : g[q] = IF q = {} THEN EmptyTable
                                     ELSE ServerApply(LatestOf(q), g[q \ {LatestOf(q)}])
      BY <2>1 DEF FoldsIn
    <2>6. ASSUME NEW q \in SUBSET s
          PROVE  f[q] = IF q = {} THEN EmptyTable
                        ELSE ServerApply(LatestOf(q), f[q \ {LatestOf(q)}])
      <3>1. CASE m \in q
        BY <2>3, <3>1
      <3>2. CASE m \notin q
        BY <2>4, <2>5, <3>2
      <3> QED  BY <3>1, <3>2
    <2>7. FoldsIn(s, f)
      BY <2>6 DEF FoldsIn
    <2> QED  BY <2>7
  <1> HIDE DEF G
  <1>3. S \in G
    BY <1>1, <1>2, ByLatest
  <1> QED  BY <1>3 DEF G

(* The fold of ApplyEvents, one event at a time: nothing for no events, and *)
(* the latest event applied to the fold of the others.                      *)
THEOREM FoldUnfolds ==
    /\ ServerFold({}) = EmptyTable
    /\ \A S \in SUBSET Event : IsFiniteSet(S) /\ S # {} =>
         ServerFold(S) = ServerApply(LatestOf(S), ServerFold(S \ {LatestOf(S)}))
PROOF
  <1>1. ASSUME NEW S \in SUBSET Event, IsFiniteSet(S)
        PROVE  \E f : FoldsIn(S, f) /\ ServerFold(S) = f[S]
    <2>1. ServerFold(S) = (CHOOSE f : FoldsIn(S, f))[S]
      BY DEF ServerFold, MapThenFoldSet, FoldsIn
    <2> QED  BY <1>1, <2>1, FoldsExist
  <1>2. ServerFold({}) = EmptyTable
    BY <1>1, FS_EmptySet DEF FoldsIn
  <1>3. ASSUME NEW S \in SUBSET Event, IsFiniteSet(S), S # {}
        PROVE  ServerFold(S) = ServerApply(LatestOf(S), ServerFold(S \ {LatestOf(S)}))
    <2> DEFINE r == S \ {LatestOf(S)}
    <2>1. IsFiniteSet(r) /\ r \in SUBSET Event /\ r \subseteq S
      BY <1>3, FS_Subset
    <2>2. PICK f : FoldsIn(S, f) /\ ServerFold(S) = f[S]
      BY <1>1, <1>3
    <2>3. PICK g : FoldsIn(r, g) /\ ServerFold(r) = g[r]
      BY <1>1, <2>1
    <2>4. f[r] = g[r]
      BY <2>1, <2>2, <2>3, FoldsAgree
    <2>5. f[S] = ServerApply(LatestOf(S), f[r])
      BY <1>3, <2>2 DEF FoldsIn
    <2> QED  BY <2>2, <2>3, <2>4, <2>5
  <1> QED  BY <1>2, <1>3

-----------------------------------------------------------------------------
(* What a set of events makes of a row                                       *)

Births == {"entry_created", "person_added"}

EntryAt(x) == \E e \in Event : Target[e] = x /\ Kind[e] = "entry_created"
PersonAt(x) == \E e \in Event : Target[e] = x /\ Kind[e] = "person_added"
NameAt(x) == \E e \in Event : Target[e] = x /\ Kind[e] \in {"shop_profile_updated", "vault_setting_set"}

(* x is created once, and changed by later clocks only.                     *)
Sound(x) ==
    \A d, e \in Event :
        Target[d] = x /\ Target[e] = x /\ Kind[d] \in Births =>
            /\ Kind[e] = Kind[d] => e = d
            /\ Kind[e] \in NeedsRow => Hlc[d] < Hlc[e]

\* What changes x in D comes with what created it.
Rooted(D, x) ==
    \A e \in D : Target[e] = x /\ Kind[e] \in NeedsRow =>
        \E b \in D : Target[b] = x /\ Kind[b] \in Births

\* The fields e competes for.
Touches(e) ==
    IF Kind[e] = "entry_created" THEN EntryField
    ELSE IF Kind[e] = "entry_amended" THEN Fields[e] \cap EntryField
    ELSE IF Kind[e] = "person_added" THEN {"display_name", "phone_e164"}
    ELSE IF Kind[e] = "person_archived" THEN {"archived_at", "phone_e164"}
    ELSE IF Kind[e] \in Changes THEN Fields[e]
    ELSE IF Kind[e] = "shop_profile_updated" THEN {"shop_name", "shop_floor"}
    ELSE IF Kind[e] = "vault_setting_set" THEN {"setting"}
    ELSE {}

Touching(D, x, f) == {e \in D : Target[e] = x /\ f \in Touches(e)}
OfKind(D, x, k) == {e \in D : Target[e] = x /\ Kind[e] = k}

\* v is the latest of S.
Latest(v, S) ==
    IF S = {} THEN v = None ELSE v \in S /\ \A d \in S : Hlc[d] <= Hlc[v]

\* The row is there when what inserts it is.
BornRight(r, D, x) ==
    r["created"] # None <=>
        \E b \in D : Target[b] = x /\ Kind[b] \in Births \cup {"shop_profile_updated"}

\* A name and the archive register belong to the latest event about them, and
\* so does the phone number, until the person is brought back.
PersonRight(r, D, x) ==
    /\ \A f \in {"display_name", "archived_at", "default_entry_currency"} :
         Latest(r[f], Touching(D, x, f))
    /\ OfKind(D, x, "person_unarchived") = {} =>
         Latest(r["phone_e164"], Touching(D, x, "phone_e164"))

\* So do the names of the kaata and, until the former changes, of the shop.
NameRight(r, D, x) ==
    /\ Latest(r["setting"], Touching(D, x, "setting"))
    /\ OfKind(D, x, "vault_setting_set") = {} =>
         /\ Latest(r["shop_floor"], Touching(D, x, "shop_floor"))
         /\ r["shop_name"] = r["shop_floor"]

-----------------------------------------------------------------------------
(* One more event                                                            *)

\* The later of the two is the latest of all,
LEMMA LatestGrows ==
    ASSUME NEW S \in SUBSET Event, NEW v \in Event \cup {None}, Latest(v, S), NEW e \in Event
    PROVE  Latest(IF Later(e, v) THEN e ELSE v, S \cup {e})
PROOF
  <1>1. Hlc[e] \in Nat /\ \A d \in S : Hlc[d] \in Nat
    BY EventAssumption
  <1>2. e # None /\ None \notin S
    BY EventAssumption
  <1>3. CASE S = {}
    BY <1>1, <1>2, <1>3 DEF Latest, Later
  <1>4. CASE S # {}
    <2>1. v \in S /\ (\A d \in S : Hlc[d] <= Hlc[v]) /\ v # None /\ Hlc[v] \in Nat
      BY <1>1, <1>2, <1>4 DEF Latest
    <2>2. CASE Later(e, v)
      BY <1>1, <2>1, <2>2 DEF Latest, Later
    <2>3. CASE ~Later(e, v)
      BY <1>1, <2>1, <2>3 DEF Latest, Later
    <2> QED  BY <2>2, <2>3
  <1> QED  BY <1>3, <1>4

\* and there is one latest.
LEMMA LatestIsOne ==
    ASSUME NEW S \in SUBSET Event, NEW v, NEW w, Latest(v, S), Latest(w, S)
    PROVE  v = w
PROOF
  BY EventAssumption DEF Latest

\* An event about x joins those that touch a field, or none of them.
LEMMA TouchingGrows ==
    ASSUME NEW D, NEW e, NEW x, NEW f, Target[e] = x
    PROVE  Touching(D \cup {e}, x, f) =
             IF f \in Touches(e) THEN Touching(D, x, f) \cup {e} ELSE Touching(D, x, f)
PROOF
  BY DEF Touching

\* The later of v and what touches the field.
Takes(v, w, e, f) == w = IF f \in Touches(e) /\ Later(e, v) THEN e ELSE v

(* A field that takes the later of what it has and what touches it belongs  *)
(* to the latest again.                                                     *)
LEMMA FieldFollows ==
    ASSUME NEW D \in SUBSET Event, NEW e \in Event, NEW x, NEW f, Target[e] = x,
           NEW v \in Event \cup {None}, NEW w, Takes(v, w, e, f),
           Latest(v, Touching(D, x, f))
    PROVE  Latest(w, Touching(D \cup {e}, x, f))
PROOF
  <1>1. Touching(D, x, f) \in SUBSET Event
    BY DEF Touching
  <1>2. Latest(IF Later(e, v) THEN e ELSE v, Touching(D, x, f) \cup {e})
    BY <1>1, LatestGrows
  <1>3. CASE f \in Touches(e)
    BY <1>2, <1>3, TouchingGrows DEF Takes
  <1>4. CASE f \notin Touches(e)
    <2>1. w = v
      BY <1>4 DEF Takes
    <2>2. Touching(D \cup {e}, x, f) = Touching(D, x, f)
      BY <1>4 DEF Touching
    <2> QED  BY <2>1, <2>2 DEF Latest
  <1> QED  BY <1>3, <1>4

\* Put writes the named fields of one row.
LEMMA PutIs ==
    ASSUME NEW t \in Table, NEW e \in Event, NEW S
    PROVE  /\ Put(t, e, S) \in Table
           /\ \A x \in Object, f \in Field :
                Put(t, e, S)[x][f] = IF x = Target[e] /\ f \in S THEN e ELSE t[x][f]
PROOF
  <1>1. Target[e] \in Object
    BY DEF Object
  <1> QED  BY <1>1 DEF Put, Table

\* An event changes the row of its target only.
LEMMA Elsewhere ==
    ASSUME NEW t \in Table, NEW e \in Event, NEW x \in Object, x # Target[e]
    PROVE  Apply(t, e)[x] = t[x] /\ ServerApply(e, t)[x] = t[x]
PROOF
  <1>1. \A S : Put(t, e, S)[x] = t[x]
    BY DEF Put, Table
  <1>2. EntryCreated(t, e)[x] = t[x]
    BY DEF EntryCreated, Table
  <1>3. EntryAmended(t, e)[x] = t[x]
    <2>1. \A r : [t EXCEPT ![Target[e]] = r][x] = t[x]
      BY DEF Table
    <2> QED  BY <2>1, Zenon DEF EntryAmended
  <1>4. /\ PersonArchived(t, e)[x] = t[x] /\ VaultSettingSet(t, e)[x] = t[x]
        /\ PersonAdded(t, e)[x] = t[x] /\ PersonChanged(t, e)[x] = t[x]
        /\ ShopProfileUpdated(t, e)[x] = t[x] /\ EntryDeleted(t, e)[x] = t[x]
    BY <1>1 DEF PersonArchived, VaultSettingSet, PersonAdded, PersonChanged, ShopProfileUpdated,
                EntryDeleted
  <1>5. Apply(t, e)[x] = t[x]
    BY <1>1, <1>2, <1>3, <1>4 DEF Apply
  <1>6. ServerPerson(t, e)[x] = t[x] /\ ServerSetting(t, e)[x] = t[x]
    BY <1>1 DEF ServerPerson, ServerSetting
  <1> QED  BY <1>5, <1>6 DEF ServerApply

-----------------------------------------------------------------------------
(* Persons and names                                                         *)

\* The fields of a row before and after e, as the two sides write them.
LEMMA PersonFields ==
    ASSUME NEW x \in Object, PersonAt(x), NEW e \in Event, Target[e] = x, NEW t \in Table
    PROVE  /\ Kind[e] \in {"person_added", "person_archived"} \cup Changes
           /\ Kind[e] = "person_added" => Apply(t, e) = Put(t, e, {"created"} \cup Touches(e))
           /\ Kind[e] \in Changes => Apply(t, e) = Put(t, e, Won(t, e, Touches(e)))
           /\ Kind[e] = "person_archived" => Apply(t, e) = PersonArchived(t, e)
           /\ Kind[e] \in Changes \cup {"person_archived"} =>
                ServerPerson(t, e) = Put(t, e, Touches(e))
           /\ "archived_at" \in Touches(e) <=> Kind[e] \in {"person_archived", "person_unarchived"}
           /\ "created" \notin Touches(e)
PROOF
  <1>1. Kind[e] \in {"person_added", "person_archived"} \cup Changes
    BY TargetAssumption DEF PersonAt, Families
  <1>2. CASE Kind[e] = "person_added"
    BY <1>2 DEF Apply, PersonAdded, Touches, Changes
  <1>3. CASE Kind[e] = "person_archived"
    BY <1>3 DEF Apply, ServerPerson, Touches, Changes
  <1>4. CASE Kind[e] \in Changes
    <2>1. Fields[e] = {Register[Kind[e]]}
      BY <1>4, FieldsAssumption
    <2>2. Touches(e) = Fields[e]
      BY <1>4 DEF Touches, Changes
    <2>3. Apply(t, e) = PersonChanged(t, e) /\ Kind[e] # "person_archived" /\ Kind[e] # "person_added"
      BY <1>4 DEF Apply, Changes
    <2>4. "archived_at" \in Fields[e] <=> Kind[e] = "person_unarchived"
      BY <1>4, <2>1 DEF Register, Changes
    <2>5. "created" \notin Fields[e]
      BY <1>4, <2>1 DEF Register, Changes
    <2>6. Apply(t, e) = Put(t, e, Won(t, e, Touches(e)))
      BY <2>2, <2>3 DEF PersonChanged
    <2>7. ServerPerson(t, e) = Put(t, e, Touches(e))
      BY <2>2, <2>3 DEF ServerPerson
    <2> QED  BY <1>4, <2>2, <2>3, <2>4, <2>5, <2>6, <2>7
  <1> QED  BY <1>1, <1>2, <1>3, <1>4

\* A person's first event is the one that adds it.
LEMMA PersonIsBorn ==
    ASSUME NEW x \in Object, Sound(x), NEW D \in SUBSET Event, Rooted(D, x), PersonAt(x),
           NEW e \in Event \ D, Target[e] = x, Kind[e] = "person_added"
    PROVE  \A d \in D : Target[d] # x
PROOF
  <1>1. ASSUME NEW d \in D, Target[d] = x PROVE FALSE
    <2>1. Kind[d] \in {"person_added", "person_archived"} \cup Changes
      BY <1>1, TargetAssumption DEF PersonAt, Families
    <2>2. Kind[d] # "person_added"
      BY <1>1 DEF Sound, Births
    <2>3. PICK b \in D : Target[b] = x /\ Kind[b] \in Births
      BY <1>1, <2>1, <2>2 DEF Rooted, NeedsRow
    <2>4. Kind[b] = "person_added"
      BY <2>3, TargetAssumption DEF PersonAt, Families, Births, Changes
    <2> QED  BY <2>3, <2>4 DEF Sound, Births
  <1> QED  BY <1>1

\* A person's row takes the later clock field by field, on the phone,
LEMMA PersonFollows ==
    ASSUME NEW x \in Object, Sound(x), NEW D \in SUBSET Event, Rooted(D, x), PersonAt(x),
           NEW t \in Table, PersonRight(t[x], D, x),
           NEW e \in Event, Target[e] = x, e \notin D \/ Kind[e] \notin Births
    PROVE  PersonRight(Apply(t, e)[x], D \cup {e}, x)
PROOF
  <1> DEFINE Main == {"display_name", "archived_at", "default_entry_currency"}
  <1>0. /\ \A f \in Field : t[x][f] \in Event \cup {None}
        /\ Main \cup {"phone_e164", "created"} \subseteq Field /\ e \in Event /\ e # None
    BY EventAssumption DEF Table, Field
  <1>1. ASSUME \A f \in Main : Takes(t[x][f], Apply(t, e)[x][f], e, f),
               OfKind(D \cup {e}, x, "person_unarchived") = {} =>
                 Takes(t[x]["phone_e164"], Apply(t, e)[x]["phone_e164"], e, "phone_e164")
        PROVE  PersonRight(Apply(t, e)[x], D \cup {e}, x)
    <2>1. \A f \in Main : Latest(Apply(t, e)[x][f], Touching(D \cup {e}, x, f))
      BY <1>0, <1>1, FieldFollows DEF PersonRight
    <2>2. ASSUME OfKind(D \cup {e}, x, "person_unarchived") = {}
          PROVE  Latest(Apply(t, e)[x]["phone_e164"], Touching(D \cup {e}, x, "phone_e164"))
      <3>1. OfKind(D, x, "person_unarchived") = {}
        BY <2>2 DEF OfKind
      <3> QED  BY <1>0, <1>1, <2>2, <3>1, FieldFollows DEF PersonRight
    <2> QED  BY <2>1, <2>2 DEF PersonRight
  <1>2. CASE Kind[e] = "person_added"
    <2>1. \A f \in Field : Apply(t, e)[x][f] = IF f \in {"created"} \cup Touches(e) THEN e ELSE t[x][f]
      <3>1. Apply(t, e) = Put(t, e, {"created"} \cup Touches(e))
        BY <1>2, PersonFields
      <3> QED  BY <3>1, PutIs
    <2>2. \A f : Touching(D, x, f) = {}
      BY <1>2, PersonIsBorn DEF Births, Touching
    <2>3. OfKind(D, x, "person_unarchived") = {}
      <3> SUFFICES ASSUME NEW d \in D, Target[d] = x, Kind[d] = "person_unarchived" PROVE FALSE
        BY DEF OfKind
      <3>1. "archived_at" \in Touches(d)
        BY PersonFields
      <3> QED  BY <2>2, <3>1 DEF Touching
    <2>4. \A f \in Main \cup {"phone_e164"} : t[x][f] = None
      BY <2>2, <2>3 DEF PersonRight, Latest
    <2>5. \A f \in Main \cup {"phone_e164"} : Takes(t[x][f], Apply(t, e)[x][f], e, f)
      BY <1>0, <2>1, <2>4 DEF Takes, Later
    <2> QED  BY <1>1, <2>5
  <1>3. CASE Kind[e] \in Changes
    <2>1. \A f \in Field : Apply(t, e)[x][f] = IF f \in Won(t, e, Touches(e)) THEN e ELSE t[x][f]
      <3>1. Apply(t, e) = Put(t, e, Won(t, e, Touches(e)))
        BY <1>3, PersonFields
      <3> QED  BY <3>1, PutIs
    <2>2. \A f : f \in Won(t, e, Touches(e)) <=> f \in Touches(e) /\ Later(e, t[x][f])
      BY DEF Won
    <2>3. \A f \in Main \cup {"phone_e164"} : Takes(t[x][f], Apply(t, e)[x][f], e, f)
      BY <1>0, <2>1, <2>2 DEF Takes
    <2> QED  BY <1>1, <2>3
  <1>4. CASE Kind[e] = "person_archived"
    <2>0. Touches(e) = {"archived_at", "phone_e164"}
      BY <1>4 DEF Touches
    <2>1. CASE Later(e, t[x]["archived_at"])
      <3>1. \A f : f \in Won(t, e, {"archived_at", "phone_e164"})
                    <=> f \in Touches(e) /\ Later(e, t[x][f])
        BY <2>0 DEF Won
      <3>2. Won(t, e, {"archived_at"}) # {}
        BY <2>1 DEF Won
      <3>3. Apply(t, e) = Put(t, e, Won(t, e, {"archived_at", "phone_e164"}))
        BY <1>4, <3>2, PersonFields DEF PersonArchived
      <3>4. \A f \in Field : Apply(t, e)[x][f] =
                 IF f \in Won(t, e, {"archived_at", "phone_e164"}) THEN e ELSE t[x][f]
        BY <1>0, <3>3, PutIs
      <3> QED  BY <1>0, <1>1, <3>1, <3>4 DEF Takes
    <2>2. CASE ~Later(e, t[x]["archived_at"])
      <3>1. Won(t, e, {"archived_at"}) = {}
        BY <2>2 DEF Won
      <3>2. Apply(t, e) = t
        BY <1>4, <3>1, PersonFields DEF PersonArchived
      <3>3. \A f \in Main : Takes(t[x][f], Apply(t, e)[x][f], e, f)
        BY <2>0, <2>2, <3>2 DEF Takes
      <3>4. ASSUME OfKind(D \cup {e}, x, "person_unarchived") = {}
            PROVE  ~Later(e, t[x]["phone_e164"])
        <4> DEFINE a == t[x]["archived_at"]
        <4>1. a # None /\ Latest(a, Touching(D, x, "archived_at"))
          BY <2>2 DEF Later, PersonRight
        <4>2. a \in D /\ Target[a] = x /\ "archived_at" \in Touches(a)
          BY <4>1 DEF Latest, Touching
        <4>3. Kind[a] = "person_archived"
          BY <3>4, <4>2, PersonFields DEF OfKind
        <4>4. a \in Touching(D, x, "phone_e164")
          BY <4>2, <4>3 DEF Touching, Touches
        <4>5. Latest(t[x]["phone_e164"], Touching(D, x, "phone_e164"))
          BY <3>4 DEF PersonRight, OfKind
        <4>6. /\ t[x]["phone_e164"] \in Event /\ Hlc[a] <= Hlc[t[x]["phone_e164"]]
              /\ t[x]["phone_e164"] # None
          BY <4>4, <4>5, EventAssumption DEF Latest, Touching
        <4>7. ~(Hlc[a] < Hlc[e])
          BY <2>2 DEF Later
        <4>8. Hlc[a] \in Nat /\ Hlc[e] \in Nat /\ Hlc[t[x]["phone_e164"]] \in Nat
          BY <4>2, <4>6, EventAssumption
        <4> QED  BY <4>6, <4>7, <4>8 DEF Later
      <3> QED  BY <1>1, <3>2, <3>3, <3>4 DEF Takes
    <2> QED  BY <2>1, <2>2
  <1> QED  BY <1>2, <1>3, <1>4, PersonFields

\* and on the server, which sees the events in clock order.
LEMMA PersonFolds ==
    ASSUME NEW x \in Object, Sound(x), NEW D \in SUBSET Event, Rooted(D, x), PersonAt(x),
           NEW t \in Table, PersonRight(t[x], D, x),
           NEW e \in Event \ D, Target[e] = x, ~Missing(t, e), \A d \in D : Hlc[d] < Hlc[e]
    PROVE  PersonRight(ServerApply(e, t)[x], D \cup {e}, x)
PROOF
  <1> DEFINE Main == {"display_name", "archived_at", "default_entry_currency"}
             New == ServerApply(e, t)
  <1>1. CASE Kind[e] = "person_added"
    <2>1. New = Apply(t, e)
      BY <1>1 DEF ServerApply, Missing, NeedsRow, Changes
    <2> QED  BY <2>1, PersonFollows
  <1>2. CASE Kind[e] \in Changes \cup {"person_archived"}
    <2>1. New = Put(t, e, Touches(e))
      <3>1. New = ServerPerson(t, e)
        BY <1>2 DEF ServerApply
      <3> QED  BY <1>2, <3>1, PersonFields
    <2>2. \A f \in Field : New[x][f] = IF f \in Touches(e) THEN e ELSE t[x][f]
      BY <2>1, PutIs
    <2>3. Main \cup {"phone_e164"} \subseteq Field /\ \A f \in Field : t[x][f] \in Event \cup {None}
      BY DEF Field, Table
    <2> HIDE DEF New
    <2>4. ASSUME NEW f \in Main \cup {"phone_e164"}, Latest(t[x][f], Touching(D, x, f))
          PROVE  Latest(New[x][f], Touching(D \cup {e}, x, f))
      <3>1. Later(e, t[x][f])
        BY <2>4 DEF Later, Latest, Touching
      <3>2. Takes(t[x][f], New[x][f], e, f)
        BY <2>2, <2>3, <3>1 DEF Takes
      <3> QED  BY <2>3, <2>4, <3>2, FieldFollows
    <2>5. \A f \in Main : Latest(New[x][f], Touching(D \cup {e}, x, f))
      BY <2>4 DEF PersonRight
    <2>6. ASSUME OfKind(D \cup {e}, x, "person_unarchived") = {}
          PROVE  Latest(New[x]["phone_e164"], Touching(D \cup {e}, x, "phone_e164"))
      <3>1. OfKind(D, x, "person_unarchived") = {}
        BY <2>6 DEF OfKind
      <3> QED  BY <2>4, <3>1 DEF PersonRight
    <2>7. PersonRight(New[x], D \cup {e}, x)
      BY <2>5, <2>6 DEF PersonRight
    <2> QED  BY <2>7 DEF New
  <1> QED  BY <1>1, <1>2, PersonFields

\* The name of a kaata and that of its shop, on both sides.
LEMMA NameFields ==
    ASSUME NEW x \in Object, NameAt(x), NEW e \in Event, Target[e] = x, NEW t \in Table
    PROVE  /\ Kind[e] \in {"shop_profile_updated", "vault_setting_set"}
           /\ Kind[e] = "shop_profile_updated" =>
                /\ Apply(t, e) = ShopProfileUpdated(t, e) /\ ServerApply(e, t) = Apply(t, e)
                /\ Touches(e) = {"shop_name", "shop_floor"}
           /\ Kind[e] = "vault_setting_set" =>
                /\ Apply(t, e) = VaultSettingSet(t, e) /\ ServerApply(e, t) = ServerSetting(t, e)
                /\ Touches(e) = {"setting"}
PROOF
  <1>1. Kind[e] \in {"shop_profile_updated", "vault_setting_set"}
    BY TargetAssumption DEF NameAt, Families
  <1>2. CASE Kind[e] = "shop_profile_updated"
    BY <1>2 DEF Apply, ServerApply, Missing, NeedsRow, Changes, Touches
  <1>3. CASE Kind[e] = "vault_setting_set"
    BY <1>3 DEF Apply, ServerApply, Missing, NeedsRow, Changes, Touches
  <1> QED  BY <1>1, <1>2, <1>3

\* The shop profile, on both sides.
LEMMA ShopFollows ==
    ASSUME NEW x \in Object, NEW D \in SUBSET Event, NameAt(x),
           NEW t \in Table, NameRight(t[x], D, x),
           NEW e \in Event, Target[e] = x, Kind[e] = "shop_profile_updated"
    PROVE  NameRight(Apply(t, e)[x], D \cup {e}, x)
PROOF
  <1> DEFINE New == Apply(t, e)
             won == IF Won(t, e, {"shop_floor"}) = {} THEN {} ELSE {"shop_name", "shop_floor"}
             made == IF Exists(t, Target[e]) THEN {} ELSE {"created"}
  <1>0. /\ \A f \in Field : t[x][f] \in Event \cup {None}
        /\ {"setting", "shop_name", "shop_floor"} \subseteq Field
    BY DEF Table, Field
  <1>1. New = Put(t, e, made \cup won)
    BY NameFields DEF ShopProfileUpdated
  <1>2. made \subseteq {"created"} /\ (won = IF Later(e, t[x]["shop_floor"])
                                            THEN {"shop_name", "shop_floor"} ELSE {})
    BY DEF Won
  <1>3. \A f \in Field : New[x][f] = IF f \in made \cup won THEN e ELSE t[x][f]
    BY <1>1, PutIs
  <1>4. Touches(e) = {"shop_name", "shop_floor"}
    BY NameFields
  <1> HIDE DEF New, won, made
  <1>5. New[x]["setting"] = t[x]["setting"]
    BY <1>0, <1>2, <1>3
  <1>6. Touching(D \cup {e}, x, "setting") = Touching(D, x, "setting")
    BY <1>4 DEF Touching
  <1>7. Takes(t[x]["shop_floor"], New[x]["shop_floor"], e, "shop_floor")
    BY <1>0, <1>2, <1>3, <1>4 DEF Takes
  <1>8. Takes(t[x]["shop_floor"], New[x]["shop_name"], e, "shop_floor")
          \/ t[x]["shop_name"] # t[x]["shop_floor"]
    BY <1>0, <1>2, <1>3, <1>4 DEF Takes
  <1>9. Latest(New[x]["setting"], Touching(D \cup {e}, x, "setting"))
    BY <1>5, <1>6 DEF NameRight
  <1>10. ASSUME OfKind(D \cup {e}, x, "vault_setting_set") = {}
         PROVE  /\ Latest(New[x]["shop_floor"], Touching(D \cup {e}, x, "shop_floor"))
                /\ New[x]["shop_name"] = New[x]["shop_floor"]
    <2>1. OfKind(D, x, "vault_setting_set") = {}
      BY <1>10 DEF OfKind
    <2>2. /\ Latest(t[x]["shop_floor"], Touching(D, x, "shop_floor"))
          /\ t[x]["shop_name"] = t[x]["shop_floor"]
      BY <2>1 DEF NameRight
    <2>3. Latest(New[x]["shop_floor"], Touching(D \cup {e}, x, "shop_floor"))
      BY <1>0, <1>7, <2>2, FieldFollows
    <2>4. New[x]["shop_name"] = New[x]["shop_floor"]
      BY <1>7, <1>8, <2>2 DEF Takes
    <2> QED  BY <2>3, <2>4
  <1> QED  BY <1>9, <1>10 DEF NameRight, New

\* The name of the kaata, on both sides.
LEMMA SettingFollows ==
    ASSUME NEW x \in Object, NEW D \in SUBSET Event, NameAt(x),
           NEW t \in Table, NameRight(t[x], D, x),
           NEW e \in Event, Target[e] = x, Kind[e] = "vault_setting_set",
           NEW u \in Table, Takes(t[x]["setting"], u[x]["setting"], e, "setting")
    PROVE  NameRight(u[x], D \cup {e}, x)
PROOF
  <1>1. t[x]["setting"] \in Event \cup {None}
    BY DEF Table, Field
  <1>2. Latest(u[x]["setting"], Touching(D \cup {e}, x, "setting"))
    BY <1>1, FieldFollows DEF NameRight
  <1>3. OfKind(D \cup {e}, x, "vault_setting_set") # {}
    BY DEF OfKind
  <1> QED  BY <1>2, <1>3 DEF NameRight

\* A phone's names stay right,
LEMMA NameFollows ==
    ASSUME NEW x \in Object, NEW D \in SUBSET Event, NameAt(x),
           NEW t \in Table, NameRight(t[x], D, x),
           NEW e \in Event, Target[e] = x
    PROVE  NameRight(Apply(t, e)[x], D \cup {e}, x)
PROOF
  <1>1. CASE Kind[e] = "vault_setting_set"
    <2> DEFINE mirror == IF Exists(t, Target[e]) THEN {"shop_name"} ELSE {}
    <2>1. Apply(t, e) = IF Later(e, t[x]["setting"]) THEN Put(t, e, {"setting"} \cup mirror) ELSE t
      BY <1>1, NameFields DEF VaultSettingSet, Won
    <2>2. Put(t, e, {"setting"} \cup mirror) \in Table
      BY PutIs
    <2>3. Put(t, e, {"setting"} \cup mirror)[x]["setting"] = e
      BY PutIs DEF Field
    <2>4. Touches(e) = {"setting"}
      BY <1>1, NameFields
    <2> HIDE DEF mirror
    <2>5. Apply(t, e) \in Table
      BY <2>1, <2>2
    <2>6. Takes(t[x]["setting"], Apply(t, e)[x]["setting"], e, "setting")
      BY <2>1, <2>3, <2>4 DEF Takes
    <2> QED  BY <1>1, <2>5, <2>6, SettingFollows
  <1>2. CASE Kind[e] = "shop_profile_updated"
    BY <1>2, ShopFollows
  <1> QED  BY <1>1, <1>2, NameFields

\* and the server's.
LEMMA NameFolds ==
    ASSUME NEW x \in Object, NEW D \in SUBSET Event, NameAt(x),
           NEW t \in Table, NameRight(t[x], D, x),
           NEW e \in Event \ D, Target[e] = x, \A d \in D : Hlc[d] < Hlc[e]
    PROVE  NameRight(ServerApply(e, t)[x], D \cup {e}, x)
PROOF
  <1>1. CASE Kind[e] = "vault_setting_set"
    <2> DEFINE mirror == IF Exists(t, Target[e]) /\ Won(t, e, {"shop_floor"}) # {}
                         THEN {"shop_name", "shop_floor"} ELSE {}
    <2>1. ServerApply(e, t) = Put(t, e, {"setting"} \cup mirror)
      BY <1>1, NameFields DEF ServerSetting
    <2>2. ServerApply(e, t) \in Table /\ ServerApply(e, t)[x]["setting"] = e
      BY <2>1, PutIs DEF Field
    <2>3. Later(e, t[x]["setting"])
      BY DEF NameRight, Later, Latest, Touching
    <2>4. Takes(t[x]["setting"], ServerApply(e, t)[x]["setting"], e, "setting")
      BY <1>1, <2>2, <2>3, NameFields DEF Takes
    <2> QED  BY <1>1, <2>2, <2>4, SettingFollows
  <1>2. CASE Kind[e] = "shop_profile_updated"
    <2>1. ServerApply(e, t) = Apply(t, e)
      BY <1>2, NameFields
    <2> QED  BY <1>2, <2>1, ShopFollows
  <1> QED  BY <1>1, <1>2, NameFields

-----------------------------------------------------------------------------
(* Entries                                                                   *)

\* The amendments that name a currency.
Naming(D, x) == {e \in OfKind(D, x, "entry_amended") : "currency" \in Fields[e]}

\* The unit of the amount, and the latest of the writes that show.  c created
\* the entry.
UnitRight(r, c, named) ==
    /\ r["original_currency"] = IF named THEN c ELSE None
    /\ r["currency"] = IF r["amount_afn"] # c /\ "currency" \in Fields[r["amount_afn"]]
                       THEN r["amount_afn"] ELSE c
    /\ \E f \in EntryField : r["current"] = r[f]
    /\ \A f \in EntryField : Hlc[r[f]] <= Hlc[r["current"]]

Blank == Field \ (EntryField \cup {"created", "deleted", "current", "currency", "original_currency"})

\* An entry is deleted when something deletes it; until then each field belongs
\* to the latest event about it.
EntryRight(r, D, x) ==
    /\ OfKind(D, x, "entry_created") = {} => r = [f \in Field |-> None]
    /\ r["deleted"] = None <=> OfKind(D, x, "entry_deleted") = {}
    /\ r["deleted"] = None =>
        /\ \A f \in EntryField : Latest(r[f], Touching(D, x, f))
        /\ \A f \in Blank : r[f] = None
        /\ \A c \in OfKind(D, x, "entry_created") : UnitRight(r, c, Naming(D, x) # {})

\* What may be said about an entry, and the fields of the row after it.
LEMMA EntryFields ==
    ASSUME NEW x \in Object, EntryAt(x), NEW e \in Event, Target[e] = x, NEW t \in Table
    PROVE  /\ Kind[e] \in {"entry_created", "entry_amended", "entry_deleted"}
           /\ ~Missing(t, e) => ServerApply(e, t) = Apply(t, e)
           /\ Kind[e] = "entry_created" => Apply(t, e) = EntryCreated(t, e) /\ Touches(e) = EntryField
           /\ Kind[e] = "entry_amended" =>
                Apply(t, e) = EntryAmended(t, e) /\ Touches(e) = Fields[e] \cap EntryField
           /\ Kind[e] = "entry_deleted" => Apply(t, e) = EntryDeleted(t, e) /\ Touches(e) = {}
PROOF
  <1>1. Kind[e] \in {"entry_created", "entry_amended", "entry_deleted"}
    BY TargetAssumption DEF EntryAt, Families
  <1>2. ~Missing(t, e) => ServerApply(e, t) = Apply(t, e)
    BY <1>1 DEF ServerApply, Changes
  <1>3. CASE Kind[e] = "entry_created"
    BY <1>1, <1>2, <1>3 DEF Apply, Touches
  <1>4. CASE Kind[e] = "entry_amended"
    BY <1>1, <1>2, <1>4 DEF Apply, Touches
  <1>5. CASE Kind[e] = "entry_deleted"
    BY <1>1, <1>2, <1>5 DEF Apply, Touches, Changes
  <1> QED  BY <1>1, <1>3, <1>4, <1>5

\* An entry's first event is the one that creates it; later ones find it.
LEMMA EntryIsBorn ==
    ASSUME NEW x \in Object, Sound(x), NEW D \in SUBSET Event, Rooted(D, x), EntryAt(x),
           NEW e \in Event \ D, Target[e] = x, Kind[e] = "entry_created"
    PROVE  \A d \in D : Target[d] # x
PROOF
  <1> SUFFICES ASSUME NEW d \in D, Target[d] = x PROVE FALSE
    OBVIOUS
  <1>1. Kind[d] \in {"entry_created", "entry_amended", "entry_deleted"}
    BY TargetAssumption DEF EntryAt, Families
  <1>2. Kind[d] # "entry_created"
    BY DEF Sound, Births
  <1>3. PICK b \in D : Target[b] = x /\ Kind[b] \in Births
    BY <1>1, <1>2 DEF Rooted, NeedsRow
  <1>4. Kind[b] = "entry_created"
    BY <1>3, TargetAssumption DEF EntryAt, Families, Births
  <1> QED  BY <1>3, <1>4 DEF Sound, Births

\* A correction that finds its row was preceded by the creation.
LEMMA EntryIsFound ==
    ASSUME NEW x \in Object, NEW D \in SUBSET Event, EntryAt(x), NEW t \in Table,
           BornRight(t[x], D, x),
           NEW e \in Event, Target[e] = x, Kind[e] \in {"entry_amended", "entry_deleted"},
           ~Missing(t, e)
    PROVE  \E c \in D : c \in OfKind(D, x, "entry_created")
PROOF
  <1>1. PICK c \in D : Target[c] = x /\ Kind[c] \in Births \cup {"shop_profile_updated"}
    BY DEF BornRight, Missing, NeedsRow, Exists
  <1>2. Kind[c] = "entry_created"
    BY <1>1, TargetAssumption DEF EntryAt, Families, Births
  <1> QED  BY <1>1, <1>2 DEF OfKind

\* A row that is just created.
LEMMA CreateFollows ==
    ASSUME NEW x \in Object, Sound(x), NEW D \in SUBSET Event, Rooted(D, x), EntryAt(x),
           NEW t \in Table, NEW e \in Event \ D, Target[e] = x, Kind[e] = "entry_created"
    PROVE  EntryRight(EntryCreated(t, e)[x], D \cup {e}, x)
PROOF
  <1> DEFINE r == EntryCreated(t, e)[x]
  <1>1. \A f \in Field : r[f] = IF f \in EntryField \cup {"created", "current", "currency"}
                                THEN e ELSE None
    BY DEF EntryCreated, Table
  <1>2. \A d \in D : Target[d] # x
    BY EntryIsBorn
  <1>3. Touches(e) = EntryField
    BY EntryFields
  <1>4. /\ OfKind(D \cup {e}, x, "entry_created") = {e}
        /\ OfKind(D \cup {e}, x, "entry_deleted") = {}
        /\ Naming(D \cup {e}, x) = {}
    BY <1>2 DEF OfKind, Naming
  <1>5. \A f \in EntryField : Touching(D \cup {e}, x, f) = {e}
    BY <1>2, <1>3 DEF Touching
  <1>6. Hlc[e] \in Nat
    BY EventAssumption
  <1> HIDE DEF r
  <1>7. /\ \A f \in EntryField : r[f] = e
        /\ \A f \in Blank : r[f] = None
        /\ r["deleted"] = None /\ r["original_currency"] = None
        /\ r["current"] = e /\ r["currency"] = e
    BY <1>1 DEF Blank, Field, EntryField
  <1>8. \A f \in EntryField : Latest(r[f], Touching(D \cup {e}, x, f))
    <2>1. Latest(e, {e})
      BY <1>6 DEF Latest
    <2> QED  BY <1>5, <1>7, <2>1
  <1>9. UnitRight(r, e, FALSE)
    <2>1. r["amount_afn"] = e /\ \E f \in EntryField : r["current"] = r[f]
      BY <1>7 DEF EntryField
    <2>2. \A f \in EntryField : Hlc[r[f]] <= Hlc[r["current"]]
      BY <1>6, <1>7
    <2> QED  BY <1>7, <2>1, <2>2 DEF UnitRight
  <1>10. EntryRight(r, D \cup {e}, x)
    BY <1>4, <1>7, <1>8, <1>9 DEF EntryRight
  <1> QED  BY <1>10 DEF r

\* A deletion marks the row and leaves it.
LEMMA DeleteFollows ==
    ASSUME NEW x \in Object, NEW D \in SUBSET Event, EntryAt(x), NEW t \in Table,
           BornRight(t[x], D, x),
           NEW e \in Event, Target[e] = x, Kind[e] = "entry_deleted", ~Missing(t, e)
    PROVE  EntryRight(EntryDeleted(t, e)[x], D \cup {e}, x)
PROOF
  <1>1. EntryDeleted(t, e)[x]["deleted"] = e /\ e # None
    BY PutIs, EventAssumption DEF EntryDeleted, Field
  <1>2. OfKind(D \cup {e}, x, "entry_created") # {}
    BY EntryIsFound DEF OfKind
  <1>3. OfKind(D \cup {e}, x, "entry_deleted") # {}
    BY DEF OfKind
  <1> QED  BY <1>1, <1>2, <1>3 DEF EntryRight

\* e corrects the row b to a and wins the fields S,
Corrects(b, a, e, S) ==
    /\ \A f \in EntryField : /\ b[f] \in Event \ {e}
                             /\ f \in S => Hlc[b[f]] < Hlc[e]
                             /\ a[f] = IF f \in S THEN e ELSE b[f]
    /\ a["current"] = IF S # {} /\ (\A f \in EntryField : Hlc[b[f]] < Hlc[e])
                      THEN e ELSE b["current"]

\* and the unit of the amount with them.
Converts(b, a, e, S) ==
    /\ a["original_currency"] = IF "currency" \in Fields[e] /\ b["original_currency"] = None
                                THEN b["currency"] ELSE b["original_currency"]
    /\ a["currency"] = IF "amount_afn" \in S
                       THEN UnitOf(b, a["original_currency"], e) ELSE b["currency"]

\* A row that is corrected: the fields e wins go to e, the rest of the row
\* follows from who has its fields.
LEMMA UnitFollows ==
    ASSUME NEW r \in [Field -> Event \cup {None}], NEW q \in [Field -> Event \cup {None}],
           NEW c \in Event, NEW e \in Event, e # c,
           NEW named \in BOOLEAN, UnitRight(r, c, named),
           ~named => "currency" \notin Fields[r["amount_afn"]] \/ r["amount_afn"] = c,
           NEW won \in SUBSET EntryField,
           Corrects(r, q, e, won), Converts(r, q, e, won)
    PROVE  UnitRight(q, c, named \/ "currency" \in Fields[e])
PROOF
  <1> USE DEF Corrects, Converts
  <1>0. c # None /\ "amount_afn" \in EntryField
    BY EventAssumption DEF EntryField
  <1>1. ~named => r["currency"] = c
    BY DEF UnitRight
  <1>2. q["original_currency"] = IF named \/ "currency" \in Fields[e] THEN c ELSE None
    <2>1. CASE named
      BY <1>0, <2>1 DEF UnitRight
    <2>2. CASE ~named
      BY <1>0, <1>1, <2>2 DEF UnitRight
    <2> QED  BY <2>1, <2>2
  <1>3. q["currency"] = IF q["amount_afn"] # c /\ "currency" \in Fields[q["amount_afn"]]
                        THEN q["amount_afn"] ELSE c
    <2>1. CASE "amount_afn" \notin won
      <3>1. q["amount_afn"] = r["amount_afn"] /\ q["currency"] = r["currency"]
        BY <1>0, <2>1
      <3> QED  BY <3>1 DEF UnitRight
    <2>2. CASE "amount_afn" \in won
      <3>1. q["amount_afn"] = e /\ q["currency"] = UnitOf(r, q["original_currency"], e)
        BY <1>0, <2>2
      <3>2. CASE "currency" \in Fields[e]
        BY <3>1, <3>2 DEF UnitOf
      <3>3. CASE "currency" \notin Fields[e]
        <4>1. CASE named
          BY <1>0, <1>2, <3>1, <3>3, <4>1 DEF UnitOf
        <4>2. CASE ~named
          BY <1>0, <1>1, <1>2, <3>1, <3>3, <4>2 DEF UnitOf
        <4> QED  BY <4>1, <4>2
      <3> QED  BY <3>2, <3>3
    <2> QED  BY <2>1, <2>2
  <1>4. PICK g \in EntryField : r["current"] = r[g] /\ \A f \in EntryField : Hlc[r[f]] <= Hlc[r[g]]
    BY DEF UnitRight
  <1>5. Hlc[e] \in Nat /\ \A f \in EntryField : Hlc[r[f]] \in Nat
    BY EventAssumption
  <1>6. (\E f \in EntryField : q["current"] = q[f]) /\ \A f \in EntryField : Hlc[q[f]] <= Hlc[q["current"]]
    <2>1. CASE won # {} /\ \A f \in EntryField : Hlc[r[f]] < Hlc[e]
      <3>1. q["current"] = e
        BY <2>1
      <3>2. PICK h \in won : TRUE
        BY <2>1
      <3>3. q[h] = e /\ h \in EntryField
        BY <3>2
      <3>4. \A f \in EntryField : Hlc[q[f]] <= Hlc[e]
        BY <1>5, <2>1
      <3> QED  BY <3>1, <3>3, <3>4
    <2>2. CASE won = {}
      <3>1. q["current"] = r[g] /\ \A f \in EntryField : q[f] = r[f]
        BY <1>4, <2>2
      <3> QED  BY <1>4, <3>1
    <2>3. CASE won # {} /\ \E h \in EntryField : ~(Hlc[r[h]] < Hlc[e])
      <3>1. q["current"] = r[g]
        BY <1>4, <2>3
      <3>2. Hlc[e] <= Hlc[r[g]]
        BY <1>4, <1>5, <2>3
      <3>3. q[g] = r[g]
        BY <1>5, <3>2
      <3>4. \A f \in EntryField : Hlc[q[f]] <= Hlc[r[g]]
        BY <1>4, <3>2
      <3> QED  BY <3>1, <3>3, <3>4
    <2> QED  BY <2>1, <2>2, <2>3
  <1> QED  BY <1>2, <1>3, <1>6 DEF UnitRight

\* A correction gives each field to the later event and the amount its unit.
LEMMA AmendFollows ==
    ASSUME NEW x \in Object, Sound(x), NEW D \in SUBSET Event, EntryAt(x), NEW t \in Table,
           BornRight(t[x], D, x), EntryRight(t[x], D, x),
           NEW e \in Event \ D, Target[e] = x, Kind[e] = "entry_amended", ~Missing(t, e)
    PROVE  EntryRight(EntryAmended(t, e)[x], D \cup {e}, x)
PROOF
  <1> DEFINE r == t[x]
             won == Won(t, e, Fields[e] \cap EntryField)
             frozen == IF "currency" \in Fields[e] /\ r["original_currency"] = None
                       THEN r["currency"] ELSE r["original_currency"]
             unit == IF "amount_afn" \in won THEN UnitOf(r, frozen, e) ELSE r["currency"]
             top == IF won # {} /\ LatestWrite(t, e) THEN {"current"} ELSE {}
             q == EntryAmended(t, e)[x]
  <1>1. PICK c \in D : c \in OfKind(D, x, "entry_created")
    BY EntryIsFound
  <1>2. OfKind(D \cup {e}, x, "entry_created") = OfKind(D, x, "entry_created")
        /\ OfKind(D \cup {e}, x, "entry_deleted") = OfKind(D, x, "entry_deleted")
    BY DEF OfKind
  <1>3. CASE r["deleted"] # None
    <2>1. q = r
      BY <1>3 DEF EntryAmended
    <2> QED  BY <1>1, <1>2, <1>3, <2>1 DEF EntryRight
  <1>4. CASE r["deleted"] = None
    <2>1. /\ \A f \in EntryField : Latest(r[f], Touching(D, x, f))
          /\ \A f \in Blank : r[f] = None
          /\ \A d \in OfKind(D, x, "entry_created") : UnitRight(r, d, Naming(D, x) # {})
          /\ OfKind(D, x, "entry_deleted") = {}
      BY <1>4 DEF EntryRight
    <2>2. \A f \in EntryField : c \in Touching(D, x, f)
      BY <1>1, EntryFields DEF Touching, OfKind
    <2>3. \A f \in EntryField : r[f] \in D /\ r[f] \in Event \ {e} /\ Hlc[r[f]] \in Nat
                                /\ r[f] \in Touching(D, x, f)
      BY <2>1, <2>2, EventAssumption DEF Latest, Touching
    <2>4. won \in SUBSET EntryField
          /\ \A f \in EntryField : f \in won <=> f \in Touches(e) /\ Later(e, r[f])
      BY EntryFields DEF Won
    <2>5. \A f \in EntryField : Later(e, r[f]) <=> Hlc[r[f]] < Hlc[e]
      BY <2>3, EventAssumption DEF Later
    <2>6. LatestWrite(t, e) <=> \A f \in EntryField : Hlc[r[f]] < Hlc[e]
      BY <2>3, <2>5 DEF LatestWrite
    <2>7. q = [f \in Field |-> IF f \in won \cup top THEN e
                               ELSE IF f = "original_currency" THEN frozen
                               ELSE IF f = "currency" THEN unit
                               ELSE r[f]]
      <3>1. \A s : [t EXCEPT ![Target[e]] = s][x] = s
        BY DEF Table
      <3>2. EntryAmended(t, e) =
              [t EXCEPT ![Target[e]] =
                [f \in Field |-> IF f \in won \cup top THEN e
                                 ELSE IF f = "original_currency" THEN frozen
                                 ELSE IF f = "currency" THEN unit
                                 ELSE r[f]]]
        BY <1>4, Zenon DEF EntryAmended
      <3> QED  BY <3>1, <3>2
    <2>8. top = IF won # {} /\ (\A f \in EntryField : Hlc[r[f]] < Hlc[e]) THEN {"current"} ELSE {}
      BY <2>6
    <2>9. r \in [Field -> Event \cup {None}] /\ e # None
      BY EventAssumption DEF Table
    <2>10. frozen \in Event \cup {None} /\ unit \in Event \cup {None}
      BY <2>9 DEF UnitOf, Field
    <2>11. /\ frozen = IF "currency" \in Fields[e] /\ r["original_currency"] = None
                       THEN r["currency"] ELSE r["original_currency"]
           /\ unit = IF "amount_afn" \in won THEN UnitOf(r, frozen, e) ELSE r["currency"]
      OBVIOUS
    <2> HIDE DEF q, won, top, frozen, unit, r
    <2>12. q \in [Field -> Event \cup {None}]
      BY <2>7, <2>9, <2>10
    <2>13. /\ \A f \in EntryField : q[f] = IF f \in won THEN e ELSE r[f]
           /\ \A f \in Blank : q[f] = r[f]
           /\ q["original_currency"] = frozen /\ q["currency"] = unit
           /\ q["deleted"] = r["deleted"]
           /\ q["current"] = IF top = {} THEN r["current"] ELSE e
      BY <2>4, <2>7, <2>8 DEF Field, EntryField, Blank
    <2>14. q["current"] = IF won # {} /\ (\A f \in EntryField : Hlc[r[f]] < Hlc[e])
                          THEN e ELSE r["current"]
      BY <2>8, <2>13
    <2>15. ASSUME NEW f \in EntryField PROVE Latest(q[f], Touching(D \cup {e}, x, f))
      <3>1. Takes(r[f], q[f], e, f)
        BY <2>4, <2>13 DEF Takes
      <3> QED  BY <2>1, <2>3, <3>1, FieldFollows
    <2>16. Naming(D \cup {e}, x) # {} <=> (Naming(D, x) # {} \/ "currency" \in Fields[e])
      BY DEF Naming, OfKind
    <2>17. ASSUME NEW d \in OfKind(D, x, "entry_created")
           PROVE  UnitRight(q, d, Naming(D, x) # {} \/ "currency" \in Fields[e])
      <3>1. d \in Event /\ e # d
        BY DEF OfKind
      <3>2. Naming(D, x) = {} => "currency" \notin Fields[r["amount_afn"]] \/ r["amount_afn"] = d
        <4> DEFINE a == r["amount_afn"]
        <4>1. a \in D /\ Target[a] = x /\ "amount_afn" \in Touches(a)
          BY <2>3 DEF Touching, EntryField
        <4>2. Kind[a] \in {"entry_created", "entry_amended"}
          BY <4>1, EntryFields
        <4>3. Kind[a] = "entry_created" => a = d
          BY <4>1 DEF Sound, OfKind, Births
        <4> QED  BY <4>1, <4>2, <4>3 DEF Naming, OfKind
      <3>3. UnitRight(r, d, Naming(D, x) # {}) /\ (Naming(D, x) # {}) \in BOOLEAN
        BY <2>1
      <3>4. \A f \in EntryField : f \in won => Hlc[r[f]] < Hlc[e]
        BY <2>4, <2>5
      <3> DEFINE named == Naming(D, x) # {}
      <3>5. ~named => "currency" \notin Fields[r["amount_afn"]] \/ r["amount_afn"] = d
        BY <3>2
      <3>6. named \in BOOLEAN /\ UnitRight(r, d, named)
        BY <3>3
      <3> HIDE DEF named
      <3>7. UnitRight(q, d, named \/ "currency" \in Fields[e])
        <4>1. Corrects(r, q, e, won)
          BY <2>3, <2>13, <2>14, <3>4 DEF Corrects
        <4>2. Converts(r, q, e, won)
          BY <2>11, <2>13 DEF Converts
        <4>3. won \in SUBSET EntryField
          BY <2>4
        <4> QED  BY <2>9, <2>12, <3>1, <3>5, <3>6, <4>1, <4>2, <4>3, UnitFollows
      <3> QED  BY <3>7 DEF named
    <2>18. \A d \in OfKind(D, x, "entry_created") : UnitRight(q, d, Naming(D \cup {e}, x) # {})
      BY <2>16, <2>17 DEF UnitRight
    <2>19. EntryRight(q, D \cup {e}, x)
      BY <1>1, <1>2, <1>4, <2>1, <2>13, <2>15, <2>18 DEF EntryRight
    <2> QED  BY <2>19 DEF q
  <1> QED  BY <1>3, <1>4

\* A correction that is replayed after it was taken in changes nothing.
LEMMA AmendAgain ==
    ASSUME NEW x \in Object, NEW D \in SUBSET Event, Rooted(D, x), EntryAt(x),
           NEW t \in Table, EntryRight(t[x], D, x),
           NEW e \in D, Target[e] = x, Kind[e] = "entry_amended"
    PROVE  EntryAmended(t, e)[x] = t[x]
PROOF
  <1> DEFINE r == t[x]
             won == Won(t, e, Fields[e] \cap EntryField)
             frozen == IF "currency" \in Fields[e] /\ r["original_currency"] = None
                       THEN r["currency"] ELSE r["original_currency"]
             unit == IF "amount_afn" \in won THEN UnitOf(r, frozen, e) ELSE r["currency"]
             top == IF won # {} /\ LatestWrite(t, e) THEN {"current"} ELSE {}
  <1>1. EntryAmended(t, e) = IF r["deleted"] # None THEN t
                             ELSE Amended(t, e, won \cup top, frozen, unit)
    BY Zenon DEF EntryAmended, Amended
  <1>2. CASE r["deleted"] # None
    BY <1>1, <1>2
  <1>3. CASE r["deleted"] = None
    <2>1. PICK c \in D : c \in OfKind(D, x, "entry_created")
      <3>1. PICK b \in D : Target[b] = x /\ Kind[b] \in Births
        BY DEF Rooted, NeedsRow
      <3>2. Kind[b] = "entry_created"
        BY <3>1, EntryFields DEF Births
      <3> QED  BY <3>1, <3>2 DEF OfKind
    <2>2. /\ \A f \in EntryField : Latest(r[f], Touching(D, x, f))
          /\ r["original_currency"] = IF Naming(D, x) # {} THEN c ELSE None
      BY <1>3, <2>1 DEF EntryRight, UnitRight
    <2>3. ASSUME NEW f \in EntryField, f \in Fields[e] PROVE ~Later(e, r[f])
      <3>1. e \in Touching(D, x, f)
        BY <2>3, EntryFields DEF Touching
      <3>2. r[f] \in D /\ Hlc[e] <= Hlc[r[f]]
        BY <2>2, <3>1 DEF Latest, Touching
      <3> QED  BY <3>2, EventAssumption DEF Later
    <2>4. won = {}
      BY <2>3 DEF Won
    <2>5. top = {} /\ unit = r["currency"]
      BY <2>4
    <2>6. frozen = r["original_currency"]
      <3>1. "currency" \in Fields[e] => Naming(D, x) # {}
        BY DEF Naming, OfKind
      <3> QED  BY <2>1, <2>2, <3>1, EventAssumption
    <2>7. EntryAmended(t, e) = Amended(t, e, {}, r["original_currency"], r["currency"])
      BY <1>1, <1>3, <2>4, <2>5, <2>6
    <2>8. Amended(t, e, {}, r["original_currency"], r["currency"])[x] = [f \in Field |-> r[f]]
      BY DEF Amended, Table
    <2>9. r = [f \in Field |-> r[f]]
      BY DEF Table
    <2> QED  BY <2>7, <2>8, <2>9
  <1> QED  BY <1>2, <1>3

\* Two rows that are right about the same events show the same.
LEMMA RightShowsOne ==
    ASSUME NEW x \in Object, NEW D \in SUBSET Event, EntryAt(x), NEW t \in Table, NEW u \in Table,
           EntryRight(t[x], D, x), EntryRight(u[x], D, x)
    PROVE  Shown(t, x) = Shown(u, x)
PROOF
  <1> DEFINE r == t[x]
             s == u[x]
             Look == Field \ {"shop_floor", "created"}
  <1>1. r["deleted"] = None <=> s["deleted"] = None
    BY DEF EntryRight
  <1>2. CASE r["deleted"] # None
    BY <1>1, <1>2 DEF Shown
  <1>3. CASE r["deleted"] = None
    <2>1. ASSUME \A f \in Look : r[f] = s[f] PROVE Shown(t, x) = Shown(u, x)
      BY <1>1, <1>3, <2>1 DEF Shown
    <2>2. CASE OfKind(D, x, "entry_created") = {}
      BY <2>1, <2>2 DEF EntryRight
    <2>3. CASE OfKind(D, x, "entry_created") # {}
      <3>1. PICK c \in D : c \in OfKind(D, x, "entry_created") /\ Target[c] = x /\ Kind[c] = "entry_created"
        BY <2>3 DEF OfKind
      <3>2. /\ \A f \in EntryField : Latest(r[f], Touching(D, x, f)) /\ Latest(s[f], Touching(D, x, f))
            /\ \A f \in Blank : r[f] = None /\ s[f] = None
            /\ UnitRight(r, c, Naming(D, x) # {}) /\ UnitRight(s, c, Naming(D, x) # {})
            /\ s["deleted"] = None
        BY <1>1, <1>3, <3>1 DEF EntryRight
      <3>3. \A f \in EntryField : Touching(D, x, f) \in SUBSET Event /\ c \in Touching(D, x, f)
        BY <3>1, EntryFields DEF Touching
      <3>4. \A f \in EntryField : r[f] = s[f] /\ r[f] \in Event
        BY <3>2, <3>3, LatestIsOne DEF Latest
      <3> HIDE DEF r, s
      <3>5. r["original_currency"] = s["original_currency"] /\ r["currency"] = s["currency"]
        BY <3>2, <3>4 DEF UnitRight, EntryField
      <3>6. r["current"] = s["current"]
        <4>1. PICK f \in EntryField : r["current"] = r[f] /\ \A h \in EntryField : Hlc[r[h]] <= Hlc[r[f]]
          BY <3>2 DEF UnitRight
        <4>2. PICK g \in EntryField : s["current"] = s[g] /\ \A h \in EntryField : Hlc[s[h]] <= Hlc[s[g]]
          BY <3>2 DEF UnitRight
        <4>3. Hlc[r[f]] <= Hlc[r[g]] /\ Hlc[r[g]] <= Hlc[r[f]] /\ s[g] = r[g]
          BY <3>4, <4>1, <4>2
        <4> QED  BY <3>4, <4>1, <4>2, <4>3, EventAssumption
      <3>7. \A f \in Look : r[f] = s[f]
        BY <1>3, <3>2, <3>4, <3>5, <3>6 DEF Blank
      <3> QED  BY <2>1, <3>7 DEF r, s
    <2> QED  BY <2>2, <2>3
  <1> QED  BY <1>2, <1>3

-----------------------------------------------------------------------------
(* The two folds, event by event                                             *)

Right(t, D, x) ==
    /\ BornRight(t[x], D, x)
    /\ EntryAt(x) => EntryRight(t[x], D, x)
    /\ PersonAt(x) => PersonRight(t[x], D, x)
    /\ NameAt(x) => NameRight(t[x], D, x)

\* A row is inserted by what creates it, and by nothing else.
LEMMA BornFollows ==
    ASSUME NEW x \in Object, NEW D \in SUBSET Event, NEW t \in Table, BornRight(t[x], D, x),
           NEW e \in Event, Target[e] = x
    PROVE  BornRight(Apply(t, e)[x], D \cup {e}, x) /\ BornRight(ServerApply(e, t)[x], D \cup {e}, x)
PROOF
  <1> DEFINE Inserts == Kind[e] \in Births \cup {"shop_profile_updated"}
  <1>0. "created" \in Field /\ "created" \notin EntryField /\ e # None
        /\ "created" # "original_currency" /\ "created" # "currency" /\ "created" # "current"
    BY EventAssumption DEF Field, EntryField
  <1>1. ASSUME NEW u, u[x]["created"] # None <=> (t[x]["created"] # None \/ Inserts)
        PROVE  BornRight(u[x], D \cup {e}, x)
    BY <1>1 DEF BornRight
  <1>2. \A S : Put(t, e, S)[x]["created"] = IF "created" \in S THEN e ELSE t[x]["created"]
    BY <1>0, PutIs
  <1>3. CASE Kind[e] = "entry_created"
    <2>1. Apply(t, e) = EntryCreated(t, e) /\ ServerApply(e, t) = Apply(t, e)
      BY <1>3 DEF Apply, ServerApply, Missing, NeedsRow, Changes
    <2>2. EntryCreated(t, e)[x]["created"] = e
      BY <1>0 DEF EntryCreated, Table
    <2> QED  BY <1>0, <1>1, <1>3, <2>1, <2>2 DEF Births
  <1>4. CASE Kind[e] = "person_added"
    <2>1. Apply(t, e) = PersonAdded(t, e) /\ ServerApply(e, t) = Apply(t, e)
      BY <1>4 DEF Apply, ServerApply, Missing, NeedsRow, Changes
    <2>2. PersonAdded(t, e)[x]["created"] = e
      BY <1>2 DEF PersonAdded
    <2> QED  BY <1>0, <1>1, <1>4, <2>1, <2>2 DEF Births
  <1>5. CASE Kind[e] = "shop_profile_updated"
    <2>1. Apply(t, e) = ShopProfileUpdated(t, e) /\ ServerApply(e, t) = Apply(t, e)
      BY <1>5 DEF Apply, ServerApply, Missing, NeedsRow, Changes
    <2>2. ShopProfileUpdated(t, e)[x]["created"] = IF Exists(t, x) THEN t[x]["created"] ELSE e
      BY <1>2 DEF ShopProfileUpdated
    <2>3. Apply(t, e)[x]["created"] # None /\ ServerApply(e, t)[x]["created"] # None
      BY <1>0, <2>1, <2>2 DEF Exists
    <2>4. Inserts
      BY <1>5
    <2> QED  BY <1>1, <2>3, <2>4
  <1>6. CASE ~Inserts
    <2>1. ASSUME NEW u, u[x]["created"] = t[x]["created"] PROVE BornRight(u[x], D \cup {e}, x)
      BY <1>1, <1>6, <2>1
    <2>2. Kind[e] \in Changes => "created" \notin Fields[e]
      <3> SUFFICES ASSUME Kind[e] \in Changes PROVE "created" \notin Fields[e]
        OBVIOUS
      <3>1. Fields[e] = {Register[Kind[e]]}
        BY FieldsAssumption
      <3> QED  BY <3>1 DEF Register, Changes
    <2>3. EntryAmended(t, e)[x]["created"] = t[x]["created"]
      <3> DEFINE won == Won(t, e, Fields[e] \cap EntryField)
                 top == IF won # {} /\ LatestWrite(t, e) THEN {"current"} ELSE {}
                 frozen == IF "currency" \in Fields[e] /\ t[x]["original_currency"] = None
                           THEN t[x]["currency"] ELSE t[x]["original_currency"]
                 unit == IF "amount_afn" \in won THEN UnitOf(t[x], frozen, e) ELSE t[x]["currency"]
      <3>1. EntryAmended(t, e) = IF t[x]["deleted"] # None THEN t
                                 ELSE Amended(t, e, won \cup top, frozen, unit)
        BY Zenon DEF EntryAmended, Amended
      <3>2. "created" \notin won \cup top
        BY <1>0 DEF Won
      <3> HIDE DEF won, top, frozen, unit
      <3>3. Amended(t, e, won \cup top, frozen, unit)[x]["created"] = t[x]["created"]
        BY <1>0, <3>2 DEF Amended, Table
      <3> QED  BY <3>1, <3>3
    <2>4. EntryDeleted(t, e)[x]["created"] = t[x]["created"]
      BY <1>2 DEF EntryDeleted
    <2>5. Kind[e] \in Changes => PersonChanged(t, e)[x]["created"] = t[x]["created"]
      BY <1>2, <2>2 DEF PersonChanged, Won
    <2>6. PersonArchived(t, e)[x]["created"] = t[x]["created"]
      BY <1>2 DEF PersonArchived, Won
    <2>7. VaultSettingSet(t, e)[x]["created"] = t[x]["created"]
      BY <1>2 DEF VaultSettingSet
    <2>8. /\ Put(t, e, Won(t, e, {"role"}))[x]["created"] = t[x]["created"]
          /\ Put(t, e, {"device"})[x]["created"] = t[x]["created"]
      BY <1>2 DEF Won
    <2>9. Apply(t, e)[x]["created"] = t[x]["created"]
      BY <1>6, <2>3, <2>4, <2>5, <2>6, <2>7, <2>8 DEF Apply, Births
    <2>10. Kind[e] \in Changes \cup {"person_archived"} =>
             ServerPerson(t, e)[x]["created"] = t[x]["created"]
      BY <1>2, <2>2 DEF ServerPerson
    <2>11. ServerSetting(t, e)[x]["created"] = t[x]["created"]
      BY <1>2 DEF ServerSetting
    <2>12. ServerApply(e, t)[x]["created"] = t[x]["created"]
      BY <2>9, <2>10, <2>11 DEF ServerApply
    <2> QED  BY <2>1, <2>9, <2>12
  <1> QED  BY <1>3, <1>4, <1>5, <1>6 DEF Births

\* What finds its row came after what created it.
LEMMA RootsFollow ==
    ASSUME NEW x \in Object, NEW D \in SUBSET Event, Rooted(D, x), NEW t \in Table,
           BornRight(t[x], D, x), NEW e \in Event, Target[e] = x => ~Missing(t, e)
    PROVE  Rooted(D \cup {e}, x)
PROOF
  <1> SUFFICES ASSUME Target[e] = x, Kind[e] \in NeedsRow
               PROVE  \E b \in D : Target[b] = x /\ Kind[b] \in Births
    BY DEF Rooted
  <1>1. PICK b \in D : Target[b] = x /\ Kind[b] \in Births \cup {"shop_profile_updated"}
    BY DEF Missing, Exists, BornRight
  <1>2. Kind[b] # "shop_profile_updated"
    <2> SUFFICES ASSUME Kind[b] = "shop_profile_updated" PROVE FALSE
      OBVIOUS
    <2>1. Kind[e] \in {"shop_profile_updated", "vault_setting_set"}
      BY <1>1, TargetAssumption DEF Families
    <2> QED  BY <2>1 DEF NeedsRow, Changes
  <1> QED  BY <1>1, <1>2

\* The phone's table stays right whatever event comes next, and whatever
\* change comes again,
LEMMA PhoneFollows ==
    ASSUME NEW x \in Object, Sound(x), NEW D \in SUBSET Event, Rooted(D, x),
           NEW t \in Table, Right(t, D, x),
           NEW e \in Event,
           Target[e] = x => ~Missing(t, e) /\ (e \notin D \/ Kind[e] \notin Births)
    PROVE  Right(Apply(t, e), D \cup {e}, x) /\ Rooted(D \cup {e}, x)
PROOF
  <1>1. Rooted(D \cup {e}, x)
    BY RootsFollow DEF Right
  <1>2. CASE Target[e] # x
    <2>1. Apply(t, e)[x] = t[x]
      BY <1>2, Elsewhere
    <2>2. \A f : Touching(D \cup {e}, x, f) = Touching(D, x, f)
      BY <1>2 DEF Touching
    <2>3. (\A k : OfKind(D \cup {e}, x, k) = OfKind(D, x, k)) /\ Naming(D \cup {e}, x) = Naming(D, x)
      BY <1>2 DEF OfKind, Naming
    <2>4. BornRight(t[x], D \cup {e}, x)
      BY <1>2 DEF Right, BornRight
    <2> QED  BY <1>1, <2>1, <2>2, <2>3, <2>4 DEF Right, EntryRight, PersonRight, NameRight
  <1>3. CASE Target[e] = x
    <2>1. BornRight(Apply(t, e)[x], D \cup {e}, x)
      BY <1>3, BornFollows DEF Right
    <2>2. PersonAt(x) => PersonRight(Apply(t, e)[x], D \cup {e}, x)
      BY <1>3, PersonFollows DEF Right
    <2>3. NameAt(x) => NameRight(Apply(t, e)[x], D \cup {e}, x)
      BY <1>3, NameFollows DEF Right
    <2>4. ASSUME EntryAt(x) PROVE EntryRight(Apply(t, e)[x], D \cup {e}, x)
      <3>1. CASE Kind[e] = "entry_created"
        BY <1>3, <2>4, <3>1, EntryFields, CreateFollows DEF Births
      <3>2. CASE Kind[e] = "entry_amended" /\ e \notin D
        BY <1>3, <2>4, <3>2, EntryFields, AmendFollows DEF Right
      <3>3. CASE Kind[e] = "entry_amended" /\ e \in D
        <4>1. Apply(t, e)[x] = t[x] /\ D \cup {e} = D
          BY <1>3, <2>4, <3>3, EntryFields, AmendAgain DEF Right
        <4> QED  BY <2>4, <4>1 DEF Right
      <3>4. CASE Kind[e] = "entry_deleted"
        BY <1>3, <2>4, <3>4, EntryFields, DeleteFollows DEF Right
      <3> QED  BY <1>3, <2>4, <3>1, <3>2, <3>3, <3>4, EntryFields
    <2> QED  BY <1>1, <2>1, <2>2, <2>3, <2>4 DEF Right
  <1> QED  BY <1>2, <1>3

\* and the server's does when events come in clock order.
LEMMA ServerFollows ==
    ASSUME NEW x \in Object, Sound(x), NEW D \in SUBSET Event, Rooted(D, x),
           NEW t \in Table, Right(t, D, x),
           NEW e \in Event \ D, Target[e] = x => ~Missing(t, e), \A d \in D : Hlc[d] < Hlc[e]
    PROVE  Right(ServerApply(e, t), D \cup {e}, x)
PROOF
  <1>1. CASE Target[e] # x
    <2>1. Apply(t, e)[x] = t[x] /\ ServerApply(e, t)[x] = t[x]
      BY <1>1, Elsewhere
    <2>2. Right(Apply(t, e), D \cup {e}, x)
      BY PhoneFollows
    <2> QED  BY <2>1, <2>2 DEF Right
  <1>2. CASE Target[e] = x
    <2>1. BornRight(ServerApply(e, t)[x], D \cup {e}, x)
      BY <1>2, BornFollows DEF Right
    <2>2. PersonAt(x) => PersonRight(ServerApply(e, t)[x], D \cup {e}, x)
      BY <1>2, PersonFolds DEF Right
    <2>3. NameAt(x) => NameRight(ServerApply(e, t)[x], D \cup {e}, x)
      BY <1>2, NameFolds DEF Right
    <2>4. EntryAt(x) => ServerApply(e, t) = Apply(t, e)
      BY <1>2, EntryFields
    <2>5. EntryAt(x) => EntryRight(ServerApply(e, t)[x], D \cup {e}, x)
      BY <2>4, PhoneFollows DEF Right
    <2> QED  BY <2>1, <2>2, <2>3, <2>5 DEF Right
  <1> QED  BY <1>1, <1>2

\* No events, nothing in the tables.
LEMMA NothingIsRight ==
    ASSUME NEW x \in Object
    PROVE  Right(EmptyTable, {}, x) /\ Rooted({}, x) /\ EmptyTable \in Table /\ Accounts(EmptyTable)
PROOF
  <1>1. EmptyTable[x] = [f \in Field |-> None] /\ \A f \in Field : EmptyTable[x][f] = None
    BY DEF EmptyTable
  <1>2. (\A f : Touching({}, x, f) = {}) /\ (\A k : OfKind({}, x, k) = {})
    BY DEF Touching, OfKind
  <1>3. {"created", "deleted", "device", "setting", "shop_name", "shop_floor", "display_name", "phone_e164",
         "archived_at", "default_entry_currency"} \subseteq Field /\ EntryField \subseteq Field
        /\ Blank \subseteq Field
    BY DEF Field, Blank
  <1>4. BornRight(EmptyTable[x], {}, x)
    BY <1>1, <1>3 DEF BornRight
  <1>5. EntryRight(EmptyTable[x], {}, x)
    BY <1>1, <1>2, <1>3 DEF EntryRight, Latest
  <1>6. PersonRight(EmptyTable[x], {}, x) /\ NameRight(EmptyTable[x], {}, x)
    BY <1>1, <1>2, <1>3 DEF PersonRight, NameRight, Latest
  <1>7. EmptyTable \in Table /\ Accounts(EmptyTable)
    BY <1>3 DEF EmptyTable, Table, Accounts
  <1> QED  BY <1>4, <1>5, <1>6, <1>7 DEF Right, Rooted

\* The server's appliers make a table of a table, as the phone's do.
LEMMA ServerKeeps ==
    ASSUME NEW t \in Table, Accounts(t), NEW e \in Event
    PROVE  ServerApply(e, t) \in Table /\ Accounts(ServerApply(e, t))
PROOF
  <1>1. Apply(t, e) \in Table /\ Accounts(Apply(t, e))
    BY ApplyKeeps DEF Keeps
  <1>2. CASE Kind[e] \in Changes \cup {"person_archived", "vault_setting_set"}
    <2>1. \A d \in Event : Target[d] = Target[e] => Kind[d] # "entry_created"
      <3> SUFFICES ASSUME NEW d \in Event, Target[d] = Target[e], Kind[d] = "entry_created" PROVE FALSE
        OBVIOUS
      <3>1. Kind[e] \in {"entry_created", "entry_amended", "entry_deleted"}
        BY TargetAssumption DEF Families
      <3> QED  BY <1>2, <3>1 DEF Changes
    <2>2. \A S : Put(t, e, S) \in Table /\ Accounts(Put(t, e, S))
      BY <2>1, PutKeeps DEF Keeps
    <2>3. /\ ServerPerson(t, e) \in Table /\ Accounts(ServerPerson(t, e))
          /\ ServerSetting(t, e) \in Table /\ Accounts(ServerSetting(t, e))
      BY <2>2 DEF ServerPerson, ServerSetting
    <2> QED  BY <1>1, <2>3 DEF ServerApply
  <1>3. CASE Kind[e] \notin Changes \cup {"person_archived", "vault_setting_set"}
    BY <1>1, <1>3 DEF ServerApply
  <1> QED  BY <1>2, <1>3

(* What the server makes of a set of events is right.                       *)
LEMMA FoldIsRight ==
    ASSUME NEW x \in Object, Sound(x), NEW S \in SUBSET Event, IsFiniteSet(S), Rooted(S, x)
    PROVE  ServerFold(S) \in Table /\ Right(ServerFold(S), S, x)
PROOF
  <1> DEFINE Good(s) == /\ ServerFold(s) \in Table /\ Accounts(ServerFold(s))
                        /\ Right(ServerFold(s), s, x)
             G == {s \in SUBSET S : Rooted(s, x) => Good(s)}
  <1>1. ASSUME NEW s \in SUBSET S, s = {} PROVE s \in G
    BY <1>1, NothingIsRight, FoldUnfolds
  <1>2. ASSUME NEW s \in SUBSET S, s # {}, s \ {LatestOf(s)} \in G, Rooted(s, x) PROVE Good(s)
    <2> DEFINE m == LatestOf(s)
               r == s \ {m}
    <2>0. IsFiniteSet(s) /\ s \in SUBSET Event
      BY FS_Subset
    <2>1. m \in s /\ \A d \in s : Hlc[d] <= Hlc[m]
      BY <1>2, <2>0, LatestExists
    <2>2. ServerFold(s) = ServerApply(m, ServerFold(r))
      BY <1>2, <2>0, FoldUnfolds
    <2>3. r \in G
      BY <1>2
    <2> HIDE DEF m
    <2>4. \A d \in r : Hlc[d] < Hlc[m]
      BY <2>0, <2>1, EventAssumption
    <2>5. ASSUME NEW d \in s, Target[d] = x, Kind[d] \in NeedsRow
          PROVE  \E b \in r : Target[b] = x /\ Kind[b] \in Births
      <3>1. PICK b \in s : Target[b] = x /\ Kind[b] \in Births
        BY <1>2, <2>5 DEF Rooted
      <3>2. Hlc[b] < Hlc[d]
        BY <2>0, <2>5, <3>1 DEF Sound
      <3>3. b # m
        BY <2>0, <2>1, <2>5, <3>2, EventAssumption
      <3> QED  BY <3>1, <3>3
    <2>6. Rooted(r, x)
      BY <2>5 DEF Rooted
    <2>7. Good(r)
      BY <2>3, <2>6
    <2>8. Target[m] = x => ~Missing(ServerFold(r), m)
      BY <2>1, <2>5, <2>7 DEF Missing, Exists, Right, BornRight
    <2>9. m \in Event \ r /\ r \in SUBSET Event /\ r \cup {m} = s
      BY <2>0, <2>1
    <2> HIDE DEF r
    <2>10. ServerFold(s) \in Table /\ Accounts(ServerFold(s))
      BY <2>2, <2>7, <2>9, ServerKeeps
    <2>11. Right(ServerApply(m, ServerFold(r)), r \cup {m}, x)
      BY <2>4, <2>6, <2>7, <2>8, <2>9, ServerFollows
    <2>12. Right(ServerFold(s), s, x)
      BY <2>2, <2>9, <2>11
    <2> QED  BY <2>10, <2>12
  <1>3. \A s \in SUBSET S : s = {} => s \in G
    BY <1>1
  <1>4. \A s \in SUBSET S : s # {} /\ s \ {LatestOf(s)} \in G => s \in G
    BY <1>2
  <1> HIDE DEF G
  <1>5. S \in G
    BY <1>3, <1>4, ByLatest
  <1> QED  BY <1>5 DEF G

-----------------------------------------------------------------------------
(* Convergence                                                               *)

\* e lands in this step: it is written here, or it is the row that is replayed.
Lands(e) ==
    \/ row[e] = "absent" /\ row'[e] = "applied"
    \/ phase = "rows" /\ phase' = "verdict" /\ verdict' = "applied" /\ current' = e

\* Whatever is created on a row that is there finds it as it would make it.
NoOverwrite ==
    \A c \in Event :
        Kind[c] \in Births /\ Sound(Target[c]) /\ Lands(c) /\ Exists(table, Target[c])
            => table' = table

\* No kill and no failure between the two transactions of an applied row.
Stamped == phase = "verdict" /\ verdict = "applied" => Stamp \/ UNCHANGED sweepVars

\* The events D that the tables have taken in: what is applied, and what waits
\* although it was applied, for want of the mark.  The tables are right about D.
TakenIn(D) ==
    /\ Held \subseteq D /\ D \subseteq (Held \cup Stored) \cap Signed /\ IsFiniteSet(D)
    /\ phase = "verdict" /\ verdict = "applied" => current \in D
    /\ \A x \in Object : Sound(x) => Rooted(D, x) /\ Right(table, D, x)

\* All of it is marked, but for a row between its two transactions.
Marked(D) ==
    \A d \in D \cap Stored : phase = "verdict" /\ verdict = "applied" /\ current = d

ConvInv == (\E D \in SUBSET Event : TakenIn(D)) /\ SweepWaits

\* One event that finds its row.
LEMMA LandsRight ==
    ASSUME NEW D \in SUBSET Event, TakenIn(D), table \in Table,
           NEW e \in Event, ~Missing(table, e), table' = Apply(table, e), Lands(e), NoOverwrite,
           NEW x \in Object, Sound(x)
    PROVE  Rooted(D \cup {e}, x) /\ Right(table', D \cup {e}, x)
PROOF
  <1>1. Rooted(D, x) /\ Right(table, D, x)
    BY DEF TakenIn
  <1>2. CASE Target[e] = x /\ e \in D /\ Kind[e] \in Births
    <2>1. Exists(table, x)
      BY <1>1, <1>2 DEF Right, BornRight, Exists
    <2>2. table' = table /\ D \cup {e} = D
      BY <1>2, <2>1 DEF NoOverwrite
    <2> QED  BY <1>1, <2>2
  <1>3. CASE ~(Target[e] = x /\ e \in D /\ Kind[e] \in Births)
    <2>1. Right(Apply(table, e), D \cup {e}, x) /\ Rooted(D \cup {e}, x)
      BY <1>1, <1>3, PhoneFollows
    <2> QED  BY <2>1
  <1> QED  BY <1>2, <1>3

\* Empty tables are right.
LEMMA ConvStarts == Init => SweepWaits /\ TakenIn({}) /\ Marked({})
PROOF
  <1> SUFFICES ASSUME Init PROVE SweepWaits /\ TakenIn({}) /\ Marked({})
    OBVIOUS
  <1>1. Held = {}
    BY DEF Init, Held
  <1>2. TakenIn({}) /\ Marked({})
    BY <1>1, NothingIsRight, FS_EmptySet DEF TakenIn, Marked, Init
  <1>3. SweepWaits
    BY DEF Init, SweepWaits
  <1> QED  BY <1>2, <1>3

\* Every step that overwrites nothing keeps the tables right about what they
\* have taken in, and while no fault leaves a row unmarked, all of it is marked.
LEMMA StepTakesIn ==
    ASSUME IInv, SweepWaits, NEW D \in SUBSET Event, TakenIn(D), [Next]_vars, [NoOverwrite]_vars
    PROVE  /\ SweepWaits'
           /\ \E E \in SUBSET Event : TakenIn(E)' /\ (Marked(D) /\ [Stamped]_vars => Marked(E)')
PROOF
  <1> DEFINE Follows(E) == TakenIn(E)' /\ (Marked(D) /\ [Stamped]_vars => Marked(E)')
             Goal == \E E \in SUBSET Event : Follows(E)
  <1> SUFFICES Goal
    BY SweepGoesOn
  <1>0. /\ row \in [Event -> RowState] /\ table \in Table /\ todo \subseteq Event
        /\ phase = "verdict" => current \in Event
        /\ current \notin Mine /\ todo \cap Mine = {}
    BY DEF IInv, TypeOK, Replaying
  <1>3. ASSUME UNCHANGED table, Held \subseteq Held', Held' \subseteq D,
               D \subseteq Held' \cup Stored', D \cap Stored' \subseteq Stored,
               phase' = "verdict" /\ verdict' = "applied" => current' \in D
        PROVE  Follows(D)
    <2>1. TakenIn(D)'
      BY <1>3 DEF TakenIn
    <2>2. ASSUME Marked(D), [Stamped]_vars PROVE Marked(D)'
      <3>1. CASE ~(phase = "verdict" /\ verdict = "applied")
        BY <1>3, <2>2, <3>1 DEF Marked
      <3>2. CASE UNCHANGED sweepVars
        BY <1>3, <2>2, <3>2 DEF Marked, sweepVars
      <3>3. CASE phase = "verdict" /\ verdict = "applied" /\ Stamp
        <4>1. row' = [row EXCEPT ![current] = "applied"]
          BY <3>3 DEF Stamp
        <4>2. current \notin Stored'
          BY <1>0, <3>3, <4>1 DEF Stored
        <4> QED  BY <1>3, <2>2, <4>2 DEF Marked
      <3> QED  BY <2>2, <3>1, <3>2, <3>3 DEF Stamped, vars
    <2> QED  BY <2>1, <2>2
  <1>4. ASSUME NEW e \in Event, ~Missing(table, e), e \in Signed, table' = Apply(table, e), Lands(e),
               Held \subseteq Held', Held' \subseteq D \cup {e},
               D \cup {e} \subseteq Held' \cup Stored', (D \cap Stored') \ {e} \subseteq Stored,
               \/ UNCHANGED sweepVars /\ e \notin Stored'
               \/ phase = "rows" /\ phase' = "verdict" /\ verdict' = "applied" /\ current' = e,
               phase' = "verdict" /\ verdict' = "applied" => current' \in D \cup {e}
        PROVE  Follows(D \cup {e})
    <2>1. NoOverwrite
      <3>1. row' # row \/ phase' # phase
        BY <1>4 DEF Lands
      <3> QED  BY <3>1 DEF vars, sweepVars
    <2>2. \A x \in Object : Sound(x) => Rooted(D \cup {e}, x) /\ Right(table', D \cup {e}, x)
      BY <1>0, <1>4, <2>1, LandsRight
    <2>3. IsFiniteSet(D \cup {e})
      BY FS_AddElement DEF TakenIn
    <2>4. TakenIn(D \cup {e})'
      BY <1>4, <2>2, <2>3 DEF TakenIn
    <2>5. Marked(D) => Marked(D \cup {e})'
      BY <1>4 DEF Marked, sweepVars
    <2> QED  BY <2>4, <2>5
  <1>5. Held \subseteq D /\ D \subseteq Held \cup Stored /\ D \subseteq Signed
        /\ (phase = "verdict" /\ verdict = "applied" => current \in D)
    BY DEF TakenIn
  <1>6. ASSUME NEW e \in Event, row[e] = "absent", NEW s \in {"stored", "buried"},
               row' = [row EXCEPT ![e] = s], UNCHANGED <<table, sweepVars>>
        PROVE  Goal
    <2>1. \A d \in Event : row'[d] = IF d = e THEN s ELSE row[d]
      BY <1>0, <1>6
    <2>2. Held' = Held /\ e \notin D /\ Stored \subseteq Stored' /\ D \cap Stored' \subseteq Stored
      BY <1>5, <1>6, <2>1 DEF Held, Stored
    <2> QED  BY <1>3, <1>5, <1>6, <2>2 DEF sweepVars
  <1>7. ASSUME NEW e \in Event, LocalEvent(e) PROVE Goal
    <2>1. \A d \in Event : row'[d] = IF d = e THEN "applied" ELSE row[d]
      BY <1>0, <1>7 DEF LocalEvent
    <2>2. /\ row[e] = "absent" /\ ~Missing(table, e) /\ table' = Apply(table, e) /\ UNCHANGED sweepVars
          /\ e \in Signed
      BY <1>7, PhoneAssumption DEF LocalEvent
    <2>3. e \notin D /\ Lands(e) /\ Held' = Held \cup {e} /\ Stored' = Stored /\ e \notin Stored
      BY <1>5, <2>1, <2>2 DEF Held, Stored, Lands
    <2>4. Follows(D \cup {e})
      BY <1>4, <1>5, <2>2, <2>3 DEF sweepVars
    <2> QED  BY <2>4
  <1>8. ASSUME UNCHANGED <<row, table>>,
               phase' = "verdict" /\ verdict' = "applied" => phase = "verdict" /\ UNCHANGED <<verdict, current>>
        PROVE  Goal
    <2>1. Held' = Held /\ Stored' = Stored
      BY <1>8 DEF Held, Stored
    <2> QED  BY <1>3, <1>5, <1>8, <2>1
  <1>9. CASE Replay
    <2>1. PICK m \in Event : m = EarliestOf(todo) /\ m \in todo
      BY <1>0, <1>9, EarliestExists DEF Replay
    <2>2. /\ phase = "rows" /\ phase' = "verdict" /\ row' = row /\ current' = m /\ todo' = todo \ {m}
          /\ verdict' = Outcome(m)
          /\ table' = IF verdict' = "applied" THEN Apply(table, m) ELSE table
      BY <1>9, <2>1 DEF Replay
    <2>3. m \in Event /\ m \notin Mine /\ row[m] = "stored"
      BY <1>0, <2>1 DEF SweepWaits, Stored
    <2>5. Held' = Held /\ Stored' = Stored /\ m \in Stored
      BY <2>2, <2>3 DEF Held, Stored
    <2>6. CASE verdict' = "applied"
      <3>1. ~Missing(table, m) /\ m \in Signed
        BY <2>2, <2>3, <2>6, OutcomeSound DEF Carried
      <3>2. Lands(m)
        BY <2>2, <2>6 DEF Lands
      <3>3. table' = Apply(table, m) /\ current' \in D \cup {m}
        BY <2>2, <2>6
      <3>4. /\ Held \subseteq Held' /\ Held' \subseteq D \cup {m}
            /\ D \cup {m} \subseteq Held' \cup Stored' /\ (D \cap Stored') \ {m} \subseteq Stored
        BY <1>5, <2>5
      <3>5. Follows(D \cup {m})
        BY <1>4, <2>2, <2>3, <2>5, <2>6, <3>1, <3>2, <3>3, <3>4
      <3>6. D \cup {m} \in SUBSET Event
        BY <2>3
      <3> QED  BY <3>5, <3>6
    <2>7. CASE verdict' # "applied"
      BY <1>8, <2>2, <2>7
    <2> QED  BY <2>6, <2>7
  <1>10. CASE ReplayFails
    BY <1>8, <1>10 DEF ReplayFails
  <1>11. CASE Stamp
    <2>1. /\ phase = "verdict" /\ phase' = "rows" /\ UNCHANGED <<table, todo>>
          /\ current \in Event /\ row[current] = "stored" /\ current \notin todo
          /\ row' = [row EXCEPT ![current] = verdict]
      BY <1>0, <1>11 DEF Stamp, SweepWaits
    <2>2. \A d \in Event : row'[d] = IF d = current THEN verdict ELSE row[d]
      BY <1>0, <2>1
    <2>3. verdict = "buried" => current \notin D
      BY <1>5, <2>1 DEF SweepWaits
    <2>4. verdict \in RowState /\ verdict # "absent"
      BY <2>1 DEF IInv, Replaying, SweepWaits
    <2>5. /\ Held \subseteq Held' /\ Held' \subseteq D /\ D \subseteq Held' \cup Stored'
          /\ D \cap Stored' \subseteq Stored
      BY <1>5, <2>1, <2>2, <2>3, <2>4 DEF Held, Stored, RowState
    <2> QED  BY <1>3, <2>1, <2>5
  <1>12. CASE StampFails \/ SweepEnds \/ Crash
    <2>1. SweepIdle /\ UNCHANGED <<row, table>>
      BY <1>12 DEF StampFails, SweepEnds, Crash
    <2> QED  BY <1>8, <2>1 DEF SweepIdle
  <1>13. ASSUME NEW e \in Event, PullEvent(e) \/ MeshEvent(e) PROVE Goal
    <2>1. UNCHANGED <<table, sweepVars>>
      BY <1>13 DEF PullEvent, MeshEvent
    <2>2. CASE row' = row
      BY <1>8, <2>1, <2>2 DEF sweepVars
    <2>3. CASE row' # row
      <3>1. row[e] = "absent" /\ \E s \in {"stored", "buried"} : row' = [row EXCEPT ![e] = s]
        <4>1. row' = [row EXCEPT ![e] = "absent"] => row' = row \/ row[e] # "absent"
          BY <1>0
        <4> QED  BY <1>13, <2>3, <4>1 DEF PullEvent, MeshEvent, Verified
      <3> QED  BY <1>6, <2>1, <3>1
    <2> QED  BY <2>2, <2>3
  <1>14. CASE PullEnds \/ TimerFires \/ PullFails \/ Launch \/ Foreground \/ UNCHANGED vars
    <2>1. UNCHANGED <<row, table, sweepVars>>
      BY <1>14 DEF PullEnds, TimerFires, PullFails, Launch, Foreground, vars
    <2> QED  BY <1>8, <2>1 DEF sweepVars
  <1>15. CASE SweepStarts \/ NextPass
    <2>1. UNCHANGED <<row, table>> /\ phase' = "rows" /\ todo' = Stored
      BY <1>15 DEF SweepStarts, NextPass
    <2> QED  BY <1>8, <2>1
  <1> QED
    BY <1>7, <1>9, <1>10, <1>11, <1>12, <1>13, <1>14, <1>15 DEF Next, Arrive, Sweep, Fault

\* Settled, the tables have taken in what is held and nothing else.
LEMMA HeldIsInEffect ==
    ASSUME IInv, ConvInv, Settled, NEW x \in Object, Sound(x)
    PROVE  /\ Held \in SUBSET Event /\ table \in Table /\ ServerFold(Held) \in Table
           /\ Right(table, Held, x) /\ Right(ServerFold(Held), Held, x)
PROOF
  <1>1. PICK D \in SUBSET Event : TakenIn(D)
    BY DEF ConvInv
  <1>2. Held \in SUBSET Event /\ table \in Table
    BY DEF Held, IInv, TypeOK
  <1>3. IsFiniteSet(Held) /\ Rooted(Held, x) /\ Right(table, Held, x)
    <2>1. D = Held
      BY <1>1 DEF TakenIn, Settled
    <2> QED  BY <1>1, <2>1 DEF TakenIn
  <1> QED  BY <1>2, <1>3, FoldIsRight

\* So the tables are right after every step if none overwrites a row.
LEMMA ConvKeeps == IInv /\ ConvInv /\ [Next]_vars /\ [NoOverwrite]_vars => ConvInv'
PROOF
  <1> SUFFICES ASSUME IInv, ConvInv, [Next]_vars, [NoOverwrite]_vars PROVE ConvInv'
    OBVIOUS
  <1>1. PICK D \in SUBSET Event : TakenIn(D)
    BY DEF ConvInv
  <1>2. SweepWaits' /\ \E E \in SUBSET Event : TakenIn(E)'
    BY <1>1, StepTakesIn DEF ConvInv
  <1> QED  BY <1>2 DEF ConvInv

(* Whatever order the events arrive in, however the sweep interleaves with  *)
(* them and whatever marks fail, every field of every row belongs to the    *)
(* latest event that touches it among those the tables have taken in        *)
(* (compareFieldHLC in the appliers, sweep.ts), as long as no creation is   *)
(* replayed over a row that has changed.                                    *)
THEOREM TablesStayRight == Spec /\ [][NoOverwrite]_vars => []ConvInv
PROOF
  <1>1. Init => ConvInv
    BY ConvStarts DEF ConvInv
  <1> QED  BY <1>1, Invariance, ConvKeeps, PTL DEF Spec

\* The tables are right and all they have taken in is marked.
MarkedInv == SweepWaits /\ \E D \in SUBSET Event : TakenIn(D) /\ Marked(D)

\* Where all is marked, nothing is created on a row that is there: the row stems
\* from its only creation, which is marked and so neither lands nor is replayed.
LEMMA MarkedOverwritesNothing ==
    IInv /\ MarkedInv /\ [Next]_vars => [NoOverwrite]_vars
PROOF
  <1> SUFFICES ASSUME IInv, MarkedInv, [Next]_vars,
                      NEW c \in Event, Kind[c] \in Births, Sound(Target[c]), Lands(c),
                      Exists(table, Target[c])
               PROVE  FALSE
    BY DEF NoOverwrite
  <1>1. PICK D \in SUBSET Event : TakenIn(D) /\ Marked(D)
    BY DEF MarkedInv
  <1> DEFINE x == Target[c]
  <1>2. x \in Object
    BY DEF Object
  <1>3. PICK b \in D : Target[b] = x /\ Kind[b] \in Births \cup {"shop_profile_updated"}
    BY <1>1, <1>2 DEF TakenIn, Right, BornRight, Exists
  <1>4. Kind[b] = Kind[c]
    <2>1. CASE Kind[c] = "entry_created"
      BY <1>3, <2>1, TargetAssumption DEF Families, Births
    <2>2. CASE Kind[c] = "person_added"
      <3>1. Kind[b] \in {"person_added", "person_archived"} \cup Changes
        BY <1>3, <2>2, TargetAssumption DEF Families
      <3> QED  BY <1>3, <2>2, <3>1 DEF Births, Changes
    <2> QED  BY <2>1, <2>2 DEF Births
  <1>5. c \in D
    BY <1>3, <1>4 DEF Sound
  <1>6. CASE row[c] = "absent" /\ row'[c] = "applied"
    <2>1. c \in Held \cup Stored
      BY <1>1, <1>5 DEF TakenIn
    <2> QED  BY <1>6, <2>1 DEF Held, Stored
  <1>7. CASE phase = "rows" /\ phase' = "verdict" /\ current' = c
    <2>1. todo # {} /\ c = EarliestOf(todo)
      BY <1>7 DEF Next, vars, Arrive, PullEvent, MeshEvent, LocalEvent, PullEnds, TimerFires, PullFails,
         Sweep, SweepStarts, Replay, ReplayFails, Stamp, StampFails, NextPass, SweepEnds, SweepIdle,
         Fault, Crash, Launch, Foreground, sweepVars
    <2>2. c \in D \cap Stored
      BY <1>5, <2>1, EarliestExists DEF IInv, TypeOK, MarkedInv, SweepWaits
    <2> QED  BY <1>1, <1>7, <2>2 DEF Marked
  <1> QED  BY <1>6, <1>7 DEF Lands

\* And all stays marked while no fault falls between the two transactions.
LEMMA MarkedKeeps == IInv /\ MarkedInv /\ [Next]_vars /\ [Stamped]_vars => MarkedInv'
PROOF
  <1> SUFFICES ASSUME IInv, MarkedInv, [Next]_vars, [Stamped]_vars PROVE MarkedInv'
    OBVIOUS
  <1>1. PICK D \in SUBSET Event : TakenIn(D) /\ Marked(D)
    BY DEF MarkedInv
  <1>2. SweepWaits' /\ \E E \in SUBSET Event : TakenIn(E)' /\ (Marked(D) /\ [Stamped]_vars => Marked(E)')
    BY <1>1, MarkedOverwritesNothing, StepTakesIn DEF MarkedInv
  <1> QED  BY <1>1, <1>2 DEF MarkedInv

(* And none is, unless a kill or a failure falls between the two            *)
(* transactions of an applied row (replay.ts, applyVerdict in sweep.ts).    *)
THEOREM OverwritesNeedAFault == Spec /\ [][Stamped]_vars => [][NoOverwrite]_vars
PROOF
  <1>1. Init => MarkedInv
    BY ConvStarts DEF MarkedInv
  <1> QED  BY <1>1, Invariance, MarkedKeeps, MarkedOverwritesNothing, PTL DEF Spec

(* A phone that has settled shows the entries the server folds out of the   *)
(* same events (entries.ts against project.go), if every entry is created   *)
(* once and corrected by later clocks: its id is a random one.  Without     *)
(* NoOverwrite this is false: a creation that was applied but not marked is *)
(* replayed, and replaces a row the user has corrected meanwhile.           *)
THEOREM EntriesAgree ==
    ASSUME \A x \in Object : EntryAt(x) => Sound(x)
    PROVE  Spec /\ [][NoOverwrite]_vars => []EntriesConverge
PROOF
  <1>1. IInv /\ ConvInv => EntriesConverge
    <2> SUFFICES ASSUME IInv, ConvInv, Settled, NEW x \in Object, EntryAt(x)
                 PROVE  Shown(table, x) = Shown(ServerFold(Held), x)
      BY DEF EntriesConverge, EntryAt
    <2>1. /\ Held \in SUBSET Event /\ table \in Table /\ ServerFold(Held) \in Table
          /\ Right(table, Held, x) /\ Right(ServerFold(Held), Held, x)
      BY HeldIsInEffect
    <2> QED  BY <2>1, RightShowsOne DEF Right
  <1> QED  BY <1>1, Invariance, TablesStayRight, PTL

(* And the persons, the kaata's name and the shop's (persons.ts, settings   *)
(* and shop appliers against project.go), under the same two conditions.    *)
THEOREM RecordsAgree ==
    ASSUME \A x \in Object : PersonAt(x) \/ NameAt(x) => Sound(x)
    PROVE  Spec /\ [][NoOverwrite]_vars => []RecordsConverge
PROOF
  <1>1. ASSUME IInv, ConvInv, Settled, NEW e \in Event, Kind[e] = "person_added"
        PROVE  Agree(Target[e], {"display_name", "archived_at", "default_entry_currency"}
                         \cup IF "person_unarchived" \in About(Target[e]) THEN {}
                              ELSE {"phone_e164"})
    <2> DEFINE x == Target[e]
    <2>1. x \in Object /\ PersonAt(x) /\ Sound(x)
      BY <1>1 DEF Object, PersonAt
    <2>2. /\ Held \in SUBSET Event
          /\ PersonRight(table[x], Held, x) /\ PersonRight(ServerFold(Held)[x], Held, x)
      BY <1>1, <2>1, HeldIsInEffect DEF Right
    <2>3. \A f : Touching(Held, x, f) \in SUBSET Event
      BY <2>2 DEF Touching
    <2>4. \A f \in {"display_name", "archived_at", "default_entry_currency"} :
            table[x][f] = ServerFold(Held)[x][f]
      BY <2>2, <2>3, LatestIsOne DEF PersonRight
    <2>5. "person_unarchived" \notin About(x) => table[x]["phone_e164"] = ServerFold(Held)[x]["phone_e164"]
      <3> SUFFICES ASSUME "person_unarchived" \notin About(x)
                   PROVE  table[x]["phone_e164"] = ServerFold(Held)[x]["phone_e164"]
        OBVIOUS
      <3>1. OfKind(Held, x, "person_unarchived") = {}
        BY DEF About, OfKind
      <3> QED  BY <2>2, <2>3, <3>1, LatestIsOne DEF PersonRight
    <2> QED  BY <2>4, <2>5 DEF Agree
  <1>2. ASSUME IInv, ConvInv, Settled, NEW e \in Event,
               Kind[e] \in {"shop_profile_updated", "vault_setting_set"}
        PROVE  LET kinds == About(Target[e]) IN
               /\ Agree(Target[e], {"setting"})
               /\ "vault_setting_set" \notin kinds => Agree(Target[e], {"shop_name"})
    <2> DEFINE x == Target[e]
    <2>1. x \in Object /\ NameAt(x) /\ Sound(x)
      BY <1>2 DEF Object, NameAt
    <2>2. /\ Held \in SUBSET Event
          /\ NameRight(table[x], Held, x) /\ NameRight(ServerFold(Held)[x], Held, x)
      BY <1>2, <2>1, HeldIsInEffect DEF Right
    <2>3. \A f : Touching(Held, x, f) \in SUBSET Event
      BY <2>2 DEF Touching
    <2>4. table[x]["setting"] = ServerFold(Held)[x]["setting"]
      BY <2>2, <2>3, LatestIsOne DEF NameRight
    <2>5. "vault_setting_set" \notin About(x) => table[x]["shop_name"] = ServerFold(Held)[x]["shop_name"]
      <3> SUFFICES ASSUME "vault_setting_set" \notin About(x)
                   PROVE  table[x]["shop_name"] = ServerFold(Held)[x]["shop_name"]
        OBVIOUS
      <3>1. OfKind(Held, x, "vault_setting_set") = {}
        BY DEF About, OfKind
      <3> QED  BY <2>2, <2>3, <3>1, LatestIsOne DEF NameRight
    <2> QED  BY <2>4, <2>5 DEF Agree
  <1>3. IInv /\ ConvInv => RecordsConverge
    BY <1>1, <1>2 DEF RecordsConverge, PersonsConverge, NamesConverge
  <1> QED  BY <1>3, Invariance, TablesStayRight, PTL

=============================================================================
