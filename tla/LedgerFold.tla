------------------------------ MODULE LedgerFold ------------------------------
(***************************************************************************)
(* What the events of one kaata amount to.  A phone applies an event the   *)
(* moment it can (apps/mobile/lib/projection/*.ts: one applier per type,   *)
(* the winner of a field chosen by comparing clocks); the server sorts all *)
(* events by clock and folds them from nothing                             *)
(* (apps/backend/internal/sync/project.go).  Both are here as operators on *)
(* a table that holds, for every object and field, the event that wrote    *)
(* it: a value is what that event's payload says, so tables agree exactly  *)
(* when their values do.                                                   *)
(***************************************************************************)
EXTENDS Integers, FiniteSets, Folds

CONSTANTS
    Event,      \* the events somebody writes to this kaata
    Kind,       \* Kind[e]: its event_type
    Target,     \* Target[e]: the entry, person, account or kaata it is about
    Hlc,        \* Hlc[e]: its place in the total order of clocks
    Fields,     \* Fields[e]: what a changing event changes
    None        \* no event

\* Two events never carry the same clock reading (module HLCClock).
ASSUME EventAssumption ==
    /\ None \notin Event
    /\ Hlc \in [Event -> Nat]
    /\ \A d, e \in Event : Hlc[d] = Hlc[e] => d = e

-----------------------------------------------------------------------------
(* The table *)

Object == {Target[e] : e \in Event}

EntryField == {"amount_afn", "note", "type", "occurred_at_ms"}

\* "created" holds the event whose applier inserted the row; "current" is
\* current_event_id; "shop_floor" the clock shop_name is compared with.
Field ==
    EntryField \cup
    {"created", "deleted", "current", "currency", "original_currency",
     "display_name", "phone_e164", "archived_at", "default_entry_currency",
     "role", "device", "setting", "shop_name", "shop_floor"}

Table == [Object -> [Field -> Event \cup {None}]]

EmptyTable == [x \in Object |-> [f \in Field |-> None]]

Exists(t, x) == t[x]["created"] # None

\* e writes the fields S of its target.
Put(t, e, S) ==
    [t EXCEPT ![Target[e]] = [f \in Field |-> IF f \in S THEN e ELSE @[f]]]

\* compareFieldHLC: strictly later than what is stored, or nothing is.
Later(e, d) == d = None \/ Hlc[d] < Hlc[e]

Everything(t, e, S) == S  \* mutant: whoever arrives last wins

Won(t, e, S) == {f \in S : Later(e, t[Target[e]][f])}

-----------------------------------------------------------------------------
(* The phone's appliers *)

\* INSERT OR REPLACE: whatever the row held before is gone.
EntryCreated(t, e) ==
    [t EXCEPT ![Target[e]] =
        [f \in Field |-> IF f \in EntryField \cup {"created", "current", "currency"}
                         THEN e ELSE None]]

\* The clocks of all four fields are at or before e's.
LatestWrite(t, e) == \A f \in EntryField : Later(e, t[Target[e]][f]) \/ t[Target[e]][f] = e

\* The unit an amount is in once e wins the amount: the unit e names, or the
\* original one if a correction has frozen it, or the one it is in.
UnitOf(row, frozen, e) ==
    IF "currency" \in Fields[e] THEN e
    ELSE IF frozen # None THEN frozen ELSE row["currency"]

EntryAmended(t, e) ==
    LET row    == t[Target[e]]
        won    == Won(t, e, Fields[e] \cap EntryField)
        frozen == IF "currency" \in Fields[e] /\ row["original_currency"] = None
                  THEN row["currency"] ELSE row["original_currency"]
        unit   == IF "amount_afn" \in won THEN UnitOf(row, frozen, e) ELSE row["currency"]
        top    == IF won # {} /\ LatestWrite(t, e) THEN {"current"} ELSE {}
    IN  IF row["deleted"] # None THEN t
        ELSE [t EXCEPT ![Target[e]] =
                [f \in Field |-> IF f \in won \cup top THEN e
                                 ELSE IF f = "original_currency" THEN frozen
                                 ELSE IF f = "currency" THEN unit
                                 ELSE row[f]]]

EntryDeleted(t, e) == Put(t, e, {"deleted", "current"})

\* users: INSERT OR REPLACE; relationships: INSERT OR IGNORE.
PersonAdded(t, e) == Put(t, e, {"created", "display_name", "phone_e164"})

\* mutant: no clock of the person's fields is compared
LastArrival(t, e) == Put(t, e, Fields[e])

\* Renamed, phone changed, note set, default currency set, unarchived: one
\* register each, the later clock wins.
PersonChanged(t, e) == Put(t, e, Won(t, e, Fields[e]))

\* An archive also empties the phone number, and does neither when a later
\* event has decided the archive register.
PersonArchived(t, e) ==
    IF Won(t, e, {"archived_at"}) = {} THEN t
    ELSE Put(t, e, Won(t, e, {"archived_at", "phone_e164"}))

\* The shop profile is created on demand; shop_floor is its field clock.
ShopProfileUpdated(t, e) ==
    LET made == IF Exists(t, Target[e]) THEN {} ELSE {"created"}
        won  == IF Won(t, e, {"shop_floor"}) = {} THEN {} ELSE {"shop_name", "shop_floor"}
    IN  Put(t, e, made \cup won)

\* A rename of the kaata also overwrites an existing shop profile's name.
VaultSettingSet(t, e) ==
    LET mirror == IF Exists(t, Target[e]) THEN {"shop_name"} ELSE {}
    IN  IF Won(t, e, {"setting"}) = {} THEN t ELSE Put(t, e, {"setting"} \cup mirror)

Changes == {"person_renamed", "person_phone_changed", "person_note_set",
            "person_default_currency_set", "person_unarchived"}

\* The dispatch table APPLIERS.
Apply(t, e) ==
    IF Kind[e] = "entry_created" THEN EntryCreated(t, e)
    ELSE IF Kind[e] = "entry_amended" THEN EntryAmended(t, e)
    ELSE IF Kind[e] = "entry_deleted" THEN EntryDeleted(t, e)
    ELSE IF Kind[e] = "person_added" THEN PersonAdded(t, e)
    ELSE IF Kind[e] \in Changes THEN PersonChanged(t, e)
    ELSE IF Kind[e] = "person_archived" THEN PersonArchived(t, e)
    ELSE IF Kind[e] = "shop_profile_updated" THEN ShopProfileUpdated(t, e)
    ELSE IF Kind[e] = "vault_setting_set" THEN VaultSettingSet(t, e)
    ELSE IF Kind[e] = "vault_member_added" THEN Put(t, e, Won(t, e, {"role"}))
    ELSE IF Kind[e] = "vault_device_added" THEN Put(t, e, {"device"})
    ELSE t

\* The kinds whose applier refuses a remote event with MissingPrereqError
\* when the row it changes is not there.
NeedsRow == Changes \cup {"entry_amended", "entry_deleted", "person_archived"}

Missing(t, e) == Kind[e] \in NeedsRow /\ ~Exists(t, Target[e])

\* An id belongs to an entry, a person, a kaata or an account, and what is
\* written about it is written about that.
Families ==
    { {"entry_created", "entry_amended", "entry_deleted"},
      {"person_added", "person_archived"} \cup Changes,
      {"shop_profile_updated", "vault_setting_set"},
      {"vault_member_added", "vault_device_added"} }

ASSUME TargetAssumption ==
    \A d, e \in Event : Target[d] = Target[e] =>
        \A F \in Families : Kind[d] \in F => Kind[e] \in F

\* The field a change of a person is about.
Register ==
    [person_renamed |-> "display_name", person_phone_changed |-> "phone_e164",
     person_note_set |-> "note", person_default_currency_set |-> "default_entry_currency",
     person_unarchived |-> "archived_at"]

ASSUME FieldsAssumption ==
    \A e \in Event : Kind[e] \in Changes => Fields[e] = {Register[Kind[e]]}

-----------------------------------------------------------------------------
(* The server's fold *)

\* Persons carry no field clocks on the server: the sort decides.
ServerPerson(t, e) ==
    IF Kind[e] = "person_archived" THEN Put(t, e, {"archived_at", "phone_e164"})
    ELSE Put(t, e, Fields[e])

\* The rename of a kaata moves the profile's field clock here.
ServerSetting(t, e) ==
    LET mirror == IF Exists(t, Target[e]) /\ Won(t, e, {"shop_floor"}) # {}
                  THEN {"shop_name", "shop_floor"} ELSE {}
    IN  Put(t, e, {"setting"} \cup mirror)

\* applyOne: an event about a row that is not there is skipped.
ServerApply(e, t) ==
    IF Missing(t, e) THEN t
    ELSE IF Kind[e] \in Changes \cup {"person_archived"} THEN ServerPerson(t, e)
    ELSE IF Kind[e] = "vault_setting_set" THEN ServerSetting(t, e)
    ELSE Apply(t, e)

LatestOf(S) == CHOOSE e \in S : \A d \in S : Hlc[d] <= Hlc[e]

\* ApplyEvents: sort by clock, fold into a fresh projection.  The latest
\* event of S is applied to what the rest of S folds to.
ServerFold(S) == MapThenFoldSet(ServerApply, EmptyTable, LAMBDA e : e, LatestOf, S)

=============================================================================
