----------------------------- MODULE MCProjection -----------------------------
(* Small logs for TLC.  An event is a record of what the module's constants  *)
(* say of it; a configuration takes some of them.                            *)
EXTENDS Projection, TLC

CONSTANT Log        \* the names of the events this configuration has

Line(kind, target, hlc, fields, author, seen, since) ==
    [kind |-> kind, target |-> target, hlc |-> hlc, fields |-> fields,
     author |-> author, seen |-> seen, since |-> since]

\* The shop's owner "ali" writes on this phone and on another one; "bo" is
\* admitted with an earlier clock than his entry, his device with a later one.
Book ==
    "admit"   :> Line("vault_member_added", "bo", 1, {"role"}, "ali", {}, 1) @@
    "bind"    :> Line("vault_device_added", "bo", 8, {}, "ali", {"admit"}, 1) @@
    "create"  :> Line("entry_created", "x", 2, {}, "bo", {}, 1) @@
    "amount"  :> Line("entry_amended", "x", 5, {"amount_afn"}, "bo", {"create"}, 1) @@
    "unit"    :> Line("entry_amended", "x", 3, {"amount_afn", "currency"}, "ali", {"create"}, 2) @@
    "delete"  :> Line("entry_deleted", "x", 6, {}, "bo", {"create"}, 1) @@
    "mine"    :> Line("entry_created", "y", 30, {}, "ali", {}, 1) @@
    "tweak"   :> Line("entry_amended", "y", 37, {"amount_afn"}, "ali", {"mine"}, 1) @@
    "theirs"  :> Line("entry_amended", "y", 33, {"amount_afn", "currency"}, "ali", {"mine"}, 1) @@
    "theirs2" :> Line("entry_amended", "y", 39, {"note"}, "bo", {"mine"}, 1) @@
    "garbled" :> Line("person_renamed", "p", 26, {"display_name"}, "bo", {"add"}, 1) @@
    "legacy"  :> Line("person_renamed", "p", 28, {"display_name"}, "ali", {"add"}, 1) @@
    "sale"    :> Line("entry_created", "z", 41, {}, "ali", {}, 1) @@
    "edit"    :> Line("entry_amended", "z", 42, {"amount_afn"}, "ali", {"sale"}, 1) @@
    "fake"    :> Line("vault_member_added", "eve", 27, {"role"}, "bo", {}, 1) @@
    "add"     :> Line("person_added", "p", 21, {}, "ali", {}, 1) @@
    "archive" :> Line("person_archived", "p", 23, {}, "ali", {"add"}, 1) @@
    "restore" :> Line("person_unarchived", "p", 24, {"archived_at"}, "ali", {"add"}, 1) @@
    "rename"  :> Line("person_renamed", "p", 25, {"display_name"}, "ali", {"add"}, 1) @@
    "phone"   :> Line("person_phone_changed", "p", 22, {"phone_e164"}, "ali", {"add"}, 1) @@
    "shop"    :> Line("shop_profile_updated", "kaata", 51, {"shop_name"}, "ali", {}, 1) @@
    "sign"    :> Line("shop_profile_updated", "kaata", 52, {"shop_name"}, "ali", {}, 1) @@
    "name"    :> Line("vault_setting_set", "kaata", 53, {"name"}, "ali", {}, 1) @@
    "title"   :> Line("vault_setting_set", "kaata", 54, {"name"}, "ali", {}, 1)

MCKind == [e \in Log |-> Book[e].kind]
MCTarget == [e \in Log |-> Book[e].target]
MCHlc == [e \in Log |-> Book[e].hlc]
MCFields == [e \in Log |-> Book[e].fields]
MCAuthor == [e \in Log |-> Book[e].author]
MCSeen == [e \in Log |-> Book[e].seen \cap Log]
MCSince == [e \in Log |-> Book[e].since]
MCSigned == Log \ {"garbled", "legacy", "fake"}
MCUnsigned == Log \cap {"legacy", "fake"}

\* The events of one run of the model are those of one of these stories.
Stories ==
    { {"admit", "bind", "create", "unit", "amount"},
      {"admit", "bind", "create", "amount", "delete"},
      {"admit", "bind", "mine", "tweak", "theirs", "theirs2"},
      {"add", "archive", "restore", "phone", "rename"},
      {"shop", "sign", "name", "title"},
      {"add", "rename", "garbled", "legacy", "fake"} }

OneStory == \E S \in Stories : \A e \in Event : row[e] # "absent" => e \in S
=============================================================================
