------------------------------ MODULE Grimoire ------------------------------
(***************************************************************************)
(* The Grimoire: slicer profiles, print settings, and the attachments that *)
(* pin one of them to a loot (grimoire/, the grimoire and                  *)
(* grimoire-attachments routes, schema.grimoire.ts).  Every row has one    *)
(* owner, and nobody else reads or writes it.  A handler is one chain of   *)
(* database calls; a refused request changes nothing and is no step, and   *)
(* a kill between a row and its key leaves what a POST without one does.   *)
(***************************************************************************)
EXTENDS Listing

CONSTANTS ProfileIds, SettingIds,  \* random ids, each used once
          PinIds,     \* ids of attachments
          Payloads,   \* bodies: name, kinds and settings together
          BodyKeys,   \* Idempotency-Keys
          NoKey,
          Things,     \* pieces of loot
          MaxEdits    \* bound: requests that change something

ASSUME GrimoireAssumption ==
  /\ ProfileIds \cup SettingIds \subseteq RowIds
  /\ NoKey \notin BodyKeys
  /\ MaxEdits \in Nat

VARIABLES profiles, settings,  \* id -> row
          pins,                \* id -> attachment
          collector,           \* thing -> the owner of its collection (external)
          edits

grimoireVars == <<profiles, settings, pins, collector, edits, listingVars>>

Unused  == [at |-> "unused"]
Deleted == [at |-> "deleted"]
NoPin   == [is |-> FALSE]

SlicerProfiles(rows) ==
  \A id \in ProfileIds : rows[id].at = "there" =>
    rows[id] \in [at : {"there"}, owner : Users, payload : Payloads,
                  key : BodyKeys \cup {NoKey}, since : 1..MaxEdits]

PrintSettings(rows) ==
  \A id \in SettingIds : rows[id].at = "there" =>
    rows[id] \in [at : {"there"}, owner : Users, payload : Payloads,
                  key : BodyKeys \cup {NoKey}, since : 1..MaxEdits]

GrimoireAttachments(rows) ==
  \A a \in PinIds : rows[a].is =>
    rows[a] \in [is : {TRUE}, thing : Things, owner : Users,
                 to : ({"profile"} \X ProfileIds) \cup ({"setting"} \X SettingIds)]

GrimoireTypeOK ==
  /\ SlicerProfiles(profiles) /\ PrintSettings(settings) /\ GrimoireAttachments(pins)
  /\ collector \in [Things -> Users]
  /\ edits \in 0..MaxEdits

GrimoireInit ==
  /\ profiles = [id \in ProfileIds |-> Unused]
  /\ settings = [id \in SettingIds |-> Unused]
  /\ pins = [a \in PinIds |-> NoPin]
  /\ collector \in [Things -> Users]
  /\ edits = 0 /\ ListingInit

Edited == edits < MaxEdits /\ edits' = edits + 1

Own(rows, id, u) == rows[id].at = "there" /\ rows[id].owner = u

\* The row that a lookup by key finds: of several the oldest, whoever owns it.
Keyed(rows, key) == {id \in DOMAIN rows : rows[id].at = "there" /\ rows[id].key = key}
Replayed(rows, key, u) ==
  /\ key # NoKey
  /\ \E id \in Keyed(rows, key) :
       /\ \A x \in Keyed(rows, key) : rows[id].since <= rows[x].since
       /\ rows[id].owner = u

NewRow(u, payload, key) ==
  [at |-> "there", owner |-> u, payload |-> payload, key |-> key, since |-> edits + 1]

\* ON DELETE CASCADE.
Unpinned(table, id) ==
  pins' = [a \in PinIds |-> IF pins[a].is /\ pins[a].to = <<table, id>> THEN NoPin ELSE pins[a]]

-----------------------------------------------------------------------------
CreateSlicerProfile(u, payload, key) ==
  \E id \in ProfileIds :
    /\ profiles[id].at = "unused"
    /\ profiles' = [profiles EXCEPT ![id] = NewRow(u, payload, key)]

\* POST /grimoire/slicer-profiles: a key that finds a row of the user is answered
\* with it, or refused.
PostSlicerProfile(u) ==
  /\ Edited
  /\ \E key \in BodyKeys \cup {NoKey}, payload \in Payloads :
       ~ Replayed(profiles, key, u) /\ CreateSlicerProfile(u, payload, key)
  /\ UNCHANGED <<settings, pins, collector, listingVars>>

UpdateSlicerProfile(u, id, payload) ==
  /\ Own(profiles, id, u)
  /\ profiles' = [profiles EXCEPT ![id].payload = payload]

\* PATCH /grimoire/slicer-profiles/:id.
PatchSlicerProfile(u) ==
  /\ Edited
  /\ \E id \in ProfileIds, payload \in Payloads : UpdateSlicerProfile(u, id, payload)
  /\ UNCHANGED <<settings, pins, collector, listingVars>>

DeleteSlicerProfile(u, id) ==
  /\ Own(profiles, id, u)
  /\ profiles' = [profiles EXCEPT ![id] = Deleted]
  /\ Unpinned("profile", id) /\ NotOwed("profile", id)

\* DELETE /grimoire/slicer-profiles/:id.
RemoveSlicerProfile(u) ==
  /\ Edited
  /\ \E id \in ProfileIds : DeleteSlicerProfile(u, id)
  /\ UNCHANGED <<settings, collector>>

GetSlicerProfile(u, id) == Own(profiles, id, u)

ListSlicerProfiles(u, cursor) ==
  PageOf(After(cursor, {id \in ProfileIds : GetSlicerProfile(u, id)}))

\* GET /grimoire/slicer-profiles.
ProfilePage ==
  /\ Told("profile", ListSlicerProfiles(walk.who, walk.cursor))
  /\ UNCHANGED <<profiles, settings, pins, collector, edits>>

-----------------------------------------------------------------------------
CreatePrintSetting(u, payload, key) ==
  \E id \in SettingIds :
    /\ settings[id].at = "unused"
    /\ settings' = [settings EXCEPT ![id] = NewRow(u, payload, key)]

\* POST /grimoire/print-settings.
PostPrintSetting(u) ==
  /\ Edited
  /\ \E key \in BodyKeys \cup {NoKey}, payload \in Payloads :
       ~ Replayed(settings, key, u) /\ CreatePrintSetting(u, payload, key)
  /\ UNCHANGED <<profiles, pins, collector, listingVars>>

UpdatePrintSetting(u, id, payload) ==
  /\ Own(settings, id, u)
  /\ settings' = [settings EXCEPT ![id].payload = payload]

DeletePrintSetting(u, id) ==
  /\ Own(settings, id, u)
  /\ settings' = [settings EXCEPT ![id] = Deleted]
  /\ Unpinned("setting", id) /\ NotOwed("setting", id)

\* PATCH and DELETE /grimoire/print-settings/:id.
ChangePrintSetting(u) ==
  /\ Edited
  /\ \E id \in SettingIds :
       \/ DeletePrintSetting(u, id)
       \/ \E payload \in Payloads : UpdatePrintSetting(u, id, payload) /\ UNCHANGED <<pins, listingVars>>
  /\ UNCHANGED <<profiles, collector>>

GetPrintSetting(u, id) == Own(settings, id, u)

ListPrintSettings(u, cursor) ==
  PageOf(After(cursor, {id \in SettingIds : GetPrintSetting(u, id)}))

\* GET /grimoire/print-settings.
SettingPage ==
  /\ Told("setting", ListPrintSettings(walk.who, walk.cursor))
  /\ UNCHANGED <<profiles, settings, pins, collector, edits>>

ReadsGrimoire(u) ==
  /\ \/ WalkStarts(u, "profile", {id \in ProfileIds : GetSlicerProfile(u, id)})
     \/ WalkStarts(u, "setting", {id \in SettingIds : GetPrintSetting(u, id)})
  /\ UNCHANGED <<profiles, settings, pins, collector, edits>>

-----------------------------------------------------------------------------
LootBelongsToOwner(x, u) == collector[x] = u

\* POST /loot/:id/grimoire-attachments: exactly one target, and all of one owner.
AttachToLoot(u) ==
  /\ Edited
  /\ \E a \in PinIds, x \in Things :
       /\ ~ pins[a].is
       /\ LootBelongsToOwner(x, u)
       /\ \E to \in ({"profile"} \X ProfileIds) \cup ({"setting"} \X SettingIds) :
            /\ IF to[1] = "profile" THEN GetSlicerProfile(u, to[2]) ELSE GetPrintSetting(u, to[2])
            /\ pins' = [pins EXCEPT ![a] = [is |-> TRUE, thing |-> x, owner |-> u, to |-> to]]
  /\ UNCHANGED <<profiles, settings, collector, listingVars>>

\* DELETE /loot/:id/grimoire-attachments/:attachmentId.
DetachFromLoot(u) ==
  /\ Edited
  /\ \E a \in PinIds :
       /\ pins[a].is /\ pins[a].owner = u
       /\ pins' = [pins EXCEPT ![a] = NoPin]
  /\ UNCHANGED <<profiles, settings, collector, listingVars>>

\* A loot is moved to a collection of somebody else, which no attachment hears of.
LootChangesHands ==
  /\ Edited
  /\ \E x \in Things, u \in Users :
       collector[x] # u /\ collector' = [collector EXCEPT ![x] = u]
  /\ UNCHANGED <<profiles, settings, pins, listingVars>>

GrimoireNext ==
  \/ \E u \in Users :
       \/ PostSlicerProfile(u) \/ PatchSlicerProfile(u) \/ RemoveSlicerProfile(u)
       \/ PostPrintSetting(u) \/ ChangePrintSetting(u)
       \/ AttachToLoot(u) \/ DetachFromLoot(u)
       \/ ReadsGrimoire(u)
  \/ ProfilePage \/ SettingPage
  \/ LootChangesHands

GrimoireSpec == GrimoireInit /\ [][GrimoireNext]_grimoireVars

=============================================================================
