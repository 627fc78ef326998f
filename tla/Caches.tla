-------------------------------- MODULE Caches --------------------------------
(***************************************************************************)
(* What one server instance keeps in memory between requests: the features *)
(* that are off, the settings row, what each account may do, and the boot  *)
(* payloads.  All are kept with the config_version they were read at and   *)
(* are used only while that is current.                                    *)
(*                                                                         *)
(* Instances share nothing, so one stands for any.  A kept value may be    *)
(* gone at any time: it expired, the map was cleared, the instance is new, *)
(* or a settings page dropped it.                                          *)
(***************************************************************************)
EXTENDS OwnAccount

CONSTANTS
    FeatureOf,      \* the feature an action's code names
    PermissionOf    \* the code that shows a feature in the menu, Nothing where there is none

ASSUME CachesAssumption ==
    /\ FeatureOf \in [Actions -> Features]
    /\ PermissionOf \in [Features -> Actions \cup {Nothing}]

VARIABLE kept   \* the instance's memory

NothingKept ==
    kept = [off |-> [at |-> 0, value |-> {}], settings |-> [at |-> 0, value |-> {}],
            permissions |-> [a \in Accounts |-> [at |-> 0, value |-> {}]], payloads |-> {}]

\* A step that only reads, and may keep something.
Recall(t, next) == Look(t, next) /\ UNCHANGED kept
Keep(t, what, at, value, next) ==
    /\ Look(t, next)
    /\ kept' = [kept EXCEPT ![what] = [at |-> at, value |-> value]]
Reply(t, pc) == Leave(t, pc) /\ UNCHANGED kept

\* A value is found if it was read at this version, and looked up otherwise, or whenever it is gone.
Hit(what, version) == kept[what].at = version

-----------------------------------------------------------------------------
(* switched-off.js and settings-cache.js *)

\* A feature is off by itself or with its module.
IsOff(f) == db[f].is # "On" \/ (Parent[f] # Nothing /\ db[Parent[f]].is # "On")
OffNow == {f \in Features : IsOff(f)}

switched_off(t, version, next) ==
    \/ At(t, "off") /\ Hit("off", version) /\ Recall(t, [To(t, next) EXCEPT !.todo = kept.off.value])
    \/ At(t, "off") /\ Recall(t, [To(t, "keep_off") EXCEPT !.todo = OffNow])
    \/ At(t, "keep_off") /\ Keep(t, "off", version, tx[t].todo, To(t, next))

\* A request as the middleware lets it in: what the account may do and the version come from one read,
\* and a feature that is off refuses its actions.
requirePermission(t) ==
    LET its == tx[t].seen
    IN  /\ Do(t) = "enter"
        /\ \/ /\ At(t, "begin")
              /\ IF Sent(t) \in Held(By(t))
                 THEN Recall(t, [To(t, "off") EXCEPT !.seen = [version |-> db[ConfigVersion]]])
                 ELSE Reply(t, "failed")
           \/ switched_off(t, its.version, "verdict")
           \/ At(t, "verdict") /\ Reply(t, IF FeatureOf[Sent(t)] \in tx[t].todo THEN "failed" ELSE "done")

getSettings(t) ==
    /\ Do(t) = "settings"
    /\ \/ At(t, "begin") /\ Recall(t, [To(t, "row") EXCEPT !.seen = db[ConfigVersion]])
       \/ At(t, "row") /\ Hit("settings", tx[t].seen) /\ Reply(t, "done")
       \/ At(t, "row") /\ Recall(t, [To(t, "keep_row") EXCEPT !.fit = db[Settings]])
       \/ At(t, "keep_row") /\ Keep(t, "settings", tx[t].seen, tx[t].fit, Blank("done"))

-----------------------------------------------------------------------------
(* What an account may do *)

permissions_for(t) ==
    LET its == kept.permissions[By(t)]
    IN  /\ Do(t) = "may"
        /\ \/ At(t, "begin") /\ Recall(t, [To(t, "codes") EXCEPT !.seen = db[ConfigVersion]])
           \/ At(t, "codes") /\ its.at = tx[t].seen /\ Reply(t, "done")
           \/ At(t, "codes") /\ Recall(t, [To(t, "keep_codes") EXCEPT !.fit = Held(By(t))])
           \/ /\ At(t, "keep_codes")
              /\ Look(t, Blank("done"))
              /\ kept' = [kept EXCEPT !.permissions[By(t)] = [at |-> tx[t].seen, value |-> tx[t].fit]]

-----------------------------------------------------------------------------
(* The boot payload *)

\* Faulty form of payload_etag: the version of the configuration alone.
EtagOfVersion(version, role, account, edited) == <<version>>

\* payload_etag hashes the version, the role and the account's edited_on: a time of its own for every
\* edit, and nothing at all before the first.
payload_etag(version, role, account, edited) == <<version, role, IF edited = 0 THEN << >> ELSE <<account, edited>> >>

Etag(t) == payload_etag(tx[t].seen.version, tx[t].seen.role, By(t), tx[t].seen.edited)

Granted(role) == IF db[role].is = "Active" THEN db[role].grants ELSE {}

\* build_menu, from the rows that are not hidden: the features the account may see, the modules that
\* something is left of, and those without features that it may see.
build_menu(rows, held) ==
    LET there == {f \in Features : rows[f].is # "Hidden"}
        modules == {m \in there : Parent[m] = Nothing}
        Visible(f) == PermissionOf[f] \in held \cup {Nothing}
        features == {f \in there : Parent[f] \in modules /\ Visible(f)}
        Keeps(m) == IF \E f \in there : Parent[f] = m THEN \E f \in features : Parent[f] = m ELSE Visible(m)
        Disabled(f) == rows[f].is = "Disabled" \/ (Parent[f] # Nothing /\ rows[Parent[f]].is = "Disabled")
    IN  [f \in features \cup {m \in modules : Keeps(m)} |-> [disabled |-> Disabled(f), position |-> rows[f].position, label |-> rows[f].label]]

MenuRows == [f \in Features |-> db[f]]

\* Three queries, answered in any order.
LoadPart(t) ==
    /\ At(t, "load") /\ tx[t].todo # {}
    /\ \E part \in tx[t].todo :
        LET value == CASE part = "grants" -> Granted(tx[t].seen.role) [] part = "menu" -> MenuRows [] OTHER -> db[Settings].business
        IN  Recall(t, [tx[t] EXCEPT !.todo = @ \ {part}, !.fit = Version(part, value) ++ @])

Payload(t) ==
    LET part == tx[t].fit
    IN  [etag |-> Etag(t), who |-> By(t), role |-> tx[t].seen.name, must |-> tx[t].seen.must, grants |-> part.grants,
         menu |-> build_menu(part.menu, part.grants), settings |-> part.settings,
         off |-> {f \in {FeatureOf[action] : action \in part.grants} : f \in tx[t].todo}]

\* Who asks, and the name of the role they have, are read before the version; the rest after it.
get_user_info(t) ==
    LET its == db[By(t)]
        found == {p \in kept.payloads : p.etag = Etag(t)}
    IN  /\ Do(t) = "info"
        /\ \/ /\ At(t, "begin")
              /\ IF its.is = "None"
                 THEN Reply(t, "failed")
                 ELSE Recall(t, [To(t, "version") EXCEPT !.seen =
                          [role |-> its.role, name |-> db[its.role].name, edited |-> its.version, must |-> its.must]])
           \/ /\ At(t, "version")
              /\ Recall(t, [To(t, "payload") EXCEPT !.seen = [version |-> db[ConfigVersion]] ++ @])
           \/ At(t, "payload") /\ \E p \in found : Recall(t, [To(t, "answer") EXCEPT !.fit = p])
           \/ At(t, "payload") /\ Recall(t, [To(t, "load") EXCEPT !.todo = {"grants", "menu", "settings"}, !.fit = << >>])
           \/ LoadPart(t)
           \/ At(t, "load") /\ tx[t].todo = {} /\ Recall(t, To(t, "off"))
           \/ switched_off(t, tx[t].seen.version, "keep_payload")
           \/ /\ At(t, "keep_payload")
              /\ Look(t, [To(t, "answer") EXCEPT !.fit = Payload(t), !.todo = {}])
              /\ kept' = [kept EXCEPT !.payloads = (@ \ found) \cup {Payload(t)}]
           \/ At(t, "answer") /\ Reply(t, "done")

CacheStep(t) == requirePermission(t) \/ getSettings(t) \/ permissions_for(t) \/ get_user_info(t)
=============================================================================
