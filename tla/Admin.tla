-------------------------------- MODULE Admin --------------------------------
(***************************************************************************)
(* The administration handlers: accounts, the roles they hold, the         *)
(* registry of features, and the settings row.  Whatever decides what a    *)
(* person may see raises config_version in the same transaction.           *)
(*                                                                         *)
(* Names, a role's excepted, and contacts are left out.  What ends the     *)
(* sessions of an account that is turned off or deleted is in SessionTx.   *)
(***************************************************************************)
EXTENDS Forms

CONSTANTS
    Accounts,               \* login, numbered as ORDER BY oid sorts them
    Roles, Owner, SystemAdmin,          \* role; the two that come with the system
    Actions, Restricted, ViewOf,        \* permission; the vendor's own, and the View of each action's feature
    KeptBySystemAdmin,      \* what System Admin can never lose
    Features, Parent, Nothing, Locked,  \* menu_item; the module of each, Nothing for a module; what is always on
    ConfigVersion, Settings \* config_version and settings: one row each

AdminRows == Accounts \cup Roles \cup Actions \cup Features \cup {ConfigVersion, Settings}

ASSUME AdminAssumption ==
    /\ Accounts \subseteq Nat
    /\ {Owner, SystemAdmin} \subseteq Roles
    /\ KeptBySystemAdmin \cup Restricted \subseteq Actions /\ ViewOf \in [Actions -> Actions]
    /\ Parent \in [Features -> Features \cup {Nothing}]
    /\ AdminRows \subseteq Rows
    /\ Accounts \cap (Roles \cup Actions \cup Features) = {}
    /\ Roles \cap (Actions \cup Features) = {} /\ Actions \cap Features = {}
    /\ ConfigVersion # Settings /\ {ConfigVersion, Settings} \cap (Accounts \cup Roles \cup Actions \cup Features) = {}

\* An account is a person's or, numbered, a guest's; `past` is whether a guest's time is over, `must`
\* whether the password is a temporary one, and a row's version its edited_on, 0 until somebody edits it.
AccountType == [is : {"None", "Active", "Inactive", "Deleted"}, role : Roles, guest : Nat, past : BOOLEAN,
                must : BOOLEAN, password : Nat, version : Nat]
RoleType == [is : {"None", "Active", "Inactive", "Deleted"}, grants : SUBSET Actions, name : Nat, version : Nat]
FeatureType == [is : {"On", "Disabled", "Hidden"}, position : Nat, label : Nat, version : Nat]

AdminRowType(r) ==
    CASE r \in Accounts -> AccountType
      [] r \in Roles -> RoleType
      [] r \in Actions -> BOOLEAN       \* is_sensitive
      [] r \in Features -> FeatureType
      [] r = ConfigVersion -> Nat
      [] r = Settings -> [business : Nat, delivery : Nat]

\* What the account may do (permissions_for): nothing unless it and its role are Active.
Held(a) == IF db[a].is = "Active" /\ db[db[a].role].is = "Active" THEN db[db[a].role].grants ELSE {}

\* A page reads the row's edited_on, some time before its form is saved.
OpenPage(t) ==
    /\ At(t, "begin") /\ Do(t) = "edit"
    /\ Look(t, [To(t, "caller") EXCEPT !.seen = [version |-> db[Row(t)].version]])

\* Who asks, before the transaction: what they hold, and whether they are the vendor's.
ReadCaller(t, next) ==
    /\ At(t, IF Do(t) = "edit" THEN "caller" ELSE "begin")
    /\ Look(t, [To(t, next) EXCEPT !.seen =
           [held |-> Held(By(t)), system |-> db[By(t)].role = SystemAdmin,
            version |-> IF Do(t) = "edit" THEN tx[t].seen.version ELSE 0]])

\* Faulty form of bump_config_version: a write that forgets it.
ForgetToBump(t) == At(t, "bump") /\ Look(t, To(t, "commit"))

bump_config_version(t) ==
    /\ At(t, "bump")
    /\ Change(t, Version(ConfigVersion, View(t, ConfigVersion) + 1), To(t, "commit"))

-----------------------------------------------------------------------------
(* Accounts *)

\* lock_target: the statement's snapshot joins the account with its role ...
FindTarget(t) ==
    /\ At(t, "find") /\ Row(t) \in Accounts
    /\ IF db[Row(t)].is = "None" THEN Refuse(t) ELSE Look(t, [To(t, "target") EXCEPT !.fit = {db[Row(t)].role}])

\* ... and waits for the account alone; if that has another role by then, the join finds none.
LockTarget(t) ==
    /\ At(t, "target")
    /\ Change(t, Version(Row(t), db[Row(t)]), [To(t, "decide") EXCEPT !.fit = @ \cap {db[Row(t)].role}])

Joined(t) == tx[t].fit

\* The person is there, and their role grants nothing the caller does not hold.
Reachable(t) ==
    /\ Own(t).is \in {"Active", "Inactive"}
    /\ SystemAdmin \in Joined(t) => tx[t].seen.system
    /\ db[Own(t).role].grants \subseteq tx[t].seen.held

\* A role one may give: in use, and nothing in it that the caller does not hold.
read_role(t, next) ==
    LET role == Sent(t).role
    IN  IF /\ db[role].is = "Active" /\ (role = SystemAdmin => tx[t].seen.system)
           /\ db[role].grants \subseteq tx[t].seen.held
        THEN Look(t, To(t, next))
        ELSE Refuse(t)

create_user(t) ==
    /\ Asks(t, "create", Accounts)
    /\ \/ ReadCaller(t, "role")
       \/ At(t, "role") /\ read_role(t, "write")
       \/ At(t, "write") /\ IsNew(t, Row(t)) /\ Change(t, Version(Row(t), Sent(t)), To(t, "commit"))

\* not_self, and then not_last_owner if the account is known as an owner's.
Spare(t, next) ==
    IF By(t) = Row(t) THEN Refuse(t)
    ELSE Look(t, [To(t, IF Owner \in Joined(t) /\ Own(t).is = "Active" THEN "owners" ELSE next) EXCEPT !.fit = {}])

IsOwner(t, a) == View(t, a).is = "Active" /\ View(t, a).role = Owner

\* Faulty form of FindOwners: the owners are counted and not locked.
CountOwners(t) ==
    /\ At(t, "owners")
    /\ Look(t, [To(t, "lock_owners") EXCEPT !.fit = {a \in Accounts : IsOwner(t, a)}])

\* Every active owner of the statement's snapshot is locked, in order; one who is no longer an active
\* owner by then does not count.
FindOwners(t) ==
    /\ At(t, "owners")
    /\ Look(t, [To(t, "lock_owners") EXCEPT !.todo = {a \in Accounts : IsOwner(t, a)}])

LockOwner(t) ==
    /\ At(t, "lock_owners")
    /\ \E a \in tx[t].todo :
        /\ \A b \in tx[t].todo : a <= b
        /\ Change(t, Version(a, View(t, a)), [tx[t] EXCEPT !.todo = @ \ {a}, !.fit = IF IsOwner(t, a) THEN @ \cup {a} ELSE @])

AnotherOwner(t) ==
    /\ At(t, "lock_owners") /\ tx[t].todo = {}
    /\ IF tx[t].fit \ {Row(t)} = {} THEN Refuse(t) ELSE Look(t, To(t, IF Do(t) = "edit" THEN "role" ELSE "write"))

update_user(t) ==
    LET moves == Sent(t).role # Own(t).role
    IN  /\ Asks(t, "edit", Accounts)
        /\ \/ ReadCaller(t, "find")
           \/ At(t, "decide") /\ (~Reachable(t) \/ Own(t).version # tx[t].seen.version) /\ Refuse(t)
           \/ /\ At(t, "decide") /\ Reachable(t) /\ Own(t).version = tx[t].seen.version
              /\ IF moves THEN Spare(t, "role") ELSE Look(t, To(t, IF Untouched(t) THEN "commit" ELSE "write"))
           \/ At(t, "role") /\ read_role(t, "write")
           \/ At(t, "write") /\ Change(t, Version(Row(t), Updated(Own(t), Sent(t))), To(t, IF moves THEN "bump" ELSE "commit"))

\* Turned off, turned on, or deleted.
Becomes(t) == CASE Do(t) = "off" -> "Inactive" [] Do(t) = "on" -> "Active" [] OTHER -> "Deleted"

SwitchUser(t) ==
    /\ Row(t) \in Accounts
    /\ \/ ReadCaller(t, "find")
       \/ At(t, "decide") /\ ~Reachable(t) /\ Refuse(t)
       \/ At(t, "decide") /\ Reachable(t) /\ Own(t).is = Becomes(t) /\ Look(t, To(t, "commit"))
       \/ /\ At(t, "decide") /\ Reachable(t) /\ Own(t).is # Becomes(t)
          /\ IF Do(t) = "on" THEN Look(t, To(t, "write")) ELSE Spare(t, "write")
       \/ At(t, "write") /\ Change(t, Version(Row(t), Updated(Own(t), [is |-> Becomes(t)])), To(t, "commit"))

switch_user_status(t) == Do(t) \in {"off", "on"} /\ SwitchUser(t)
delete_user(t) == Do(t) = "delete" /\ SwitchUser(t)

AccountStep(t) ==
    \/ FindTarget(t) \/ LockTarget(t) \/ FindOwners(t) \/ LockOwner(t) \/ AnotherOwner(t)
    \/ create_user(t) \/ update_user(t) \/ switch_user_status(t) \/ delete_user(t)

-----------------------------------------------------------------------------
(* Roles *)

LockRole(t) ==
    /\ At(t, "find") /\ Row(t) \in Roles
    /\ Change(t, Version(Row(t), db[Row(t)]), To(t, "decide"))

\* plan_grants: what the caller cannot see stays; only what the caller holds is added.
Planned(t, current) == Sent(t).grants \cup (current \ tx[t].seen.held)
PlanFits(t, current) ==
    LET added == Sent(t).grants \ current
        final == Planned(t, current)
    IN  /\ added \subseteq tx[t].seen.held
        /\ Row(t) # SystemAdmin => added \cap Restricted = {}
        /\ final # {} /\ \A action \in final : ViewOf[action] \in final
        /\ Row(t) = SystemAdmin => KeptBySystemAdmin \subseteq final

\* name_taken, or the unique index at the write: another role has the name.  Here any name may be taken.
NameTaken(t) == At(t, IF Do(t) = "create" THEN "plan" ELSE "decide") \/ At(t, "write")

Renames(t) == Sent(t).name # Own(t).name

create_role(t) ==
    /\ Asks(t, "create", Roles)
    /\ \/ ReadCaller(t, "plan")
       \/ At(t, "plan") /\ IF PlanFits(t, {}) THEN Look(t, To(t, "write")) ELSE Refuse(t)
       \/ /\ At(t, "write") /\ IsNew(t, Row(t))
          /\ Change(t, Version(Row(t), [is |-> "Active", grants |-> Planned(t, {}), name |-> Sent(t).name, version |-> 0]),
                    To(t, "bump"))
       \/ NameTaken(t) /\ Refuse(t)

RoleThere(t) ==
    /\ Own(t).is \in {"Active", "Inactive"}
    /\ Row(t) \in {Owner, SystemAdmin} => Do(t) = "edit" /\ tx[t].seen.system

update_role(t) ==
    LET fine == /\ RoleThere(t) /\ Own(t).version = tx[t].seen.version /\ PlanFits(t, Own(t).grants)
                /\ Row(t) \in {Owner, SystemAdmin} => ~Renames(t)
        final == Planned(t, Own(t).grants)
    IN  /\ Asks(t, "edit", Roles)
        /\ \/ ReadCaller(t, "find")
           \/ At(t, "decide") /\ ~fine /\ Refuse(t)
           \/ At(t, "decide") /\ fine /\ Look(t, To(t, IF final = Own(t).grants /\ ~Renames(t) THEN "commit" ELSE "write"))
           \/ At(t, "write") /\ Change(t, Version(Row(t), Updated(Own(t), [grants |-> final, name |-> Sent(t).name])), To(t, "bump"))
           \/ NameTaken(t) /\ Renames(t) /\ Refuse(t)

switch_role_status(t) ==
    LET fine == RoleThere(t) /\ ~(Do(t) = "off" /\ db[By(t)].role = Row(t))
    IN  /\ Row(t) \in Roles /\ Do(t) \in {"off", "on"}
        /\ \/ ReadCaller(t, "find")
           \/ At(t, "decide") /\ RoleThere(t) /\ Own(t).is = Becomes(t) /\ Look(t, To(t, "commit"))
           \/ At(t, "decide") /\ ~(RoleThere(t) /\ Own(t).is = Becomes(t)) /\ (IF fine THEN Look(t, To(t, "write")) ELSE Refuse(t))
           \/ At(t, "write") /\ Change(t, Version(Row(t), Updated(Own(t), [is |-> Becomes(t)])), To(t, "bump"))

\* Only a role nobody holds.
delete_role(t) ==
    LET held == \E a \in Accounts : db[a].is # "None" /\ db[a].role = Row(t)
    IN  /\ Asks(t, "delete", Roles)
        /\ \/ ReadCaller(t, "find")
           \/ At(t, "decide") /\ IF RoleThere(t) /\ ~held THEN Look(t, To(t, "write")) ELSE Refuse(t)
           \/ At(t, "write") /\ Change(t, Version(Row(t), [Own(t) EXCEPT !.is = "Deleted", !.grants = {}]), To(t, "bump"))

RoleStep(t) == LockRole(t) \/ create_role(t) \/ update_role(t) \/ switch_role_status(t) \/ delete_role(t)

-----------------------------------------------------------------------------
(* The registry of features *)

\* A button on one row: locked, compared and written by one handler that looks at nothing else.
Set(t, new) == Change(t, Version(Row(t), new), To(t, IF new = db[Row(t)] THEN "commit" ELSE "bump"))

mark_action_sensitive(t) == Asks(t, "mark", Actions) /\ At(t, "begin") /\ Set(t, Sent(t))

switch_feature(t) ==
    LET its == db[Row(t)]
    IN  /\ Asks(t, "switch", Features) /\ At(t, "begin")
        /\ IF Row(t) \in Locked /\ Sent(t) # "On"
           THEN Free(t, Row(t)) /\ Refuse(t)
           ELSE Set(t, IF its.is = Sent(t) THEN its ELSE Updated(its, [is |-> Sent(t)]))

update_feature_details(t) ==
    /\ Asks(t, "save", Features) /\ At(t, "check")
    /\ Save(t, << >>, IF Untouched(t) THEN "commit" ELSE "bump")

\* A request arranges some groups: the features of a module, or the modules.
Group(module) == {f \in Features : Parent[f] = module}
ByPosition(t, fs) == {<<View(t, f).position, f>> : f \in fs}
Leads(t, f) == \E p \in tx[t].fit : p[2] = f /\ \A q \in tx[t].fit : p[1] <= q[1]
Arranging(t) == Sent(t)[tx[t].seen.group]

StartGroup(t, group, changed) ==
    LET fs == Group(Sent(t)[group].module)
    IN  Look(t, [To(t, "lock_group") EXCEPT !.fit = ByPosition(t, fs), !.seen = [group |-> group, changed |-> changed]])

\* Faulty form of LockFeature: the group is read and not locked.
ReadGroup(t) ==
    /\ At(t, "lock_group")
    /\ \E f \in Features : Leads(t, f) /\ Look(t, [tx[t] EXCEPT !.fit = {p \in @ : p[2] # f}])

\* The rows of the group are locked in the order of their positions when the statement began.
LockFeature(t) ==
    /\ At(t, "lock_group")
    /\ \E f \in Features : Leads(t, f) /\ Change(t, Version(f, View(t, f)), [tx[t] EXCEPT !.fit = {p \in @ : p[2] # f}])

\* The whole group must be named; what is not in its place yet is rewritten, row by row.
Compare(t) ==
    LET order == Arranging(t).order
    IN  /\ At(t, "lock_group") /\ tx[t].fit = {}
        /\ IF ToSet(order) # Group(Arranging(t).module) \/ Len(order) # Cardinality(Group(Arranging(t).module))
           THEN Refuse(t)
           ELSE Look(t, [To(t, "rewrite") EXCEPT !.todo = {i \in DOMAIN order : View(t, order[i]).position # 10 * i}])

Rewrite(t) ==
    /\ At(t, "rewrite")
    /\ \E i \in tx[t].todo :
        LET f == Arranging(t).order[i]
        IN  /\ \A k \in tx[t].todo : i <= k
            /\ Change(t, Version(f, Updated(View(t, f), [position |-> 10 * i])),
                      [tx[t] EXCEPT !.todo = @ \ {i}, !.seen.changed = TRUE])

reorder_features(t) ==
    LET seen == tx[t].seen
    IN  /\ Asks(t, "reorder", Features)
        /\ \/ At(t, "begin") /\ StartGroup(t, 1, FALSE)
           \/ LockFeature(t) \/ Compare(t) \/ Rewrite(t)
           \/ /\ At(t, "rewrite") /\ tx[t].todo = {}
              /\ IF seen.group < Len(Sent(t))
                 THEN StartGroup(t, seen.group + 1, seen.changed)
                 ELSE Look(t, To(t, IF seen.changed THEN "bump" ELSE "commit"))

FeatureActs(t) == mark_action_sensitive(t) \/ switch_feature(t) \/ update_feature_details(t) \/ reorder_features(t)

-----------------------------------------------------------------------------
(* The settings row, of which two forms save their own columns each *)

\* columns_version: the form's version is what its own columns held.
SaveColumns(t, columns) ==
    /\ Do(t) = columns /\ Row(t) = Settings
    /\ \/ At(t, "begin") /\ Look(t, [To(t, "form") EXCEPT !.seen = db[Settings][columns]])
       \/ /\ At(t, "form") /\ db[Settings][columns] = tx[t].seen
          /\ Change(t, Version(Settings, [db[Settings] EXCEPT ![columns] = Sent(t)]), To(t, "bump"))
       \/ /\ At(t, "form") /\ db[Settings][columns] # tx[t].seen
          /\ Free(t, Settings) /\ Refuse(t)

update_settings(t) == SaveColumns(t, "business")
update_delivery_charges(t) == SaveColumns(t, "delivery")

AdminStep(t) ==
    \/ OpenPage(t) \/ bump_config_version(t) \/ AccountStep(t) \/ RoleStep(t) \/ FeatureActs(t)
    \/ update_settings(t) \/ update_delivery_charges(t)

AdminNeeds(t) ==
    CASE At(t, "bump") -> {ConfigVersion}
      [] At(t, "target") \/ (At(t, "find") /\ Row(t) \in Roles) -> {Row(t)}
      [] At(t, "lock_owners") /\ tx[t].todo # {} -> {Min(tx[t].todo)}
      [] At(t, "lock_group") -> {f \in Features : Leads(t, f)}
      [] At(t, "rewrite") /\ tx[t].todo # {} -> {Arranging(t).order[Min(tx[t].todo)]}
      [] At(t, "begin") /\ (Asks(t, "mark", Actions) \/ Asks(t, "switch", Features)) -> {Row(t)}
      [] At(t, "form") -> {Settings}
      [] OTHER -> {}
=============================================================================
