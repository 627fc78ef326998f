------------------------------ MODULE MCOffice ------------------------------
(***************************************************************************)
(* An instance of Office for TLC: two owners, a manager who holds all they *)
(* hold, one of the staff, the vendor and four guests, one whose time is   *)
(* over and one whose is not; two modules with four features and one with  *)
(* none; one code that was sent.                                           *)
(***************************************************************************)
EXTENDS Office

CONSTANTS
    owner, admin, manager, staff, extra, visitor,   \* roles, one to be created
    v1, e1, w1, v2,                 \* actions: of features f1 (two), g1 and f2
    m1, f1, g1, h1, m2, f2, m3,     \* three modules and their features
    k1, k2, k3,                     \* one-time codes, two to be sent
    version, settings, desk,
    tsend, tforgot, treset, tfirst, tguest

MCParent == [f \in {m1, f1, g1, h1, m2, f2, m3} |-> CASE f \in {f1, g1, h1} -> m1 [] f = f2 -> m2 [] OTHER -> Nothing]
MCPermissionOf == [f \in {m1, f1, g1, h1, m2, f2, m3} |->
    CASE f = g1 -> w1 [] f = f2 -> v2 [] f = m3 -> e1 [] f \in {m1, m2} -> Nothing [] OTHER -> v1]
MCFeatureOf == [action \in {v1, e1, w1, v2} |-> CASE action = w1 -> g1 [] action = v2 -> f2 [] OTHER -> f1]
MCViewOf == [action \in {v1, e1, w1, v2} |-> IF action = e1 THEN v1 ELSE action]
MCThrottle == [b \in Buckets |-> CASE b = "send" -> tsend [] b = "forgot" -> tforgot [] b = "reset" -> treset
                                   [] b = "first" -> tfirst [] OTHER -> tguest]
MCRows == 1..10 \cup {owner, admin, manager, staff, extra, visitor, v1, e1, w1, v2, m1, f1, g1, h1, m2, f2, m3, k1, k2, k3,
                      version, settings, desk, tsend, tforgot, treset, tfirst, tguest}

Person(is, role, must) ==
    [is |-> is, role |-> role, guest |-> 0, past |-> FALSE, must |-> must, password |-> 1, version |-> 0]
Visitor(is, n, past) ==
    [is |-> is, role |-> visitor, guest |-> n, past |-> past, must |-> FALSE, password |-> 0, version |-> 0]
RoleRow(is, grants) == [is |-> is, grants |-> grants, name |-> 1, version |-> 0]
Feature(position) == [is |-> "On", position |-> position, label |-> 0, version |-> 0]

Start ==
    [r \in MCRows |->
        CASE r \in {1, 2} -> Person("Active", owner, FALSE)
          [] r = 3 -> Person("Active", manager, FALSE)
          [] r = 4 -> Person("Active", staff, TRUE)
          [] r = 5 -> Person("None", staff, TRUE)
          [] r = 6 -> Person("Active", admin, FALSE)
          [] r = 7 -> Visitor("Active", 1, TRUE)
          [] r \in {8, 9} -> Visitor("None", 0, FALSE)
          [] r = 10 -> Visitor("Active", 2, FALSE)
          [] r \in {owner, manager} -> RoleRow("Active", {v1, e1, w1})
          [] r = admin -> RoleRow("Active", {v1, e1, w1, v2})
          [] r = staff -> RoleRow("Active", {v1, w1})
          [] r = visitor -> RoleRow("Active", {v1})
          [] r = extra -> RoleRow("None", {})
          [] r \in {v1, e1, w1, v2} -> FALSE
          [] r \in {m1, f1, f2} -> Feature(10)
          [] r \in {g1, m2} -> Feature(20)
          [] r \in {h1, m3} -> Feature(30)
          [] r = k1 -> [is |-> "Active", of |-> 4, at |-> 0, live |-> TRUE, tries |-> 0]
          [] r \in {k2, k3} -> [is |-> "None", of |-> 4, at |-> 0, live |-> FALSE, tries |-> 0]
          [] r = version -> 1
          [] r = settings -> [business |-> 1, delivery |-> 1]
          [] OTHER -> 0]
MCOpenings == {Start}

Ask(do, r, to, by) == [do |-> do, row |-> r, to |-> to, by |-> by]
Off(r, by) == Ask("off", r, << >>, by)
Give(a, role, by) == Ask("edit", a, [role |-> role], by)
Rename(role, grants, name, by) == Ask("edit", role, [grants |-> grants, name |-> name], by)
Grant(role, grants, by) == Rename(role, grants, 1, by)
Switch(f, state) == Ask("switch", f, state, 6)
Group1(module, order) == [module |-> module, order |-> order]
Reorder(groups) == Ask("reorder", m1, groups, 6)
Reads(do, by) == Ask(do, Settings, << >>, by)
Enter(action, by) == Ask("enter", Settings, action, by)
Code(do, typed, new) == Ask(do, 4, [password |-> new, current |-> 1, code |-> k1, typed |-> typed], 4)
Send(do, code) == Ask(do, 4, [password |-> 3, current |-> 1, code |-> code], 4)

MCGroups == <<
    <<Off(1, 2), Off(2, 1), Off(2, 3), Ask("delete", 2, << >>, 3), Give(1, staff, 3), Give(2, staff, 1), Off(1, 1), Give(4, extra, 4)>>,
    <<Give(4, manager, 1), Off(staff, 1), Ask("on", staff, << >>, 1), Grant(staff, {v1}, 1), Grant(manager, {v1}, 3), Off(4, 1),
      Ask("create", 5, Person("Active", staff, TRUE), 1), Ask("delete", staff, << >>, 1), Reads("may", 4)>>,
    <<Give(4, manager, 1), Off(staff, 1), Rename(staff, {v1}, 2, 1), Reads("info", 4),
      Ask("first", 4, [current |-> 1, password |-> 2], 4), Switch(m1, "Hidden")>>,
    <<Ask("create", extra, [grants |-> {v1, e1}, name |-> 1], 1), Ask("delete", extra, << >>, 6), Give(5, extra, 1), Grant(admin, {v1}, 6),
      Ask("mark", v1, TRUE, 6), Ask("on", 4, << >>, 1)>>,
    <<Switch(f1, "Disabled"), Switch(m1, "Hidden"), Switch(m2, "Hidden"), Reorder(<<Group1(m1, <<g1, f1, h1>>), Group1(Nothing, <<m2, m1, m3>>)>>),
      Reorder(<<Group1(m1, <<f1, h1, g1>>)>>), Reorder(<<Group1(m1, <<f1>>)>>), Ask("save", f1, [label |-> 1], 6),
      Enter(v1, 4), Enter(e1, 4)>>,
    <<Ask("business", settings, 2, 1), Ask("business", settings, 3, 3), Ask("delivery", settings, 2, 1), Reads("settings", 4), Switch(f1, "Disabled")>>,
    <<Code("verify", k1, 2), Code("verify", k1, 3), Code("verify", k2, 2), Code("reset", k1, 2), Code("reset", k2, 2), Send("send", k2), Send("forgot", k3),
      Ask("first", 4, [current |-> 1, password |-> 2], 4)>>,
    <<Ask("guest", 8, << >>, 0), Ask("guest", 9, << >>, 0), Off(visitor, 1), Off(7, 1), Off(10, 1), Ask("profile", 7, << >>, 7)>> >>

\* Three requests of a group; which of them asks for what does not matter.
MCRequests == 1..3
MCStarts ==
    UNION {{[t \in MCRequests |-> group[f[t]]] : f \in {g \in [MCRequests -> DOMAIN group] : g[1] < g[2] /\ g[2] < g[3]}} :
        group \in {MCGroups[i] : i \in DOMAIN MCGroups}}

\* Both owners, whose accounts nobody has edited since they were made, open the system.
MCOwnersArrive == {<<Reads("info", 1), Reads("info", 2)>>}
=============================================================================
