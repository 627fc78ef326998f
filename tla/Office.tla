-------------------------------- MODULE Office --------------------------------
(***************************************************************************)
(* The office at work: people who administer accounts, roles, features and *)
(* settings, others who change their passwords or come as guests, and      *)
(* requests that go by what a server instance keeps of all that.           *)
(***************************************************************************)
EXTENDS Caches

CONSTANTS
    Starts,     \* what the requests may ask for together
    Openings    \* where the rows may stand at the start

\* A request that passed its schema: what it is about, and what it sends.
Form(j) ==
    /\ j.do = "create" => \/ j.row \in Accounts \ Guests /\ j.to \in AccountType /\ j.to.is = "Active"
                          \/ j.row \in Roles /\ j.to \in [grants : SUBSET Actions, name : Nat]
    /\ j.do = "edit" => \/ j.row \in Accounts /\ j.to \in [role : Roles]
                        \/ j.row \in Roles /\ j.to \in [grants : SUBSET Actions, name : Nat]
    /\ j.do \in {"off", "on", "delete"} => j.row \in Accounts \cup Roles
    /\ j.do = "mark" => j.row \in Actions /\ j.to \in BOOLEAN
    /\ j.do = "switch" => j.row \in Features /\ j.to \in {"On", "Disabled", "Hidden"}
    /\ j.do = "save" => j.row \in Features /\ j.to \in [label : Nat]
    /\ j.do = "reorder" => j.to # << >> /\ j.to \in Seq([module : Features \cup {Nothing}, order : Seq(Features)])
    /\ j.do \in {"business", "delivery"} => j.row = Settings /\ j.to \in Nat
    /\ j.do \in {"profile", "first", "send", "forgot", "verify", "reset"} => j.row \in Accounts
    /\ j.do \in {"first", "verify", "reset"} => j.to.password \in Nat
    /\ j.do \in {"send", "forgot", "verify"} => j.to.code \in OneTimeCodes
    /\ j.do = "guest" => j.row \in Guests
    /\ j.do \in {"may", "info"} => j.by \in Accounts
    /\ j.do # "pay"

ASSUME OfficeAssumption == \A start \in Starts, t \in Requests : Form(start[t])

vars == <<db, lock, tx, job, shared, kept>>

-----------------------------------------------------------------------------
(* The tables *)

ActiveOwners == {a \in Accounts : db[a].is = "Active" /\ db[a].role = Owner}

\* The menu stays in one order: no two entries of a module have one position, however two people
\* arrange it at once.
OneOrder ==
    \A f, g \in Features : f # g /\ Parent[f] = Parent[g] => db[f].position # db[g].position

VisitorsFit ==
    LET active == {g \in Guests : db[g].is = "Active"}
    IN  /\ Cardinality(active) <= GuestCap
        /\ \A g, h \in active : db[g].guest = db[h].guest => g = h

\* What earlier requests left: every row is there, somebody owns the business, and no visitor may.
Tidy ==
    /\ db = [r \in Rows |-> db[r]]
    /\ \A r \in AdminRows : db[r] \in AdminRowType(r)
    /\ \A r \in OwnRows : db[r] \in OwnRowType(r)
    /\ ActiveOwners # {} /\ \A g \in Guests : db[g].role # Owner
    /\ OneOrder /\ VisitorsFit
    /\ db[ConfigVersion] > 0

Init ==
    /\ db \in Openings /\ Tidy
    /\ Begun("begin")
    /\ NothingShared
    /\ NothingKept
    /\ job \in Starts

Needs(t) == FormNeeds(t) \cup AdminNeeds(t) \cup OwnNeeds(t)
Wants(t) == {}

Next ==
    \/ \E t \in Requests :
        \/ /\ FormStep(t) \/ AdminStep(t) \/ OwnStep(t)
              \/ Finish(t) \/ LoseConnection(t) \/ BreakCycle(t, Needs, Wants)
           /\ UNCHANGED kept
        \/ CacheStep(t)
    \/ AllAnswered /\ UNCHANGED <<shared, kept>>

Spec == Init /\ [][Next]_vars

-----------------------------------------------------------------------------
(* Properties *)

TypeOK ==
    /\ \A r \in AdminRows : db[r] \in AdminRowType(r)
    /\ \A r \in OwnRows : db[r] \in OwnRowType(r)
    /\ \A t \in Requests : {r \in Rows : lock[r] = t} = DOMAIN tx[t].mine

\* A request that makes somebody an owner.
MakesOwner(t) == Asks(t, "edit", Accounts) /\ Sent(t).role = Owner

\* Somebody always owns the business: two owners who turn each other off, give each other another role
\* or delete each other cannot both pass (not_last_owner locks every active owner before counting).
\* While somebody is being made an owner this may fail: the join of lock_target then does not know them.
AlwaysAnOwner == (\A t \in Requests : ~MakesOwner(t)) => ActiveOwners # {}

\* What an instance keeps is true as long as the version it was read at is current, whoever changes
\* roles, features or settings between its queries and the moment it keeps the answers.
CachesTellTheTruth ==
    LET Current(value) == value.at = db[ConfigVersion]
    IN  /\ Current(kept.off) => kept.off.value = OffNow
        /\ Current(kept.settings) => kept.settings.value = db[Settings]
        /\ \A a \in Accounts : Current(kept.permissions[a]) /\ db[a].is = "Active" =>
                kept.permissions[a].value \subseteq Granted(db[a].role)

EtagNow(a) == payload_etag(db[ConfigVersion], db[a].role, a, db[a].version)

\* A boot payload whose ETag an account would be given now grants, shows and says what is true now: a
\* browser that is answered 304, or from memory, misses no change of what its role grants, of a feature, of
\* the business or of the account itself.  It may miss one thing, and nothing is claimed of that: the role's
\* name, which is read before the version and not after it (get-user-info.js:22, 36).
PayloadIsCurrent ==
    \A p \in kept.payloads, a \in Accounts : p.etag = EtagNow(a) =>
        /\ p.grants = Granted(db[a].role)
        /\ p.menu = build_menu(MenuRows, p.grants)
        /\ p.off = {FeatureOf[action] : action \in p.grants} \cap OffNow
        /\ p.settings = db[Settings].business
        /\ p.who = a => p.must = db[a].must

\* What an instance or a browser keeps and still goes by is so.
CachesAreTrue == TypeOK /\ CachesTellTheTruth /\ PayloadIsCurrent

\* "The ETag for one user's boot payload" (config-version.js:44): nobody is answered with another
\* person's.
OwnPayload == \A t \in Requests : At(t, "answer") => tx[t].fit.who = By(t)

\* Visitors who come at once at the cap cannot all get in, and active guests are told apart by name;
\* unless somebody turns a guest who left on again: nothing counts that one.
GuestsFitAndDiffer == (\A t \in Requests : ~Asks(t, "on", Guests)) => VisitorsFit

\* An emailed code is verified once: two presses cannot both change the password with it
\* (verify-otp-for-password-change.js).  Of a reset, which reads the code without its lock, nothing is said.
CodeChangesOnce ==
    \A t, u \in Requests :
        t # u /\ Do(t) = "verify" /\ Do(u) = "verify" /\ At(t, "done") /\ At(u, "done") => Sent(t).code # Sent(u).code
=============================================================================
