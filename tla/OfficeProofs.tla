---------------------------- MODULE OfficeProofs ----------------------------
(***************************************************************************)
(* Whoever administers what at once, every request writes what its kind    *)
(* may, somebody owns the business, a code changes a password once,        *)
(* visitors fit and differ, the menu keeps one order, and what instances   *)
(* keep is true.                                                           *)
(*                                                                         *)
(* Knows says of every request what it may have written.  The questions    *)
(* build on that, each with what its own requests know besides: Spares of  *)
(* who threatens an owner, Uses of who presses a code, Visits of a guest,  *)
(* Arranges of who arranges the menu, Reader of who goes by the memory.    *)
(***************************************************************************)
EXTENDS Office, TLAPS, FiniteSetTheorems

-----------------------------------------------------------------------------
(* What a request may have written *)

\* The shape of a request's own record.
IsTx(x) == x = [pc |-> x.pc, mine |-> x.mine, todo |-> x.todo, fit |-> x.fit, seen |-> x.seen]

\* A row has the type of its table.
Fits(r, v) == (r \in AdminRows => v \in AdminRowType(r)) /\ (r \in OwnRows => v \in OwnRowType(r))

\* What may become of account a at the hands of request j: it is created; or it keeps what it is, but for
\* the role it is given, for being turned on, off or deleted, for the end of a visit and for a new password.
Moves(old, new, j, a) ==
    \/ new = old
    \/ /\ old.is = "None" /\ a = j.row /\ j.do \in {"create", "guest"}
       /\ a \in Guests => j.do = "guest" /\ new.role # Owner
    \/ /\ new.is = "None" => old.is = "None"
       /\ new.guest = old.guest
       /\ new.role = old.role \/ (j.do = "edit" /\ a = j.row /\ new.role = j.to.role)
       /\ \/ new.is = old.is
          \/ j.do = "on" /\ a = j.row /\ new.is = "Active"
          \/ j.do \in {"off", "delete"} /\ a = j.row /\ new.is # "Active"
          \/ a \in Guests /\ new.is = "Inactive"
       /\ new.version > old.version \/ (new.version = old.version /\ new.must = old.must)

\* What a request may write to row r, config_version apart.
Fair(rows, r, v, j) ==
    /\ r \in Rows \ {ConfigVersion} /\ Fits(r, v)
    /\ r \in Accounts => Moves(rows[r], v, j, r)
    /\ r \in Features /\ j.do # "reorder" => v.position = rows[r].position
    /\ r \in OneTimeCodes /\ rows[r].is = "Inactive" => v.is = "Inactive"

\* What instances keep does not depend on the difference.
Clean(rows, f) ==
    \A r \in DOMAIN f :
        /\ r \in Roles \cup Features \cup {Settings} => f[r] = rows[r]
        /\ r \in Accounts => f[r].role = rows[r].role \/ rows[r].is = "None"

\* The request has raised config_version, or will before it commits.
Pending(x, j) ==
    \/ x.pc = "bump"
    \/ x.pc = "commit" /\ ConfigVersion \in DOMAIN x.mine
    \/ j.do = "reorder" /\ x.pc \in {"lock_group", "rewrite"} /\ x.seen.changed

\* Requests that never open a transaction, and where the others have none open.
Idle(x, j) ==
    \/ x.pc \in {"begin", "record", "newest", "wrong", "done", "failed"}
    \/ j.do \in {"enter", "settings", "may", "info", "send", "forgot"}

\* Where a request of its kind can stand, and what it has yet to work through there.
Stands(x, j) ==
    /\ x.pc = "save" => j.do = "save"
    /\ x.pc \in {"find", "target", "decide", "owners", "lock_owners"} => j.do \in {"edit", "off", "on", "delete"}
    /\ x.pc = "bump" => j.do \in {"create", "edit", "off", "on", "delete", "mark", "switch", "save", "reorder", "business", "delivery"}
    /\ x.pc = "commit" => ~Idle(x, j)
    /\ x.pc \in {"target", "owners", "lock_owners"} => j.row \in Accounts
    /\ x.pc = "lock_owners" => x.todo \subseteq Accounts
    /\ x.pc = "spend" => x.todo \subseteq OneTimeCodes
    /\ x.pc = "end_visit" => x.todo \subseteq Guests
    /\ x.pc = "wrong" /\ j.do = "reset" => x.fit \in OneTimeCodes
    /\ x.pc = "write" /\ j.do = "guest" => x.fit \in Nat
    /\ x.pc \in {"lock_group", "rewrite"} /\ j.do = "reorder" =>
            x.seen = [group |-> x.seen.group, changed |-> x.seen.changed] /\ x.seen.group \in DOMAIN j.to
    /\ x.pc = "rewrite" /\ j.do = "reorder" => x.todo \subseteq DOMAIN j.to[x.seen.group].order

\* What every request knows.
Knows(rows, x, j) ==
    /\ IsTx(x)
    /\ \A r \in DOMAIN x.mine : r = ConfigVersion \/ Fair(rows, r, x.mine[r], j)
    /\ ConfigVersion \in DOMAIN x.mine => x.pc = "commit" /\ x.mine[ConfigVersion] = rows[ConfigVersion] + 1
    /\ Clean(rows, x.mine) \/ Pending(x, j)
    /\ Idle(x, j) => DOMAIN x.mine = {}
    /\ Stands(x, j)

\* The tables and the locks, and what every request knows.
BInv ==
    /\ db = [r \in Rows |-> db[r]] /\ \A r \in Rows : Fits(r, db[r])
    /\ lock = [r \in Rows |-> lock[r]]
    /\ \A t \in Requests : {r \in Rows : lock[r] = t} = DOMAIN tx[t].mine
    /\ tx = [t \in Requests |-> tx[t]]
    /\ job \in Starts
    /\ \A t \in Requests : Knows(db, tx[t], job[t])

-----------------------------------------------------------------------------
(* Rows and versions *)

\* The rows of different tables differ.
LEMMA TablesDiffer ==
    /\ \A a \in Accounts : a \notin Roles \cup Actions \cup Features \cup OwnRows /\ a # ConfigVersion /\ a # Settings
    /\ \A r \in Roles : r \notin Actions \cup Features \cup OwnRows /\ r # ConfigVersion /\ r # Settings
    /\ \A r \in Actions : r \notin Features \cup OwnRows /\ r # ConfigVersion /\ r # Settings
    /\ \A f \in Features : f \notin OwnRows /\ f # ConfigVersion /\ f # Settings
    /\ ConfigVersion \notin OwnRows /\ Settings \notin OwnRows /\ ConfigVersion # Settings
    /\ GuestDesk \notin OneTimeCodes /\ \A b \in Buckets : Throttle[b] \notin OneTimeCodes \cup {GuestDesk}
BY AdminAssumption, OwnAccountAssumption DEF AdminRows

\* They are rows.
LEMMA RowsAre ==
    /\ Accounts \subseteq Rows /\ Roles \subseteq Rows /\ Actions \subseteq Rows /\ Features \subseteq Rows
    /\ ConfigVersion \in Rows /\ Settings \in Rows /\ OneTimeCodes \subseteq Rows /\ GuestDesk \in Rows
    /\ \A b \in Buckets : Throttle[b] \in Rows
    /\ Accounts \subseteq AdminRows /\ Roles \subseteq AdminRows /\ Actions \subseteq AdminRows
    /\ Features \subseteq AdminRows /\ ConfigVersion \in AdminRows /\ Settings \in AdminRows
    /\ OneTimeCodes \subseteq OwnRows /\ GuestDesk \in OwnRows /\ \A b \in Buckets : Throttle[b] \in OwnRows
    /\ Guests \subseteq Accounts
BY AdminAssumption, OwnAccountAssumption DEF AdminRows, OwnRows

\* What fits a row of each table.
LEMMA TypesAre ==
    ASSUME NEW v
    PROVE  /\ \A a \in Accounts : Fits(a, v) <=> v \in AccountType
           /\ \A r \in Roles : Fits(r, v) <=> v \in RoleType
           /\ \A r \in Actions : Fits(r, v) <=> v \in BOOLEAN
           /\ \A f \in Features : Fits(f, v) <=> v \in FeatureType
           /\ Fits(ConfigVersion, v) <=> v \in Nat
           /\ Fits(Settings, v) <=> v \in [business : Nat, delivery : Nat]
           /\ \A c \in OneTimeCodes : Fits(c, v) <=> v \in CodeType
           /\ Fits(GuestDesk, v) <=> v \in Nat
           /\ \A b \in Buckets : Fits(Throttle[b], v) <=> v \in Nat
<1>1. \A a \in Accounts : AdminRowType(a) = AccountType
  BY TablesDiffer DEF AdminRowType
<1>2. \A r \in Roles : AdminRowType(r) = RoleType
  BY TablesDiffer DEF AdminRowType
<1>3. \A r \in Actions : AdminRowType(r) = BOOLEAN
  BY TablesDiffer DEF AdminRowType
<1>4. \A f \in Features : AdminRowType(f) = FeatureType
  BY TablesDiffer DEF AdminRowType
<1>5. AdminRowType(ConfigVersion) = Nat
  BY TablesDiffer DEF AdminRowType
<1>6. AdminRowType(Settings) = [business : Nat, delivery : Nat]
  BY TablesDiffer DEF AdminRowType
<1>7. \A c \in OneTimeCodes : OwnRowType(c) = CodeType
  BY DEF OwnRowType
<1>8. OwnRowType(GuestDesk) = Nat /\ \A b \in Buckets : OwnRowType(Throttle[b]) = Nat
  BY TablesDiffer DEF OwnRowType
<1>9. \A r \in OwnRows : r \notin AdminRows
  BY TablesDiffer DEF AdminRows
<1> QED
  BY <1>1, <1>2, <1>3, <1>4, <1>5, <1>6, <1>7, <1>8, <1>9, RowsAre, TablesDiffer DEF Fits

\* A statement that writes one row writes that row.
LEMMA OneVersion ==
    ASSUME NEW r, NEW v
    PROVE  DOMAIN Version(r, v) = {r} /\ Version(r, v)[r] = v
BY DEF Version

\* A new version hides the older one.
Newest(h, f, g) ==
    /\ h = [r \in DOMAIN f \cup DOMAIN g |-> h[r]]
    /\ \A r \in DOMAIN f : h[r] = f[r]
    /\ \A r \in DOMAIN g : r \notin DOMAIN f => h[r] = g[r]

LEMMA NewestCounts == ASSUME NEW f, NEW g PROVE Newest(f ++ g, f, g)
BY DEF ++, Newest

\* An UPDATE writes the columns it names and the version, and leaves the others.
Rewritten(v, old, new) ==
    /\ v = [c \in DOMAIN v |-> v[c]]
    /\ DOMAIN v = DOMAIN new \cup DOMAIN old
    /\ \A c \in DOMAIN new : c # "version" => v[c] = new[c]
    /\ \A c \in DOMAIN old : c \notin DOMAIN new /\ c # "version" => v[c] = old[c]
    /\ "version" \in DOMAIN old => v.version = old.version + 1

LEMMA UpdatedIs == ASSUME NEW old, NEW new PROVE Rewritten(Updated(old, new), old, new)
<1>1. PICK f : f = new ++ old
  OBVIOUS
<1>2. Newest(f, new, old)
  BY <1>1, NewestCounts
<1>3. PICK n : n = old.version + 1
  OBVIOUS
<1>4. Updated(old, new) = [f EXCEPT !.version = n]
  BY <1>1, <1>3 DEF Updated
<1>5. PICK g : g = [f EXCEPT !.version = n]
  OBVIOUS
<1>6. /\ g = [c \in DOMAIN g |-> g[c]]
      /\ DOMAIN g = DOMAIN f
      /\ \A c \in DOMAIN f : c # "version" => g[c] = f[c]
      /\ "version" \in DOMAIN f => g.version = n
  BY <1>5
<1>7. Rewritten(g, old, new)
  BY <1>2, <1>3, <1>6 DEF Newest, Rewritten
<1> QED
  BY <1>4, <1>5, <1>7

\* A row of accounts, by its columns.
LEMMA AccountIs ==
    ASSUME NEW v, v = [c \in DOMAIN v |-> v[c]],
           DOMAIN v = {"is", "role", "guest", "past", "must", "password", "version"},
           v.is \in {"None", "Active", "Inactive", "Deleted"}, v.role \in Roles, v.guest \in Nat, v.past \in BOOLEAN,
           v.must \in BOOLEAN, v.password \in Nat, v.version \in Nat
    PROVE  v \in AccountType
<1>1. v = [is |-> v.is, role |-> v.role, guest |-> v.guest, past |-> v.past, must |-> v.must, password |-> v.password,
           version |-> v.version]
  OBVIOUS
<1> QED
  BY <1>1 DEF AccountType

\* An account with another status.
LEMMA UpdatedStatus ==
    ASSUME NEW old \in AccountType, NEW s \in {"None", "Active", "Inactive", "Deleted"}
    PROVE  LET v == Updated(old, [is |-> s])
           IN  /\ v \in AccountType /\ v.is = s /\ v.role = old.role /\ v.guest = old.guest /\ v.must = old.must
               /\ v.version = old.version + 1 /\ old.version \in Nat
<1>1. PICK v : v = Updated(old, [is |-> s]) /\ Rewritten(v, old, [is |-> s])
  BY UpdatedIs
<1>2. DOMAIN old = {"is", "role", "guest", "past", "must", "password", "version"} /\ DOMAIN [is |-> s] = {"is"}
  BY DEF AccountType
<1>3. /\ v.is = s /\ v.role = old.role /\ v.guest = old.guest /\ v.past = old.past /\ v.must = old.must
      /\ v.password = old.password /\ v.version = old.version + 1
      /\ v = [c \in DOMAIN v |-> v[c]] /\ DOMAIN v = DOMAIN old
  BY <1>1, <1>2 DEF Rewritten
<1>4. v \in AccountType
  BY <1>2, <1>3, AccountIs DEF AccountType
<1> QED
  BY <1>1, <1>3, <1>4 DEF AccountType

\* An account with another role.
LEMMA UpdatedRole ==
    ASSUME NEW old \in AccountType, NEW new \in [role : Roles]
    PROVE  LET v == Updated(old, new)
           IN  /\ v \in AccountType /\ v.is = old.is /\ v.role = new.role /\ v.guest = old.guest /\ v.must = old.must
               /\ v.version = old.version + 1 /\ old.version \in Nat
<1>1. PICK v : v = Updated(old, new) /\ Rewritten(v, old, new)
  BY UpdatedIs
<1>2. DOMAIN old = {"is", "role", "guest", "past", "must", "password", "version"} /\ DOMAIN new = {"role"}
  BY DEF AccountType
<1>3. /\ v.is = old.is /\ v.role = new.role /\ v.guest = old.guest /\ v.past = old.past /\ v.must = old.must
      /\ v.password = old.password /\ v.version = old.version + 1
      /\ v = [c \in DOMAIN v |-> v[c]] /\ DOMAIN v = DOMAIN old
  BY <1>1, <1>2 DEF Rewritten
<1>4. v \in AccountType
  BY <1>2, <1>3, AccountIs DEF AccountType
<1> QED
  BY <1>1, <1>3, <1>4 DEF AccountType

\* An account with another password.
LEMMA UpdatedPassword ==
    ASSUME NEW old \in AccountType, NEW p \in Nat
    PROVE  /\ LET v == Updated(old, [password |-> p])
              IN  /\ v \in AccountType /\ v.is = old.is /\ v.role = old.role /\ v.guest = old.guest /\ v.must = old.must
                  /\ v.version = old.version + 1 /\ old.version \in Nat
           /\ LET v == Updated(old, [must |-> FALSE, password |-> p])
              IN  /\ v \in AccountType /\ v.is = old.is /\ v.role = old.role /\ v.guest = old.guest
                  /\ v.version = old.version + 1 /\ old.version \in Nat
           /\ [old EXCEPT !.password = p] \in AccountType
<1>1. PICK v, w : /\ v = Updated(old, [password |-> p]) /\ Rewritten(v, old, [password |-> p])
                  /\ w = Updated(old, [must |-> FALSE, password |-> p])
                  /\ Rewritten(w, old, [must |-> FALSE, password |-> p])
  BY UpdatedIs
<1>2. /\ DOMAIN old = {"is", "role", "guest", "past", "must", "password", "version"}
      /\ DOMAIN [password |-> p] = {"password"} /\ DOMAIN [must |-> FALSE, password |-> p] = {"must", "password"}
  BY DEF AccountType
<1>3. /\ v.is = old.is /\ v.role = old.role /\ v.guest = old.guest /\ v.past = old.past /\ v.must = old.must
      /\ v.password = p /\ v.version = old.version + 1
      /\ v = [c \in DOMAIN v |-> v[c]] /\ DOMAIN v = DOMAIN old
  BY <1>1, <1>2 DEF Rewritten
<1>4. /\ w.is = old.is /\ w.role = old.role /\ w.guest = old.guest /\ w.past = old.past /\ w.must = FALSE
      /\ w.password = p /\ w.version = old.version + 1
      /\ w = [c \in DOMAIN w |-> w[c]] /\ DOMAIN w = DOMAIN old
  BY <1>1, <1>2 DEF Rewritten
<1>5. v \in AccountType /\ w \in AccountType
  <2>1. v \in AccountType
    BY <1>2, <1>3, AccountIs DEF AccountType
  <2>2. w.must \in BOOLEAN /\ w.past \in BOOLEAN /\ w.password \in Nat
    BY <1>4 DEF AccountType
  <2>3. w \in AccountType
    BY <1>2, <1>4, <2>2, AccountIs DEF AccountType
  <2> QED
    BY <2>1, <2>3
<1>6. [old EXCEPT !.password = p] \in AccountType
  BY DEF AccountType
<1> QED
  BY <1>1, <1>3, <1>4, <1>5, <1>6 DEF AccountType

-----------------------------------------------------------------------------
(* Statements *)

\* What the invariant says of one request.
LEMMA About ==
    ASSUME BInv, NEW t \in Requests
    PROVE  /\ IsTx(tx[t]) /\ Knows(db, tx[t], job[t]) /\ Form(job[t])
           /\ DOMAIN tx[t].mine \subseteq Rows
           /\ \A r \in Rows : View(t, r) = IF r \in DOMAIN tx[t].mine THEN tx[t].mine[r] ELSE db[r]
           /\ \A r \in Rows : lock[r] = t <=> r \in DOMAIN tx[t].mine
           /\ \A r \in Rows : Fits(r, db[r])
           /\ t # NoRequest
<1>1. {r \in Rows : lock[r] = t} = DOMAIN tx[t].mine
  BY DEF BInv
<1>2. \A r \in Rows : View(t, r) = IF r \in DOMAIN tx[t].mine THEN tx[t].mine[r] ELSE db[r]
  BY <1>1 DEF View
<1>3. Form(job[t])
  BY OfficeAssumption DEF BInv
<1> QED
  BY <1>1, <1>2, <1>3, ReadCommittedAssumption DEF BInv, Knows

\* Two requests have no row in common.
LEMMA Apart ==
    ASSUME BInv, NEW t \in Requests, NEW u \in Requests, u # t
    PROVE  DOMAIN tx[t].mine \cap DOMAIN tx[u].mine = {}
BY About

\* A row as t sees it is one it may have written, if it is none that is created.
LEMMA SeenFair ==
    ASSUME BInv, NEW t \in Requests, NEW r \in Rows \ {ConfigVersion}
    PROVE  Fair(db, r, View(t, r), job[t])
<1>1. CASE r \in DOMAIN tx[t].mine
  BY <1>1, About DEF Knows
<1>2. CASE r \notin DOMAIN tx[t].mine
  BY <1>2, About DEF Fair, Moves
<1> QED
  BY <1>1, <1>2

\* t's record is another; no row changes, and its locks are those of its versions.
Moved(t, y) ==
    /\ tx' = [tx EXCEPT ![t] = y]
    /\ db' = db /\ job' = job
    /\ lock' = [r \in Rows |-> lock'[r]]
    /\ \A r \in Rows : lock'[r] = IF r \in DOMAIN y.mine THEN t ELSE IF lock[r] = t THEN NoRequest ELSE lock[r]
    /\ \A r \in DOMAIN y.mine : r \in Rows /\ lock[r] \in {NoRequest, t}

LEMMA MovedKeeps ==
    ASSUME BInv, NEW t \in Requests, NEW y, Moved(t, y), Knows(db, y, job[t])
    PROVE  BInv'
<1>1. /\ tx'[t] = y /\ \A u \in Requests : u # t => tx'[u] = tx[u]
      /\ tx' = [u \in Requests |-> tx'[u]]
  BY DEF BInv, Moved
<1>2. ASSUME NEW u \in Requests
      PROVE  {r \in Rows : lock'[r] = u} = DOMAIN tx'[u].mine
  <2>1. CASE u = t
    BY <1>1, <2>1, About DEF Moved
  <2>2. CASE u # t
    BY <1>1, <2>2, About DEF Moved
  <2> QED
    BY <2>1, <2>2
<1>3. ASSUME NEW u \in Requests
      PROVE  Knows(db', tx'[u], job'[u])
  BY <1>1, About DEF Moved
<1>4. /\ db' = [r \in Rows |-> db'[r]] /\ \A r \in Rows : Fits(r, db'[r])
      /\ lock' = [r \in Rows |-> lock'[r]] /\ job' \in Starts
  BY DEF BInv, Moved
<1> QED
  BY <1>1, <1>2, <1>3, <1>4 DEF BInv

\* A statement that reads.
LEMMA LookIs ==
    ASSUME BInv, NEW t \in Requests, NEW next, Look(t, next), next.mine = tx[t].mine
    PROVE  Moved(t, next)
BY About DEF Look, Read, Moved, BInv

\* A statement that writes.
Wrote(t, new, next) == [next EXCEPT !.mine = new ++ @]

LEMMA ChangeIs ==
    ASSUME BInv, NEW t \in Requests, NEW new, NEW next, Change(t, new, next), next.mine = tx[t].mine, IsTx(next),
           DOMAIN new \subseteq Rows
    PROVE  /\ Moved(t, Wrote(t, new, next))
           /\ IsTx(Wrote(t, new, next)) /\ Newest(Wrote(t, new, next).mine, new, tx[t].mine)
           /\ Wrote(t, new, next).pc = next.pc /\ Wrote(t, new, next).todo = next.todo
           /\ Wrote(t, new, next).fit = next.fit /\ Wrote(t, new, next).seen = next.seen
<1>1. PICK m : m = new ++ next.mine /\ Newest(m, new, tx[t].mine)
  BY NewestCounts
<1>2. PICK y : y = Wrote(t, new, next)
  OBVIOUS
<1>3. /\ y.mine = m /\ y.pc = next.pc /\ y.todo = next.todo /\ y.fit = next.fit /\ y.seen = next.seen
      /\ IsTx(y)
  BY <1>1, <1>2 DEF Wrote, IsTx
<1>4. /\ tx' = [tx EXCEPT ![t] = y] /\ db' = db /\ job' = job
      /\ lock' = [r \in Rows |-> IF r \in DOMAIN new THEN t ELSE lock[r]]
      /\ \A r \in DOMAIN new : lock[r] \in {NoRequest, t}
  BY <1>2 DEF Change, Write, Wrote, Free
<1>5. DOMAIN m = DOMAIN new \cup DOMAIN tx[t].mine
  BY <1>1 DEF Newest
<1>6. Moved(t, y)
  BY <1>3, <1>4, <1>5, About DEF Moved
<1> QED
  BY <1>1, <1>2, <1>3, <1>6

\* A statement that gives up.
LEMMA RefuseIs ==
    ASSUME BInv, NEW t \in Requests, Refuse(t)
    PROVE  Moved(t, Blank("failed"))
<1>1. DOMAIN Blank("failed").mine = {}
  BY DEF Blank
<1> QED
  BY <1>1, About DEF Refuse, Fail, End, Moved, BInv

LEMMA LeaveIs ==
    ASSUME BInv, NEW t \in Requests, NEW pc, Leave(t, pc)
    PROVE  Moved(t, Blank(pc))
<1>1. DOMAIN Blank(pc).mine = {}
  BY DEF Blank
<1> QED
  BY <1>1, About DEF Leave, LetGo, End, Moved, BInv

\* A request has more to do than to raise config_version and to commit.
Under(x) == x.pc \notin {"bump", "commit", "done", "failed"}

LEMMA LookKeeps ==
    ASSUME BInv, NEW t \in Requests, NEW next, Look(t, next), next.mine = tx[t].mine, IsTx(next), Under(tx[t]),
           Idle(next, job[t]) => Idle(tx[t], job[t]), Pending(tx[t], job[t]) => Pending(next, job[t]), Stands(next, job[t])
    PROVE  BInv'
<1>1. Knows(db, tx[t], job[t]) /\ ConfigVersion \notin DOMAIN tx[t].mine
  BY About DEF Knows, Under
<1>2. Knows(db, next, job[t])
  BY <1>1 DEF Knows
<1> QED
  BY <1>2, LookIs, MovedKeeps

LEMMA ChangeKeeps ==
    ASSUME BInv, NEW t \in Requests, NEW new, NEW next, Change(t, new, next), next.mine = tx[t].mine, IsTx(next),
           \A r \in DOMAIN new : Fair(db, r, new[r], job[t]),
           (Clean(db, new) /\ ~Pending(tx[t], job[t])) \/ Pending(next, job[t]),
           Under(tx[t]), ~Idle(next, job[t]), Stands(next, job[t])
    PROVE  BInv'
<1>1. DOMAIN new \subseteq Rows
  BY DEF Fair
<1>2. PICK y : y = Wrote(t, new, next)
  OBVIOUS
<1>3. /\ Moved(t, y) /\ IsTx(y) /\ Newest(y.mine, new, tx[t].mine)
      /\ y.pc = next.pc /\ y.todo = next.todo /\ y.fit = next.fit /\ y.seen = next.seen
  BY <1>1, <1>2, ChangeIs
<1>4. \A r \in DOMAIN y.mine : Fair(db, r, y.mine[r], job[t])
  BY <1>3, About DEF Newest, Knows, Under
<1>5. ConfigVersion \notin DOMAIN y.mine
  BY <1>4 DEF Fair
<1>6. Stands(y, job[t]) /\ ~Idle(y, job[t])
  BY <1>3 DEF Stands, Idle
<1>7. Clean(db, y.mine) \/ Pending(y, job[t])
  <2>1. CASE Clean(db, new) /\ ~Pending(tx[t], job[t])
    <3>1. Clean(db, tx[t].mine)
      BY <2>1, About DEF Knows
    <3> QED
      BY <1>3, <2>1, <3>1 DEF Clean, Newest
  <2>2. CASE Pending(next, job[t])
    <3>1. next.pc = "commit" => ConfigVersion \notin DOMAIN next.mine
      BY About DEF Knows, Under
    <3> QED
      BY <1>3, <2>2, <3>1 DEF Pending
  <2> QED
    BY <2>1, <2>2
<1>8. Knows(db, y, job[t])
  BY <1>3, <1>4, <1>5, <1>6, <1>7 DEF Knows
<1> QED
  BY <1>3, <1>8, MovedKeeps

\* The usual case: one row.
LEMMA ChangeOneKeeps ==
    ASSUME BInv, NEW t \in Requests, NEW r, NEW v, NEW next, Change(t, Version(r, v), next), next.mine = tx[t].mine,
           IsTx(next), Fair(db, r, v, job[t]),
           (Clean(db, Version(r, v)) /\ ~Pending(tx[t], job[t])) \/ Pending(next, job[t]),
           Under(tx[t]), ~Idle(next, job[t]), Stands(next, job[t])
    PROVE  BInv'
<1>1. PICK new : new = Version(r, v)
  OBVIOUS
<1>2. DOMAIN new = {r} /\ new[r] = v
  BY <1>1, OneVersion
<1>3. \A s \in DOMAIN new : Fair(db, s, new[s], job[t])
  BY <1>2
<1> QED
  BY <1>1, <1>3, ChangeKeeps

\* One row that nothing kept depends on, or that stays as it is.
LEMMA CleanIs ==
    ASSUME NEW rows, NEW r, NEW v,
           r \in Roles \cup Features \cup {Settings} => v = rows[r],
           r \in Accounts => v.role = rows[r].role \/ rows[r].is = "None"
    PROVE  Clean(rows, Version(r, v))
<1>1. PICK new : new = Version(r, v)
  OBVIOUS
<1>2. DOMAIN new = {r} /\ new[r] = v
  BY <1>1, OneVersion
<1>3. Clean(rows, new)
  BY <1>2 DEF Clean
<1> QED
  BY <1>1, <1>3

\* A row is locked as it is committed.
LEMMA LockKeeps ==
    ASSUME BInv, NEW t \in Requests, NEW r \in Rows \ {ConfigVersion}, NEW next, Change(t, Version(r, db[r]), next),
           next.mine = tx[t].mine, IsTx(next), ~Pending(tx[t], job[t]), Under(tx[t]), ~Idle(next, job[t]), Stands(next, job[t])
    PROVE  BInv'
<1>1. Fair(db, r, db[r], job[t])
  BY About DEF Fair, Moves
<1>2. Clean(db, Version(r, db[r]))
  BY CleanIs
<1> QED
  BY <1>1, <1>2, ChangeOneKeeps

\* A transaction that was not begun, or is over, has nothing locked.
LEMMA BlankIs ==
    ASSUME NEW pc
    PROVE  /\ Blank(pc).pc = pc /\ Blank(pc).todo = {} /\ IsTx(Blank(pc))
           /\ DOMAIN Blank(pc).mine = {}
<1>1. Blank(pc).pc = pc /\ Blank(pc).todo = {} /\ IsTx(Blank(pc))
  BY DEF Blank, IsTx
<1>2. DOMAIN Blank(pc).mine = {}
  BY DEF Blank
<1> QED
  BY <1>1, <1>2

LEMMA BlankKnows ==
    ASSUME NEW rows, NEW j, NEW pc, pc \in {"done", "failed"} \/ (pc = "wrong" /\ j.do # "reset")
    PROVE  Knows(rows, Blank(pc), j)
<1>1. Blank(pc).pc = pc /\ Blank(pc).todo = {} /\ DOMAIN Blank(pc).mine = {}
  BY BlankIs
<1>2. IsTx(Blank(pc))
  BY BlankIs
<1>3. Stands(Blank(pc), j)
  BY <1>1 DEF Stands
<1>4. Clean(rows, Blank(pc).mine)
  BY <1>1 DEF Clean
<1> QED
  BY <1>1, <1>2, <1>3, <1>4 DEF Knows

LEMMA RefuseKeeps ==
    ASSUME BInv, NEW t \in Requests, Refuse(t)
    PROVE  BInv'
BY BlankKnows, RefuseIs, MovedKeeps

\* Rows that others may not have locked change; t has nothing locked.
Changed(t, y, rows) ==
    /\ tx' = [tx EXCEPT ![t] = y]
    /\ db' = rows /\ job' = job
    /\ lock' = [r \in Rows |-> lock'[r]]
    /\ \A r \in Rows : lock'[r] = IF r \in DOMAIN y.mine THEN t ELSE IF lock[r] = t THEN NoRequest ELSE lock[r]
    /\ \A r \in DOMAIN y.mine : r \in Rows /\ lock[r] \in {NoRequest, t}

\* What a request knows is about the rows it has locked.
LEMMA KnowledgeOutlives ==
    ASSUME NEW rows, NEW new, NEW x, NEW j, Knows(rows, x, j), \A r \in DOMAIN x.mine : new[r] = rows[r]
    PROVE  Knows(new, x, j)
<1>1. \A r \in DOMAIN x.mine : Fair(rows, r, x.mine[r], j) => Fair(new, r, x.mine[r], j)
  BY DEF Fair
<1>2. Clean(rows, x.mine) => Clean(new, x.mine)
  BY DEF Clean
<1> QED
  BY <1>1, <1>2 DEF Knows

LEMMA ChangedKeeps ==
    ASSUME BInv, NEW t \in Requests, NEW y, NEW rows, Changed(t, y, rows), Knows(rows, y, job[t]),
           rows = [r \in Rows |-> rows[r]], \A r \in Rows : Fits(r, rows[r]),
           \A u \in Requests : u # t => \A r \in DOMAIN tx[u].mine : rows[r] = db[r]
    PROVE  BInv'
<1>1. /\ tx'[t] = y /\ \A u \in Requests : u # t => tx'[u] = tx[u]
      /\ tx' = [u \in Requests |-> tx'[u]] /\ db' = rows /\ job' = job
  BY DEF BInv, Changed
<1>2. ASSUME NEW u \in Requests
      PROVE  {r \in Rows : lock'[r] = u} = DOMAIN tx'[u].mine
  <2>1. CASE u = t
    BY <1>1, <2>1, About DEF Changed
  <2>2. CASE u # t
    BY <1>1, <2>2, About DEF Changed
  <2> QED
    BY <2>1, <2>2
<1>3. ASSUME NEW u \in Requests
      PROVE  Knows(rows, tx'[u], job[u])
  <2>1. CASE u = t
    BY <1>1, <2>1
  <2>2. CASE u # t
    <3>1. Knows(db, tx[u], job[u])
      BY About
    <3> QED
      BY <1>1, <2>2, <3>1, KnowledgeOutlives
  <2> QED
    BY <2>1, <2>2
<1>4. lock' = [r \in Rows |-> lock'[r]] /\ job' \in Starts
  BY DEF BInv, Changed
<1> QED
  BY <1>1, <1>2, <1>3, <1>4 DEF BInv

\* COMMIT.
LEMMA FinishIs ==
    ASSUME BInv, NEW t \in Requests, Finish(t)
    PROVE  /\ tx[t].pc = "commit" /\ Changed(t, Blank("done"), db')
           /\ db' = [r \in Rows |-> db'[r]]
           /\ \A r \in Rows : db'[r] = IF r \in DOMAIN tx[t].mine THEN tx[t].mine[r] ELSE db[r]
<1>1. DOMAIN Blank("done").mine = {}
  BY DEF Blank
<1>2. db' = [r \in Rows |-> View(t, r)] /\ tx[t].pc = "commit"
  BY DEF Finish, Commit, At
<1>3. /\ tx' = [tx EXCEPT ![t] = Blank("done")] /\ job' = job
      /\ lock' = [r \in Rows |-> IF lock[r] = t THEN NoRequest ELSE lock[r]]
  BY DEF Finish, Commit, End
<1> QED
  BY <1>1, <1>2, <1>3, About DEF Changed

LEMMA FinishKeeps ==
    ASSUME BInv, NEW t \in Requests, Finish(t)
    PROVE  BInv'
<1>1. PICK rows : rows = db'
  OBVIOUS
<1>2. /\ Changed(t, Blank("done"), rows) /\ rows = [r \in Rows |-> rows[r]]
      /\ \A r \in Rows : rows[r] = IF r \in DOMAIN tx[t].mine THEN tx[t].mine[r] ELSE db[r]
  BY <1>1, FinishIs
<1>3. \A r \in Rows : Fits(r, rows[r])
  <2>1. db[ConfigVersion] \in Nat
    BY About, RowsAre, TypesAre
  <2>2. ConfigVersion \in DOMAIN tx[t].mine => Fits(ConfigVersion, tx[t].mine[ConfigVersion])
    BY <2>1, About, TypesAre DEF Knows
  <2>3. \A r \in DOMAIN tx[t].mine : Fits(r, tx[t].mine[r])
    BY <2>2, About DEF Knows, Fair
  <2> QED
    BY <2>3, <1>2, About
<1>4. \A u \in Requests : u # t => \A r \in DOMAIN tx[u].mine : rows[r] = db[r]
  BY <1>2, Apart, About
<1>5. Knows(rows, Blank("done"), job[t])
  BY BlankKnows
<1> QED
  BY <1>2, <1>3, <1>4, <1>5, ChangedKeeps

\* A statement of no transaction.
LEMMA OnceIs ==
    ASSUME BInv, NEW t \in Requests, NEW new, NEW next, Once(t, new, next), DOMAIN next.mine = {}, DOMAIN tx[t].mine = {},
           DOMAIN new \subseteq Rows
    PROVE  /\ Changed(t, next, db')
           /\ db' = [r \in Rows |-> db'[r]]
           /\ \A r \in Rows : db'[r] = IF r \in DOMAIN new THEN new[r] ELSE db[r]
           /\ \A u \in Requests : u # t => \A r \in DOMAIN tx[u].mine : db'[r] = db[r]
<1>1. /\ tx' = [tx EXCEPT ![t] = next] /\ job' = job /\ lock' = lock
      /\ \A r \in DOMAIN new : lock[r] = NoRequest
      /\ db' = new ++ db
  BY DEF Once
<1>2. Newest(db', new, db)
  BY <1>1, NewestCounts
<1>3. db' = [r \in Rows |-> db'[r]] /\ \A r \in Rows : db'[r] = IF r \in DOMAIN new THEN new[r] ELSE db[r]
  BY <1>2 DEF Newest, BInv
<1>4. \A u \in Requests : \A r \in DOMAIN tx[u].mine : r \in Rows /\ r \notin DOMAIN new
  BY <1>1, About
<1>5. lock = [r \in Rows |-> lock[r]]
  BY DEF BInv
<1>6. Changed(t, next, db')
  BY <1>1, <1>5, About DEF Changed
<1> QED
  BY <1>3, <1>4, <1>6

LEMMA OnceKeeps ==
    ASSUME BInv, NEW t \in Requests, NEW new, NEW next, Once(t, new, next), DOMAIN next.mine = {}, DOMAIN tx[t].mine = {},
           DOMAIN new \subseteq Rows, \A r \in DOMAIN new : Fits(r, new[r]), Knows(db', next, job[t])
    PROVE  BInv'
<1>1. PICK rows : rows = db'
  OBVIOUS
<1>2. /\ Changed(t, next, rows) /\ rows = [r \in Rows |-> rows[r]]
      /\ \A r \in Rows : rows[r] = IF r \in DOMAIN new THEN new[r] ELSE db[r]
      /\ \A u \in Requests : u # t => \A r \in DOMAIN tx[u].mine : rows[r] = db[r]
  BY <1>1, OnceIs
<1>3. \A r \in Rows : Fits(r, rows[r])
  BY <1>2, About
<1>4. Knows(rows, next, job[t])
  BY <1>1
<1> QED
  BY <1>2, <1>3, <1>4, ChangedKeeps

-----------------------------------------------------------------------------
(* Steps *)

\* A request goes on to another statement, with what it has.
LEMMA GoesOn ==
    ASSUME NEW x, IsTx(x), NEW pc
    PROVE  LET y == [x EXCEPT !.pc = pc]
           IN  y.pc = pc /\ y.mine = x.mine /\ y.todo = x.todo /\ y.fit = x.fit /\ y.seen = x.seen /\ IsTx(y)
<1>1. DOMAIN x = {"pc", "mine", "todo", "fit", "seen"}
  BY DEF IsTx
<1>2. PICK y : y = [x EXCEPT !.pc = pc]
  OBVIOUS
<1>3. y.pc = pc /\ y.mine = x.mine /\ y.todo = x.todo /\ y.fit = x.fit /\ y.seen = x.seen
  BY <1>1, <1>2
<1>4. y = [pc |-> pc, mine |-> x.mine, todo |-> x.todo, fit |-> x.fit, seen |-> x.seen]
  BY <1>1, <1>2
<1>5. IsTx(y)
  BY <1>3, <1>4 DEF IsTx
<1> QED
  BY <1>2, <1>3, <1>5

LEMMA ToIs ==
    ASSUME BInv, NEW t \in Requests, NEW pc
    PROVE  /\ To(t, pc).pc = pc /\ To(t, pc).mine = tx[t].mine /\ To(t, pc).todo = tx[t].todo
           /\ To(t, pc).fit = tx[t].fit /\ To(t, pc).seen = tx[t].seen /\ IsTx(To(t, pc))
BY About, GoesOn DEF To

\* With other findings.
LEMMA WithTodo ==
    ASSUME NEW x, IsTx(x), NEW v, NEW y, y = [x EXCEPT !.todo = v]
    PROVE  y.pc = x.pc /\ y.mine = x.mine /\ y.todo = v /\ y.fit = x.fit /\ y.seen = x.seen /\ IsTx(y)
<1>1. DOMAIN x = {"pc", "mine", "todo", "fit", "seen"}
  BY DEF IsTx
<1>2. y = [pc |-> x.pc, mine |-> x.mine, todo |-> v, fit |-> x.fit, seen |-> x.seen]
  BY <1>1
<1> QED
  BY <1>2 DEF IsTx

LEMMA WithFit ==
    ASSUME NEW x, IsTx(x), NEW v, NEW y, y = [x EXCEPT !.fit = v]
    PROVE  y.pc = x.pc /\ y.mine = x.mine /\ y.todo = x.todo /\ y.fit = v /\ y.seen = x.seen /\ IsTx(y)
<1>1. DOMAIN x = {"pc", "mine", "todo", "fit", "seen"}
  BY DEF IsTx
<1>2. y = [pc |-> x.pc, mine |-> x.mine, todo |-> x.todo, fit |-> v, seen |-> x.seen]
  BY <1>1
<1> QED
  BY <1>2 DEF IsTx

LEMMA WithSeen ==
    ASSUME NEW x, IsTx(x), NEW v, NEW y, y = [x EXCEPT !.seen = v]
    PROVE  y.pc = x.pc /\ y.mine = x.mine /\ y.todo = x.todo /\ y.fit = x.fit /\ y.seen = v /\ IsTx(y)
<1>1. DOMAIN x = {"pc", "mine", "todo", "fit", "seen"}
  BY DEF IsTx
<1>2. y = [pc |-> x.pc, mine |-> x.mine, todo |-> x.todo, fit |-> x.fit, seen |-> v]
  BY <1>1
<1> QED
  BY <1>2 DEF IsTx

\* A statement that reads, of a request that has raised nothing.
LEMMA LookOnKeeps ==
    ASSUME BInv, NEW t \in Requests, NEW next, Look(t, next), next.mine = tx[t].mine, IsTx(next),
           tx[t].pc \notin {"bump", "commit", "done", "failed", "lock_group", "rewrite"},
           Stands(next, job[t]), Idle(next, job[t]) => Idle(tx[t], job[t])
    PROVE  BInv'
BY LookKeeps DEF Under, Pending

LEMMA LookToKeeps ==
    ASSUME BInv, NEW t \in Requests, NEW pc, Look(t, To(t, pc)),
           tx[t].pc \notin {"bump", "commit", "done", "failed", "lock_group", "rewrite"},
           Stands(To(t, pc), job[t]),
           pc \in {"begin", "record", "newest", "wrong", "done", "failed"} => Idle(tx[t], job[t])
    PROVE  BInv'
<1>1. To(t, pc).mine = tx[t].mine /\ To(t, pc).pc = pc /\ IsTx(To(t, pc))
  BY ToIs
<1>2. Idle(To(t, pc), job[t]) => Idle(tx[t], job[t])
  BY <1>1 DEF Idle
<1> QED
  BY <1>1, <1>2, LookOnKeeps

\* Where nothing is asked of who stands there.
LEMMA PlainStands ==
    ASSUME BInv, NEW t \in Requests, NEW pc,
           pc \notin {"save", "find", "target", "decide", "owners", "lock_owners", "bump", "commit", "spend", "end_visit",
                      "lock_group", "rewrite"},
           pc = "wrong" => job[t].do # "reset", pc = "write" => job[t].do # "guest"
    PROVE  Stands(To(t, pc), job[t])
<1>1. To(t, pc).pc = pc
  BY ToIs
<1> QED
  BY <1>1 DEF Stands

LEMMA CommitStands ==
    ASSUME BInv, NEW t \in Requests, job[t].do \notin {"enter", "settings", "may", "info", "send", "forgot"}
    PROVE  Stands(To(t, "commit"), job[t])
<1>1. To(t, "commit").pc = "commit"
  BY ToIs
<1> QED
  BY <1>1 DEF Stands, Idle

\* Who raises config_version.
Raisers == {"create", "edit", "off", "on", "delete", "mark", "switch", "save", "reorder", "business", "delivery"}

LEMMA BumpStands ==
    ASSUME BInv, NEW t \in Requests, job[t].do \in Raisers
    PROVE  Stands(To(t, "bump"), job[t])
<1>1. To(t, "bump").pc = "bump"
  BY ToIs
<1> QED
  BY <1>1 DEF Stands, Raisers

\* A row as t sees it, when t has raised nothing.
LEMMA SeenClean ==
    ASSUME BInv, NEW t \in Requests, ~Pending(tx[t], job[t]), NEW r \in Rows
    PROVE  Clean(db, Version(r, View(t, r)))
<1>1. r \in DOMAIN tx[t].mine => Clean(db, tx[t].mine)
  BY About DEF Knows
<1>2. r \in Roles \cup Features \cup {Settings} => View(t, r) = db[r]
  BY <1>1, About DEF Clean
<1>3. r \in Accounts => View(t, r).role = db[r].role \/ db[r].is = "None"
  BY <1>1, About DEF Clean
<1> QED
  BY <1>2, <1>3, CleanIs

\* A row is locked as t sees it.
LEMMA LockSeenKeeps ==
    ASSUME BInv, NEW t \in Requests, NEW r \in Rows \ {ConfigVersion}, NEW next, Change(t, Version(r, View(t, r)), next),
           next.mine = tx[t].mine, IsTx(next), Pending(tx[t], job[t]) => Pending(next, job[t]), Under(tx[t]),
           ~Idle(next, job[t]), Stands(next, job[t])
    PROVE  BInv'
<1>1. Fair(db, r, View(t, r), job[t])
  BY SeenFair
<1>2. ~Pending(tx[t], job[t]) => Clean(db, Version(r, View(t, r)))
  BY SeenClean
<1> QED
  BY <1>1, <1>2, ChangeOneKeeps

\* The same, going on to another statement.
LEMMA LockToKeeps ==
    ASSUME BInv, NEW t \in Requests, NEW r \in Rows \ {ConfigVersion}, NEW pc, Change(t, Version(r, db[r]), To(t, pc)),
           tx[t].pc \notin {"bump", "commit", "done", "failed", "lock_group", "rewrite"},
           ~Idle(To(t, pc), job[t]), Stands(To(t, pc), job[t])
    PROVE  BInv'
<1>1. To(t, pc).mine = tx[t].mine /\ To(t, pc).pc = pc /\ IsTx(To(t, pc))
  BY ToIs
<1> QED
  BY <1>1, LockKeeps DEF Under, Pending

LEMMA OpenFormKeeps ==
    ASSUME BInv, NEW t \in Requests, OpenForm(t)
    PROVE  BInv'
<1>1. PICK next : next = [To(t, "save") EXCEPT !.seen = db[Row(t)].version]
  OBVIOUS
<1>2. next.mine = tx[t].mine /\ next.pc = "save" /\ IsTx(next)
  BY <1>1, ToIs, WithSeen
<1>3. tx[t].pc = "begin" /\ job[t].do = "save" /\ Look(t, next)
  BY <1>1, About DEF OpenForm, At, Do, Form
<1>4. Stands(next, job[t])
  BY <1>2, <1>3 DEF Stands
<1> QED
  BY <1>2, <1>3, <1>4, LookOnKeeps DEF Idle

LEMMA FormStepKeeps ==
    ASSUME BInv, NEW t \in Requests, FormStep(t)
    PROVE  BInv'
<1>1. CASE OpenForm(t)
  BY <1>1, OpenFormKeeps
<1>2. CASE LockForm(t)
  <2>1. tx[t].pc = "save" /\ Change(t, Version(Row(t), db[Row(t)]), To(t, "check"))
    BY <1>2 DEF LockForm, At
  <2>2. job[t].do = "save" /\ Row(t) \in Features
    BY <2>1, About DEF Knows, Stands, Form, Row
  <2>3. Row(t) \in Rows \ {ConfigVersion}
    BY <2>2, RowsAre, TablesDiffer
  <2>4. Stands(To(t, "check"), job[t])
    BY PlainStands
  <2>5. ~Idle(To(t, "check"), job[t])
    BY <2>2, ToIs DEF Idle
  <2> QED
    BY <2>1, <2>3, <2>4, <2>5, LockToKeeps
<1>3. CASE RefuseStale(t)
  BY <1>3, RefuseKeeps DEF RefuseStale
<1> QED
  BY <1>1, <1>2, <1>3 DEF FormStep

LEMMA BumpKeeps ==
    ASSUME BInv, NEW t \in Requests, bump_config_version(t)
    PROVE  BInv'
<1>1. PICK n, new, next : n = View(t, ConfigVersion) + 1 /\ new = Version(ConfigVersion, n) /\ next = To(t, "commit")
  OBVIOUS
<1>2. DOMAIN new = {ConfigVersion} /\ new[ConfigVersion] = n
  BY <1>1, OneVersion
<1>3. next.mine = tx[t].mine /\ next.pc = "commit" /\ IsTx(next)
  BY <1>1, ToIs
<1>4. tx[t].pc = "bump" /\ Change(t, new, next)
  BY <1>1 DEF bump_config_version, At
<1>5. ConfigVersion \notin DOMAIN tx[t].mine /\ ConfigVersion \in Rows
  BY <1>4, About, RowsAre DEF Knows
<1>6. n = db[ConfigVersion] + 1
  BY <1>1, <1>5, About
<1>7. PICK y : y = Wrote(t, new, next)
  OBVIOUS
<1>8. /\ Moved(t, y) /\ IsTx(y) /\ Newest(y.mine, new, tx[t].mine)
      /\ y.pc = next.pc /\ y.todo = next.todo /\ y.fit = next.fit /\ y.seen = next.seen
  BY <1>2, <1>3, <1>4, <1>5, <1>7, ChangeIs
<1>9. \A r \in DOMAIN y.mine : r = ConfigVersion \/ Fair(db, r, y.mine[r], job[t])
  BY <1>2, <1>8, About DEF Newest, Knows
<1>10. ConfigVersion \in DOMAIN y.mine /\ y.mine[ConfigVersion] = db[ConfigVersion] + 1
  BY <1>2, <1>6, <1>8 DEF Newest
<1>11. job[t].do \in Raisers
  BY <1>4, About DEF Knows, Stands, Raisers
<1>12. ~Idle(y, job[t])
  BY <1>3, <1>8, <1>11 DEF Idle, Raisers
<1>13. Stands(y, job[t])
  BY <1>3, <1>8, <1>12 DEF Stands
<1>14. Pending(y, job[t])
  BY <1>3, <1>8, <1>10 DEF Pending
<1>15. Knows(db, y, job[t])
  BY <1>3, <1>8, <1>9, <1>10, <1>12, <1>13, <1>14 DEF Knows
<1> QED
  BY <1>8, <1>15, MovedKeeps

-----------------------------------------------------------------------------
(* Accounts *)

\* What t does to an account that it has changed before.
LEMMA MovesOn ==
    ASSUME NEW old \in AccountType, NEW mid \in AccountType, NEW new \in AccountType, NEW j, NEW a,
           Moves(old, mid, j, a), j.do \notin {"create", "guest"},
           new.guest = mid.guest, mid.is # "None" => new.is # "None",
           new.role = mid.role \/ (j.do = "edit" /\ a = j.row /\ new.role = j.to.role),
           \/ new.is = mid.is
           \/ j.do = "on" /\ a = j.row /\ new.is = "Active"
           \/ j.do \in {"off", "delete"} /\ a = j.row /\ new.is # "Active",
           new.version = mid.version + 1 \/ (new.version = mid.version /\ new.must = mid.must)
    PROVE  Moves(old, new, j, a)
<1>1. old.version \in Nat /\ mid.version \in Nat /\ new.version \in Nat
  BY DEF AccountType
<1>2. new.version > mid.version \/ (new.version = mid.version /\ new.must = mid.must)
  BY <1>1
<1>3. mid.version > old.version \/ (mid.version = old.version /\ mid.must = old.must)
  BY <1>1 DEF Moves
<1>4. new.version > old.version \/ (new.version = old.version /\ new.must = old.must)
  BY <1>1, <1>2, <1>3
<1>5. mid = old \/ j.do \notin {"create", "guest"}
  OBVIOUS
<1>6. /\ new.is = "None" => old.is = "None"
      /\ new.guest = old.guest
      /\ new.role = old.role \/ (j.do = "edit" /\ a = j.row /\ new.role = j.to.role)
      /\ \/ new.is = old.is
         \/ j.do = "on" /\ a = j.row /\ new.is = "Active"
         \/ j.do \in {"off", "delete"} /\ a = j.row /\ new.is # "Active"
         \/ a \in Guests /\ new.is = "Inactive"
  BY DEF Moves
<1> QED
  BY <1>4, <1>6 DEF Moves

\* An account as t sees it.
LEMMA SeenAccount ==
    ASSUME BInv, NEW t \in Requests, NEW a \in Accounts
    PROVE  db[a] \in AccountType /\ View(t, a) \in AccountType /\ Moves(db[a], View(t, a), job[t], a)
<1>1. a \in Rows \ {ConfigVersion}
  BY RowsAre, TablesDiffer
<1>2. Fair(db, a, View(t, a), job[t]) /\ Fits(a, db[a])
  BY <1>1, SeenFair, About
<1> QED
  BY <1>2, TypesAre DEF Fair

\* What t may write to an account.
LEMMA FairAccount ==
    ASSUME NEW rows, NEW a \in Accounts, NEW v \in AccountType, NEW j, Moves(rows[a], v, j, a)
    PROVE  Fair(rows, a, v, j)
BY RowsAre, TablesDiffer, TypesAre DEF Fair

\* An account is written, and its role stays or config_version will be raised.
LEMMA AccountKeeps ==
    ASSUME BInv, NEW t \in Requests, NEW a \in Accounts, NEW v \in AccountType, NEW pc, Change(t, Version(a, v), To(t, pc)),
           Moves(db[a], v, job[t], a), v.role = db[a].role \/ db[a].is = "None" \/ pc = "bump",
           tx[t].pc \notin {"bump", "commit", "done", "failed", "lock_group", "rewrite"},
           ~Idle(To(t, pc), job[t]), Stands(To(t, pc), job[t])
    PROVE  BInv'
<1>1. Fair(db, a, v, job[t])
  BY FairAccount
<1>2. ~Pending(tx[t], job[t])
  BY DEF Pending
<1>3. pc = "bump" => Pending(To(t, pc), job[t])
  BY ToIs DEF Pending
<1>4. pc # "bump" => Clean(db, Version(a, v))
  BY CleanIs, TablesDiffer
<1> QED
  BY <1>1, <1>2, <1>3, <1>4, ToIs, ChangeOneKeeps DEF Under

LEMMA OpenPageKeeps ==
    ASSUME BInv, NEW t \in Requests, OpenPage(t)
    PROVE  BInv'
<1>1. PICK next : next = [To(t, "caller") EXCEPT !.seen = [version |-> db[Row(t)].version]]
  OBVIOUS
<1>2. next.mine = tx[t].mine /\ next.pc = "caller" /\ IsTx(next)
  BY <1>1, ToIs, WithSeen
<1>3. tx[t].pc = "begin" /\ Look(t, next)
  BY <1>1 DEF OpenPage, At
<1>4. Stands(next, job[t])
  BY <1>2 DEF Stands
<1> QED
  BY <1>2, <1>3, <1>4, LookOnKeeps DEF Idle

LEMMA ReadCallerKeeps ==
    ASSUME BInv, NEW t \in Requests, NEW pc, ReadCaller(t, pc), pc \in {"role", "find", "plan"},
           pc = "find" => job[t].do \in {"edit", "off", "on", "delete"}
    PROVE  BInv'
<1>1. PICK next, seen : next = [To(t, pc) EXCEPT !.seen = seen] /\ Look(t, next) /\ tx[t].pc \in {"begin", "caller"}
  BY DEF ReadCaller, At
<1>2. next.mine = tx[t].mine /\ next.pc = pc /\ IsTx(next)
  BY <1>1, ToIs, WithSeen
<1>3. Stands(next, job[t])
  BY <1>2 DEF Stands
<1> QED
  BY <1>1, <1>2, <1>3, LookOnKeeps DEF Idle

LEMMA FindTargetKeeps ==
    ASSUME BInv, NEW t \in Requests, FindTarget(t)
    PROVE  BInv'
<1>1. CASE Refuse(t)
  BY <1>1, RefuseKeeps
<1>2. CASE ~Refuse(t)
  <2>1. PICK next : /\ next = [To(t, "target") EXCEPT !.fit = {db[Row(t)].role}] /\ Look(t, next)
                    /\ tx[t].pc = "find" /\ Row(t) \in Accounts
    BY <1>2 DEF FindTarget, At
  <2>2. next.mine = tx[t].mine /\ next.pc = "target" /\ IsTx(next)
    BY <2>1, ToIs, WithFit
  <2>3. Stands(next, job[t])
    BY <2>1, <2>2, About DEF Knows, Stands, Row
  <2> QED
    BY <2>1, <2>2, <2>3, LookOnKeeps DEF Idle
<1> QED
  BY <1>1, <1>2

LEMMA LockTargetKeeps ==
    ASSUME BInv, NEW t \in Requests, LockTarget(t)
    PROVE  BInv'
<1>1. PICK next : /\ next = [To(t, "decide") EXCEPT !.fit = @ \cap {db[Row(t)].role}]
                  /\ Change(t, Version(Row(t), db[Row(t)]), next)
  BY DEF LockTarget
<1>2. tx[t].pc = "target" /\ Row(t) \in Accounts /\ job[t].do \in {"edit", "off", "on", "delete"}
  BY About DEF LockTarget, At, Knows, Stands, Row
<1>3. next.mine = tx[t].mine /\ next.pc = "decide" /\ IsTx(next)
  BY <1>1, ToIs, WithFit
<1>4. Stands(next, job[t]) /\ ~Idle(next, job[t])
  BY <1>2, <1>3 DEF Stands, Idle
<1>5. Row(t) \in Rows \ {ConfigVersion}
  BY <1>2, RowsAre, TablesDiffer
<1> QED
  BY <1>1, <1>2, <1>3, <1>4, <1>5, LockKeeps DEF Under, Pending

LEMMA FindOwnersKeeps ==
    ASSUME BInv, NEW t \in Requests, FindOwners(t)
    PROVE  BInv'
<1>1. PICK owners, next : /\ owners = {a \in Accounts : IsOwner(t, a)}
                          /\ next = [To(t, "lock_owners") EXCEPT !.todo = owners] /\ Look(t, next)
  BY DEF FindOwners
<1>2. owners \subseteq Accounts
  BY <1>1
<1>3. next = [To(t, "lock_owners") EXCEPT !.todo = owners]
  BY <1>1
<1>4. next.mine = tx[t].mine /\ next.pc = "lock_owners" /\ next.todo = owners /\ IsTx(next)
  BY <1>3, ToIs, WithTodo
<1>5. tx[t].pc = "owners" /\ job[t].row \in Accounts /\ job[t].do \in {"edit", "off", "on", "delete"}
  BY About DEF FindOwners, At, Knows, Stands
<1>6. Stands(next, job[t]) /\ ~Idle(next, job[t])
  BY <1>2, <1>4, <1>5 DEF Stands, Idle
<1> QED
  BY <1>1, <1>4, <1>5, <1>6, LookOnKeeps

LEMMA LockOwnerIs ==
    ASSUME BInv, NEW t \in Requests, LockOwner(t)
    PROVE  \E a \in tx[t].todo : \E next :
            /\ Change(t, Version(a, View(t, a)), next) /\ a \in Accounts
            /\ next.pc = "lock_owners" /\ next.mine = tx[t].mine /\ next.todo = tx[t].todo \ {a} /\ next.seen = tx[t].seen
            /\ next.fit = IF IsOwner(t, a) THEN tx[t].fit \cup {a} ELSE tx[t].fit
            /\ IsTx(next)
<1>1. tx[t].pc = "lock_owners" /\ tx[t].todo \subseteq Accounts
  BY About DEF LockOwner, At, Knows, Stands
<1>2. PICK a \in tx[t].todo :
        Change(t, Version(a, View(t, a)),
               [tx[t] EXCEPT !.todo = @ \ {a}, !.fit = IF IsOwner(t, a) THEN @ \cup {a} ELSE @])
  BY DEF LockOwner
<1>3. PICK x : x = tx[t] /\ IsTx(x)
  BY About
<1>4. PICK F : F = IF IsOwner(t, a) THEN x.fit \cup {a} ELSE x.fit
  OBVIOUS
<1>5. PICK y : y = [x EXCEPT !.todo = @ \ {a}, !.fit = IF IsOwner(t, a) THEN @ \cup {a} ELSE @]
  OBVIOUS
<1>6. DOMAIN x = {"pc", "mine", "todo", "fit", "seen"}
  BY <1>3 DEF IsTx
<1>7. y = [pc |-> x.pc, mine |-> x.mine, todo |-> x.todo \ {a}, fit |-> F, seen |-> x.seen]
  BY <1>4, <1>5, <1>6
<1>8. y.pc = x.pc /\ y.mine = x.mine /\ y.todo = x.todo \ {a} /\ y.fit = F /\ y.seen = x.seen /\ IsTx(y)
  BY <1>7 DEF IsTx
<1> QED
  BY <1>1, <1>2, <1>3, <1>4, <1>5, <1>8

LEMMA LockOwnerKeeps ==
    ASSUME BInv, NEW t \in Requests, LockOwner(t)
    PROVE  BInv'
<1>0. PICK a \in tx[t].todo : \E next :
            /\ Change(t, Version(a, View(t, a)), next) /\ a \in Accounts
            /\ next.pc = "lock_owners" /\ next.mine = tx[t].mine /\ next.todo = tx[t].todo \ {a} /\ IsTx(next)
  BY LockOwnerIs
<1>1. PICK next :
            /\ Change(t, Version(a, View(t, a)), next) /\ a \in Accounts
            /\ next.pc = "lock_owners" /\ next.mine = tx[t].mine /\ next.todo = tx[t].todo \ {a} /\ IsTx(next)
  BY <1>0
<1>2. tx[t].pc = "lock_owners"
  BY DEF LockOwner, At
<1>3. Stands(next, job[t]) /\ ~Idle(next, job[t])
  BY <1>1, <1>2, About DEF Knows, Stands, Idle
<1>4. a \in Rows \ {ConfigVersion}
  BY <1>1, RowsAre, TablesDiffer
<1> QED
  BY <1>1, <1>2, <1>3, <1>4, LockSeenKeeps DEF Under, Pending

LEMMA AnotherOwnerKeeps ==
    ASSUME BInv, NEW t \in Requests, AnotherOwner(t)
    PROVE  BInv'
<1>1. CASE Refuse(t)
  BY <1>1, RefuseKeeps
<1>2. CASE ~Refuse(t)
  <2>1. tx[t].pc = "lock_owners"
    BY DEF AnotherOwner, At
  <2>2. job[t].do # "guest"
    BY <2>1, About DEF Knows, Stands
  <2>3. PICK pc \in {"role", "write"} : Look(t, To(t, pc))
    BY <1>2 DEF AnotherOwner
  <2>4. Stands(To(t, pc), job[t])
    BY <2>2, <2>3, PlainStands
  <2> QED
    BY <2>1, <2>3, <2>4, LookToKeeps
<1> QED
  BY <1>1, <1>2

LEMMA SpareKeeps ==
    ASSUME BInv, NEW t \in Requests, NEW pc \in {"role", "write"}, Spare(t, pc), tx[t].pc = "decide", Row(t) \in Accounts
    PROVE  BInv'
<1>1. CASE Refuse(t)
  BY <1>1, RefuseKeeps
<1>2. CASE ~Refuse(t)
  <2>1. PICK p \in {"owners", "role", "write"} : Look(t, [To(t, p) EXCEPT !.fit = {}])
    BY <1>2 DEF Spare
  <2>2. PICK next : next = [To(t, p) EXCEPT !.fit = {}]
    OBVIOUS
  <2>3. next.mine = tx[t].mine /\ next.pc = p /\ IsTx(next)
    BY <2>2, ToIs, WithFit
  <2>4. job[t].do \in {"edit", "off", "on", "delete"}
    BY About DEF Knows, Stands
  <2>5. Stands(next, job[t]) /\ ~Idle(next, job[t])
    BY <2>3, <2>4 DEF Stands, Idle, Row
  <2> QED
    BY <2>1, <2>2, <2>3, <2>5, LookOnKeeps
<1> QED
  BY <1>1, <1>2

LEMMA read_roleKeeps ==
    ASSUME BInv, NEW t \in Requests, read_role(t, "write"), tx[t].pc = "role", job[t].do # "guest"
    PROVE  BInv'
<1>1. CASE Refuse(t)
  BY <1>1, RefuseKeeps
<1>2. CASE ~Refuse(t)
  <2>1. Look(t, To(t, "write"))
    BY <1>2 DEF read_role
  <2>2. Stands(To(t, "write"), job[t])
    BY PlainStands
  <2> QED
    BY <2>1, <2>2, LookToKeeps
<1> QED
  BY <1>1, <1>2

LEMMA create_userKeeps ==
    ASSUME BInv, NEW t \in Requests, create_user(t)
    PROVE  BInv'
<1>1. job[t].do = "create" /\ Row(t) \in Accounts
  BY DEF create_user, Asks, Do
<1>2. CASE ReadCaller(t, "role")
  BY <1>2, ReadCallerKeeps
<1>3. CASE At(t, "role") /\ read_role(t, "write")
  BY <1>1, <1>3, read_roleKeeps DEF At
<1>4. CASE At(t, "write") /\ IsNew(t, Row(t)) /\ Change(t, Version(Row(t), Sent(t)), To(t, "commit"))
  <2>1. Sent(t) \in AccountType /\ Sent(t).is = "Active" /\ Row(t) \notin Guests
    BY <1>1, About, TablesDiffer DEF Form, Row, Sent
  <2>2. db[Row(t)].is = "None"
    BY <1>1, <1>4, SeenAccount DEF IsNew, Moves
  <2>3. Moves(db[Row(t)], Sent(t), job[t], Row(t))
    BY <1>1, <2>1, <2>2 DEF Moves, Row
  <2>4. Stands(To(t, "commit"), job[t])
    BY <1>1, CommitStands
  <2>5. ~Idle(To(t, "commit"), job[t])
    BY <1>1, ToIs DEF Idle
  <2> QED
    BY <1>1, <1>4, <2>1, <2>2, <2>3, <2>4, <2>5, AccountKeeps DEF At
<1> QED
  BY <1>2, <1>3, <1>4 DEF create_user

\* Where a request that edits or switches an account may go on.
LEMMA OnAccountStands ==
    ASSUME BInv, NEW t \in Requests, job[t].do \in {"edit", "off", "on", "delete"}, NEW pc \in {"write", "role", "bump", "commit"}
    PROVE  Stands(To(t, pc), job[t]) /\ ~Idle(To(t, pc), job[t])
<1>1. Stands(To(t, "commit"), job[t]) /\ Stands(To(t, "bump"), job[t])
  BY CommitStands, BumpStands DEF Raisers
<1>2. pc \in {"write", "role"} => Stands(To(t, pc), job[t])
  BY PlainStands
<1>3. ~Idle(To(t, pc), job[t])
  BY ToIs DEF Idle
<1> QED
  BY <1>1, <1>2, <1>3

LEMMA update_userKeeps ==
    ASSUME BInv, NEW t \in Requests, update_user(t)
    PROVE  BInv'
<1>1. job[t].do = "edit" /\ Row(t) \in Accounts
  BY DEF update_user, Asks, Do
<1>2. CASE ReadCaller(t, "find")
  BY <1>1, <1>2, ReadCallerKeeps
<1>3. CASE Refuse(t)
  BY <1>3, RefuseKeeps
<1>4. ASSUME At(t, "decide"), NEW pc \in {"write", "commit"}, Look(t, To(t, pc))
      PROVE  BInv'
  BY <1>1, <1>4, OnAccountStands, LookToKeeps DEF At
<1>5. CASE At(t, "decide") /\ Spare(t, "role")
  BY <1>1, <1>5, SpareKeeps DEF At
<1>6. CASE At(t, "role") /\ read_role(t, "write")
  BY <1>1, <1>6, read_roleKeeps DEF At
<1>7. ASSUME At(t, "write"), NEW pc, pc = IF Sent(t).role # Own(t).role THEN "bump" ELSE "commit",
             Change(t, Version(Row(t), Updated(Own(t), Sent(t))), To(t, pc))
      PROVE  BInv'
  <2>1. Sent(t) \in [role : Roles]
    BY <1>1, About, TablesDiffer DEF Form, Row, Sent
  <2>2. Own(t) \in AccountType /\ Moves(db[Row(t)], Own(t), job[t], Row(t)) /\ db[Row(t)] \in AccountType
    BY <1>1, SeenAccount DEF Own
  <2>3. PICK v : v = Updated(Own(t), Sent(t))
    OBVIOUS
  <2>4. /\ v \in AccountType /\ v.is = Own(t).is /\ v.role = Sent(t).role /\ v.guest = Own(t).guest
        /\ v.version = Own(t).version + 1
    BY <2>1, <2>2, <2>3, UpdatedRole
  <2>5. Moves(db[Row(t)], v, job[t], Row(t))
    BY <1>1, <2>2, <2>4, MovesOn DEF Row, Sent
  <2>6. v.role = db[Row(t)].role \/ db[Row(t)].is = "None" \/ pc = "bump"
    <3>1. CASE Row(t) \in DOMAIN tx[t].mine
      <4>1. ~Pending(tx[t], job[t])
        BY <1>7 DEF Pending, At
      <4>2. Clean(db, tx[t].mine)
        BY <4>1, About DEF Knows
      <4>3. Own(t) = tx[t].mine[Row(t)]
        BY <3>1, About DEF Own
      <4> QED
        BY <1>1, <1>7, <2>4, <3>1, <4>2, <4>3 DEF Clean
    <3>2. CASE Row(t) \notin DOMAIN tx[t].mine
      <4>1. Own(t) = db[Row(t)]
        BY <1>1, <3>2, About, RowsAre DEF Own
      <4> QED
        BY <1>7, <2>4, <4>1
    <3> QED
      BY <3>1, <3>2
  <2>7. Stands(To(t, pc), job[t]) /\ ~Idle(To(t, pc), job[t])
    BY <1>1, <1>7, OnAccountStands
  <2>8. Change(t, Version(Row(t), v), To(t, pc)) /\ tx[t].pc = "write"
    BY <1>7, <2>3 DEF At
  <2> QED
    BY <1>1, <2>4, <2>5, <2>6, <2>7, <2>8, AccountKeeps
<1> QED
  BY <1>2, <1>3, <1>4, <1>5, <1>6, <1>7 DEF update_user

LEMMA SwitchUserKeeps ==
    ASSUME BInv, NEW t \in Requests, SwitchUser(t), Do(t) \in {"off", "on", "delete"}
    PROVE  BInv'
<1>1. job[t].do \in {"off", "on", "delete"} /\ Row(t) \in Accounts
  BY DEF SwitchUser, Do
<1>2. CASE ReadCaller(t, "find")
  BY <1>1, <1>2, ReadCallerKeeps
<1>3. CASE Refuse(t)
  BY <1>3, RefuseKeeps
<1>4. ASSUME At(t, "decide"), NEW pc \in {"write", "commit"}, Look(t, To(t, pc))
      PROVE  BInv'
  BY <1>1, <1>4, OnAccountStands, LookToKeeps DEF At
<1>5. CASE At(t, "decide") /\ Spare(t, "write")
  BY <1>1, <1>5, SpareKeeps DEF At
<1>6. CASE At(t, "write") /\ Change(t, Version(Row(t), Updated(Own(t), [is |-> Becomes(t)])), To(t, "commit"))
  <2>1. PICK v : v = Updated(Own(t), [is |-> Becomes(t)])
    OBVIOUS
  <2>2. Own(t) \in AccountType /\ Moves(db[Row(t)], Own(t), job[t], Row(t)) /\ db[Row(t)] \in AccountType
    BY <1>1, SeenAccount DEF Own
  <2>3. /\ Becomes(t) \in {"Inactive", "Active", "Deleted"}
        /\ Becomes(t) = "Active" => job[t].do = "on"
        /\ job[t].do = "on" => Becomes(t) = "Active"
    BY <1>1 DEF Becomes, Do
  <2>4. /\ v \in AccountType /\ v.is = Becomes(t) /\ v.role = Own(t).role /\ v.guest = Own(t).guest
        /\ v.version = Own(t).version + 1
    BY <2>1, <2>2, <2>3, UpdatedStatus
  <2>5. Moves(db[Row(t)], v, job[t], Row(t))
    BY <1>1, <2>2, <2>3, <2>4, MovesOn DEF Row
  <2>6. v.role = db[Row(t)].role
    BY <1>1, <2>2, <2>4 DEF Moves
  <2>7. Stands(To(t, "commit"), job[t]) /\ ~Idle(To(t, "commit"), job[t])
    BY <1>1, OnAccountStands
  <2> QED
    BY <1>1, <1>6, <2>1, <2>4, <2>5, <2>6, <2>7, AccountKeeps DEF At
<1> QED
  BY <1>2, <1>3, <1>4, <1>5, <1>6 DEF SwitchUser

LEMMA AccountStepKeeps ==
    ASSUME BInv, NEW t \in Requests, AccountStep(t)
    PROVE  BInv'
BY FindTargetKeeps, LockTargetKeeps, FindOwnersKeeps, LockOwnerKeeps, AnotherOwnerKeeps, create_userKeeps, update_userKeeps,
   SwitchUserKeeps DEF AccountStep, switch_user_status, delete_user

-----------------------------------------------------------------------------
(* Roles, features and settings *)

\* A role with other grants and another name, or with another status.
LEMMA UpdatedRoleRow ==
    ASSUME NEW old \in RoleType, NEW G \in SUBSET Actions, NEW n \in Nat,
           NEW s \in {"None", "Active", "Inactive", "Deleted"}
    PROVE  /\ Updated(old, [grants |-> G, name |-> n]) \in RoleType /\ Updated(old, [is |-> s]) \in RoleType
           /\ [old EXCEPT !.is = "Deleted", !.grants = {}] \in RoleType
           /\ [is |-> "Active", grants |-> G, name |-> n, version |-> 0] \in RoleType
<1>1. PICK v, w : /\ v = Updated(old, [grants |-> G, name |-> n]) /\ Rewritten(v, old, [grants |-> G, name |-> n])
                  /\ w = Updated(old, [is |-> s]) /\ Rewritten(w, old, [is |-> s])
  BY UpdatedIs
<1>2. /\ DOMAIN old = {"is", "grants", "name", "version"}
      /\ DOMAIN [grants |-> G, name |-> n] = {"grants", "name"} /\ DOMAIN [is |-> s] = {"is"}
      /\ old.version \in Nat /\ old.grants \subseteq Actions /\ old.name \in Nat
      /\ old.is \in {"None", "Active", "Inactive", "Deleted"}
  BY DEF RoleType
<1>3. /\ v = [c \in DOMAIN v |-> v[c]] /\ DOMAIN v = DOMAIN old
      /\ v.is = old.is /\ v.grants = G /\ v.name = n /\ v.version = old.version + 1
  BY <1>1, <1>2 DEF Rewritten
<1>4. /\ w = [c \in DOMAIN w |-> w[c]] /\ DOMAIN w = DOMAIN old
      /\ w.is = s /\ w.grants = old.grants /\ w.name = old.name /\ w.version = old.version + 1
  BY <1>1, <1>2 DEF Rewritten
<1>5. v = [is |-> v.is, grants |-> v.grants, name |-> v.name, version |-> v.version]
  BY <1>2, <1>3
<1>6. w = [is |-> w.is, grants |-> w.grants, name |-> w.name, version |-> w.version]
  BY <1>2, <1>4
<1>7. v \in RoleType /\ w \in RoleType
  BY <1>2, <1>3, <1>4, <1>5, <1>6 DEF RoleType
<1>8. [old EXCEPT !.is = "Deleted", !.grants = {}] \in RoleType
  BY DEF RoleType
<1>9. [is |-> "Active", grants |-> G, name |-> n, version |-> 0] \in RoleType
  BY DEF RoleType
<1> QED
  BY <1>1, <1>7, <1>8, <1>9

\* A role as t sees it, and what t may write to it.
LEMMA SeenRole ==
    ASSUME BInv, NEW t \in Requests, NEW r \in Roles
    PROVE  View(t, r) \in RoleType /\ \A v \in RoleType : Fair(db, r, v, job[t])
<1>1. r \in Rows \ {ConfigVersion} /\ r \notin Accounts \cup Features \cup OneTimeCodes
  BY RowsAre, TablesDiffer DEF OwnRows
<1>2. View(t, r) \in RoleType
  BY <1>1, SeenFair, TypesAre DEF Fair
<1>3. \A v \in RoleType : Fair(db, r, v, job[t])
  BY <1>1, TypesAre DEF Fair
<1> QED
  BY <1>2, <1>3

\* A role is written, and config_version will be raised.
LEMMA RoleKeeps ==
    ASSUME BInv, NEW t \in Requests, NEW r \in Roles, NEW v \in RoleType, Change(t, Version(r, v), To(t, "bump")),
           tx[t].pc \notin {"bump", "commit", "done", "failed", "lock_group", "rewrite"}, job[t].do \in Raisers
    PROVE  BInv'
<1>1. Fair(db, r, v, job[t])
  BY SeenRole
<1>2. Pending(To(t, "bump"), job[t])
  BY ToIs DEF Pending
<1>3. Stands(To(t, "bump"), job[t]) /\ ~Idle(To(t, "bump"), job[t])
  BY BumpStands, ToIs DEF Idle, Raisers
<1> QED
  BY <1>1, <1>2, <1>3, ToIs, ChangeOneKeeps DEF Under

LEMMA LockRoleKeeps ==
    ASSUME BInv, NEW t \in Requests, LockRole(t)
    PROVE  BInv'
<1>1. tx[t].pc = "find" /\ Row(t) \in Roles /\ Change(t, Version(Row(t), db[Row(t)]), To(t, "decide"))
  BY DEF LockRole, At
<1>2. job[t].do \in {"edit", "off", "on", "delete"}
  BY <1>1, About DEF Knows, Stands
<1>3. To(t, "decide").pc = "decide"
  BY ToIs
<1>4. Stands(To(t, "decide"), job[t]) /\ ~Idle(To(t, "decide"), job[t])
  BY <1>2, <1>3 DEF Stands, Idle
<1>5. Row(t) \in Rows \ {ConfigVersion}
  BY <1>1, RowsAre, TablesDiffer
<1> QED
  BY <1>1, <1>4, <1>5, LockToKeeps

LEMMA create_roleKeeps ==
    ASSUME BInv, NEW t \in Requests, create_role(t)
    PROVE  BInv'
<1>1. job[t].do = "create" /\ Row(t) \in Roles
  BY DEF create_role, Asks, Do
<1>2. CASE ReadCaller(t, "plan")
  BY <1>2, ReadCallerKeeps
<1>3. CASE Refuse(t)
  BY <1>3, RefuseKeeps
<1>4. CASE At(t, "plan") /\ Look(t, To(t, "write"))
  <2>1. Stands(To(t, "write"), job[t])
    BY <1>1, PlainStands
  <2> QED
    BY <1>4, <2>1, LookToKeeps DEF At
<1>5. CASE /\ At(t, "write")
           /\ Change(t, Version(Row(t), [is |-> "Active", grants |-> Planned(t, {}), name |-> Sent(t).name, version |-> 0]),
                     To(t, "bump"))
  <2>1. Sent(t).grants \subseteq Actions /\ Sent(t).name \in Nat
    BY <1>1, About, TablesDiffer DEF Form, Row, Sent
  <2>2. PICK G, n : G = Planned(t, {}) /\ n = Sent(t).name
    OBVIOUS
  <2>3. G \in SUBSET Actions
    BY <2>1, <2>2 DEF Planned
  <2>4. [is |-> "Active", grants |-> G, name |-> n, version |-> 0] \in RoleType
    BY <2>1, <2>2, <2>3 DEF RoleType
  <2> QED
    BY <1>1, <1>5, <2>2, <2>4, RoleKeeps DEF At, Raisers
<1> QED
  BY <1>2, <1>3, <1>4, <1>5 DEF create_role

LEMMA update_roleKeeps ==
    ASSUME BInv, NEW t \in Requests, update_role(t)
    PROVE  BInv'
<1>1. job[t].do = "edit" /\ Row(t) \in Roles
  BY DEF update_role, Asks, Do
<1>2. CASE ReadCaller(t, "find")
  BY <1>1, <1>2, ReadCallerKeeps
<1>3. CASE Refuse(t)
  BY <1>3, RefuseKeeps
<1>4. ASSUME At(t, "decide"), NEW pc \in {"write", "commit"}, Look(t, To(t, pc))
      PROVE  BInv'
  BY <1>1, <1>4, OnAccountStands, LookToKeeps DEF At
<1>5. CASE /\ At(t, "write")
           /\ Change(t, Version(Row(t), Updated(Own(t), [grants |-> Planned(t, Own(t).grants), name |-> Sent(t).name])),
                     To(t, "bump"))
  <2>1. Sent(t).grants \subseteq Actions /\ Sent(t).name \in Nat
    BY <1>1, About, TablesDiffer DEF Form, Row, Sent
  <2>2. PICK G, n : G = Planned(t, Own(t).grants) /\ n = Sent(t).name
    OBVIOUS
  <2>3. Own(t) \in RoleType
    BY <1>1, SeenRole DEF Own
  <2>4. G \in SUBSET Actions
    BY <2>1, <2>2, <2>3 DEF Planned, RoleType
  <2>5. Updated(Own(t), [grants |-> G, name |-> n]) \in RoleType
    BY <2>1, <2>2, <2>3, <2>4, UpdatedRoleRow
  <2> QED
    BY <1>1, <1>5, <2>2, <2>5, RoleKeeps DEF At, Raisers
<1> QED
  BY <1>2, <1>3, <1>4, <1>5 DEF update_role

LEMMA switch_role_statusKeeps ==
    ASSUME BInv, NEW t \in Requests, switch_role_status(t)
    PROVE  BInv'
<1>1. job[t].do \in {"off", "on"} /\ Row(t) \in Roles
  BY DEF switch_role_status, Do
<1>2. CASE ReadCaller(t, "find")
  BY <1>1, <1>2, ReadCallerKeeps
<1>3. CASE Refuse(t)
  BY <1>3, RefuseKeeps
<1>4. ASSUME At(t, "decide"), NEW pc \in {"write", "commit"}, Look(t, To(t, pc))
      PROVE  BInv'
  BY <1>1, <1>4, OnAccountStands, LookToKeeps DEF At
<1>5. CASE At(t, "write") /\ Change(t, Version(Row(t), Updated(Own(t), [is |-> Becomes(t)])), To(t, "bump"))
  <2>1. Own(t) \in RoleType
    BY <1>1, SeenRole DEF Own
  <2>2. Becomes(t) \in {"None", "Active", "Inactive", "Deleted"} /\ {} \in SUBSET Actions /\ 0 \in Nat
    BY DEF Becomes
  <2>3. Updated(Own(t), [is |-> Becomes(t)]) \in RoleType
    BY <2>1, <2>2, UpdatedRoleRow
  <2> QED
    BY <1>1, <1>5, <2>3, RoleKeeps DEF At, Raisers
<1> QED
  BY <1>2, <1>3, <1>4, <1>5 DEF switch_role_status

LEMMA delete_roleKeeps ==
    ASSUME BInv, NEW t \in Requests, delete_role(t)
    PROVE  BInv'
<1>1. job[t].do = "delete" /\ Row(t) \in Roles
  BY DEF delete_role, Asks, Do
<1>2. CASE ReadCaller(t, "find")
  BY <1>1, <1>2, ReadCallerKeeps
<1>3. CASE Refuse(t)
  BY <1>3, RefuseKeeps
<1>4. CASE At(t, "decide") /\ Look(t, To(t, "write"))
  BY <1>1, <1>4, OnAccountStands, LookToKeeps DEF At
<1>5. CASE At(t, "write") /\ Change(t, Version(Row(t), [Own(t) EXCEPT !.is = "Deleted", !.grants = {}]), To(t, "bump"))
  <2>1. Own(t) \in RoleType
    BY <1>1, SeenRole DEF Own
  <2>2. PICK old, v : old = Own(t) /\ v = [old EXCEPT !.is = "Deleted", !.grants = {}]
    OBVIOUS
  <2>3. v \in RoleType
    BY <2>1, <2>2 DEF RoleType
  <2> QED
    BY <1>1, <1>5, <2>2, <2>3, RoleKeeps DEF At, Raisers
<1> QED
  BY <1>2, <1>3, <1>4, <1>5 DEF delete_role

LEMMA RoleStepKeeps ==
    ASSUME BInv, NEW t \in Requests, RoleStep(t)
    PROVE  BInv'
BY LockRoleKeeps, create_roleKeeps, update_roleKeeps, switch_role_statusKeeps, delete_roleKeeps DEF RoleStep

\* A feature with another state, another place or another label.
LEMMA UpdatedFeature ==
    ASSUME NEW old \in FeatureType, NEW new,
           \/ new \in [is : {"On", "Disabled", "Hidden"}]
           \/ new \in [position : Nat]
           \/ new \in [label : Nat]
    PROVE  /\ Updated(old, new) \in FeatureType
           /\ Updated(old, new).position = IF "position" \in DOMAIN new THEN new.position ELSE old.position
<1>1. PICK v : v = Updated(old, new) /\ Rewritten(v, old, new)
  BY UpdatedIs
<1>2. /\ DOMAIN old = {"is", "position", "label", "version"}
      /\ old.version \in Nat /\ old.is \in {"On", "Disabled", "Hidden"} /\ old.position \in Nat /\ old.label \in Nat
  BY DEF FeatureType
<1>3. /\ v = [c \in DOMAIN v |-> v[c]] /\ DOMAIN v = DOMAIN old /\ v.version = old.version + 1
      /\ v.is \in {"On", "Disabled", "Hidden"} /\ v.position \in Nat /\ v.label \in Nat
      /\ v.position = IF "position" \in DOMAIN new THEN new.position ELSE old.position
  <2>1. CASE new \in [is : {"On", "Disabled", "Hidden"}]
    BY <1>1, <1>2, <2>1 DEF Rewritten
  <2>2. CASE new \in [position : Nat]
    BY <1>1, <1>2, <2>2 DEF Rewritten
  <2>3. CASE new \in [label : Nat]
    BY <1>1, <1>2, <2>3 DEF Rewritten
  <2> QED
    BY <2>1, <2>2, <2>3
<1>4. v = [is |-> v.is, position |-> v.position, label |-> v.label, version |-> v.version]
  BY <1>2, <1>3
<1>5. v.version \in Nat
  BY <1>2, <1>3
<1>6. v \in FeatureType
  BY <1>3, <1>4, <1>5 DEF FeatureType
<1> QED
  BY <1>1, <1>3, <1>6

\* A feature as t sees it, and what t may write to it.
LEMMA SeenFeature ==
    ASSUME BInv, NEW t \in Requests, NEW f \in Features
    PROVE  /\ f \in Rows \ {ConfigVersion}
           /\ View(t, f) \in FeatureType /\ db[f] \in FeatureType
           /\ job[t].do # "reorder" => View(t, f).position = db[f].position
           /\ \A v \in FeatureType : job[t].do = "reorder" \/ v.position = db[f].position => Fair(db, f, v, job[t])
<1>1. f \in Rows \ {ConfigVersion} /\ f \notin Accounts \cup OneTimeCodes
  BY RowsAre, TablesDiffer
<1>2. Fair(db, f, View(t, f), job[t]) /\ Fits(f, db[f])
  BY <1>1, SeenFair, About
<1>3. View(t, f) \in FeatureType /\ db[f] \in FeatureType
  BY <1>2, TypesAre DEF Fair
<1>4. \A v \in FeatureType : job[t].do = "reorder" \/ v.position = db[f].position => Fair(db, f, v, job[t])
  BY <1>1, TypesAre DEF Fair
<1> QED
  BY <1>1, <1>2, <1>3, <1>4 DEF Fair

\* A row is written, and config_version will be raised if it changes.
LEMMA RaisingKeeps ==
    ASSUME BInv, NEW t \in Requests, NEW r, NEW v, NEW pc \in {"bump", "commit"}, Change(t, Version(r, v), To(t, pc)),
           Fair(db, r, v, job[t]), pc = "commit" => Clean(db, Version(r, v)),
           tx[t].pc \notin {"bump", "commit", "done", "failed", "lock_group", "rewrite"}, job[t].do \in Raisers
    PROVE  BInv'
<1>1. pc = "bump" => Pending(To(t, pc), job[t])
  BY ToIs DEF Pending
<1>2. Stands(To(t, pc), job[t]) /\ ~Idle(To(t, pc), job[t])
  BY BumpStands, CommitStands, ToIs DEF Idle, Raisers
<1>3. ~Pending(tx[t], job[t])
  BY DEF Pending
<1> QED
  BY <1>1, <1>2, <1>3, ToIs, ChangeOneKeeps DEF Under

LEMMA mark_action_sensitiveKeeps ==
    ASSUME BInv, NEW t \in Requests, mark_action_sensitive(t)
    PROVE  BInv'
<1>1. job[t].do = "mark" /\ Row(t) \in Actions /\ tx[t].pc = "begin" /\ Set(t, Sent(t))
  BY DEF mark_action_sensitive, Asks, Do, At
<1>2. PICK pc \in {"bump", "commit"} : Change(t, Version(Row(t), Sent(t)), To(t, pc))
  BY <1>1 DEF Set
<1>3. Row(t) \in Rows \ {ConfigVersion} /\ Row(t) \notin Accounts \cup Roles \cup Features \cup {Settings} \cup OneTimeCodes
  BY <1>1, RowsAre, TablesDiffer
<1>4. Sent(t) \in BOOLEAN
  BY <1>1, About DEF Form, Sent
<1>5. Fair(db, Row(t), Sent(t), job[t])
  BY <1>1, <1>3, <1>4, TypesAre DEF Fair
<1>6. Clean(db, Version(Row(t), Sent(t)))
  BY <1>3, CleanIs
<1> QED
  BY <1>1, <1>2, <1>5, <1>6, RaisingKeeps DEF Raisers

LEMMA switch_featureKeeps ==
    ASSUME BInv, NEW t \in Requests, switch_feature(t)
    PROVE  BInv'
<1>1. job[t].do = "switch" /\ Row(t) \in Features /\ tx[t].pc = "begin"
  BY DEF switch_feature, Asks, Do, At
<1>2. CASE Refuse(t)
  BY <1>2, RefuseKeeps
<1>3. CASE Set(t, IF db[Row(t)].is = Sent(t) THEN db[Row(t)] ELSE Updated(db[Row(t)], [is |-> Sent(t)]))
  <2>1. PICK v : v = IF db[Row(t)].is = Sent(t) THEN db[Row(t)] ELSE Updated(db[Row(t)], [is |-> Sent(t)])
    OBVIOUS
  <2>2. PICK pc \in {"bump", "commit"} : Change(t, Version(Row(t), v), To(t, pc)) /\ (pc = "commit" => v = db[Row(t)])
    BY <1>3, <2>1 DEF Set
  <2>3. db[Row(t)] \in FeatureType /\ Sent(t) \in {"On", "Disabled", "Hidden"}
    BY <1>1, SeenFeature, About DEF Form, Sent
  <2>4. v \in FeatureType /\ v.position = db[Row(t)].position
    <3>1. CASE db[Row(t)].is = Sent(t)
      BY <2>1, <2>3, <3>1
    <3>2. CASE db[Row(t)].is # Sent(t)
      <4>1. PICK new : new = [is |-> Sent(t)]
        OBVIOUS
      <4>2. new \in [is : {"On", "Disabled", "Hidden"}] /\ DOMAIN new = {"is"}
        BY <2>3, <4>1
      <4> QED
        BY <2>1, <2>3, <3>2, <4>1, <4>2, UpdatedFeature
    <3> QED
      BY <3>1, <3>2
  <2>5. Fair(db, Row(t), v, job[t])
    BY <1>1, <2>4, SeenFeature
  <2>6. pc = "commit" => Clean(db, Version(Row(t), v))
    BY <1>1, <2>2, CleanIs, TablesDiffer
  <2> QED
    BY <1>1, <2>2, <2>5, <2>6, RaisingKeeps DEF Raisers
<1> QED
  BY <1>2, <1>3 DEF switch_feature

LEMMA update_feature_detailsKeeps ==
    ASSUME BInv, NEW t \in Requests, update_feature_details(t)
    PROVE  BInv'
<1>1. /\ job[t].do = "save" /\ Row(t) \in Features /\ tx[t].pc = "check"
      /\ Save(t, << >>, IF Untouched(t) THEN "commit" ELSE "bump")
  BY DEF update_feature_details, Asks, Do, At
<1>9. PICK new, v, pc : /\ new = << >> ++ Sent(t)
                        /\ v = IF Untouched(t) THEN Own(t) ELSE Updated(Own(t), new)
                        /\ pc = IF Untouched(t) THEN "commit" ELSE "bump"
  OBVIOUS
<1>10. Change(t, Version(Row(t), v), To(t, pc))
  BY <1>1, <1>9 DEF Save
<1>2. /\ new = << >> ++ Sent(t)
      /\ v = IF Untouched(t) THEN Own(t) ELSE Updated(Own(t), new)
      /\ pc \in {"bump", "commit"}
      /\ Change(t, Version(Row(t), v), To(t, pc))
      /\ pc = "commit" => Untouched(t)
  BY <1>9, <1>10
<1>3. Sent(t) \in [label : Nat]
  BY <1>1, About DEF Form, Sent
<1>4. new \in [label : Nat]
  <2>1. Newest(new, << >>, Sent(t))
    BY <1>2, NewestCounts
  <2>2. DOMAIN << >> = {}
    OBVIOUS
  <2>3. DOMAIN Sent(t) = {"label"} /\ Sent(t).label \in Nat
    BY <1>3
  <2>4. new = [c \in {"label"} |-> new[c]] /\ new.label \in Nat
    BY <2>1, <2>2, <2>3 DEF Newest
  <2> QED
    BY <2>4
<1>5. Own(t) \in FeatureType /\ Own(t).position = db[Row(t)].position
  BY <1>1, SeenFeature DEF Own
<1>6. v \in FeatureType /\ v.position = db[Row(t)].position
  <2>1. DOMAIN new = {"label"}
    BY <1>4
  <2>2. Updated(Own(t), new) \in FeatureType /\ Updated(Own(t), new).position = Own(t).position
    BY <1>4, <1>5, <2>1, UpdatedFeature
  <2> QED
    BY <1>2, <1>5, <2>2
<1>7. Fair(db, Row(t), v, job[t])
  BY <1>1, <1>6, SeenFeature
<1>8. pc = "commit" => Clean(db, Version(Row(t), v))
  <2>1. ~Pending(tx[t], job[t])
    BY <1>1 DEF Pending
  <2> QED
    BY <1>1, <1>2, <2>1, SeenClean, SeenFeature DEF Own
<1> QED
  BY <1>1, <1>2, <1>7, <1>8, RaisingKeeps DEF Raisers

\* What a request that arranges the menu sends.
LEMMA ArrangedIs ==
    ASSUME BInv, NEW t \in Requests, job[t].do = "reorder"
    PROVE  /\ Sent(t) = job[t].to /\ 1 \in DOMAIN Sent(t) /\ DOMAIN Sent(t) = 1 .. Len(Sent(t)) /\ Len(Sent(t)) \in Nat
           /\ \A i \in DOMAIN Sent(t) : /\ Sent(t)[i].order \in Seq(Features) /\ Sent(t)[i].module \in Features \cup {Nothing}
                                        /\ \A k \in DOMAIN Sent(t)[i].order : Sent(t)[i].order[k] \in Features /\ k \in Nat
<1>1. PICK q : q = Sent(t)
  OBVIOUS
<1>2. q # << >> /\ q \in Seq([module : Features \cup {Nothing}, order : Seq(Features)]) /\ q = job[t].to
  BY <1>1, About DEF Form, Sent
<1>3. Len(q) \in Nat /\ DOMAIN q = 1 .. Len(q) /\ 1 \in DOMAIN q
  BY <1>2
<1>4. ASSUME NEW i \in DOMAIN q
      PROVE  /\ q[i].order \in Seq(Features) /\ q[i].module \in Features \cup {Nothing}
             /\ \A k \in DOMAIN q[i].order : q[i].order[k] \in Features /\ k \in Nat
  <2>5. PICK Groups : Groups = [module : Features \cup {Nothing}, order : Seq(Features)]
    OBVIOUS
  <2>6. q \in Seq(Groups)
    BY <1>2, <2>5
  <2>7. q[i] \in Groups
    BY <1>4, <2>6
  <2>1. q[i] \in [module : Features \cup {Nothing}, order : Seq(Features)]
    BY <2>5, <2>7
  <2>2. PICK s : s = q[i].order
    OBVIOUS
  <2>3. s \in Seq(Features)
    BY <2>1, <2>2
  <2>4. \A k \in DOMAIN s : s[k] \in Features /\ k \in Nat
    BY <2>3
  <2> QED
    BY <2>1, <2>2, <2>4
<1> QED
  BY <1>1, <1>2, <1>3, <1>4

LEMMA StartGroupIs ==
    ASSUME BInv, NEW t \in Requests, NEW group, NEW changed, StartGroup(t, group, changed)
    PROVE  \E next : /\ Look(t, next) /\ IsTx(next)
                     /\ next.pc = "lock_group" /\ next.mine = tx[t].mine /\ next.seen = [group |-> group, changed |-> changed]
                     /\ next.fit = ByPosition(t, Group(Sent(t)[group].module))
<1>1. PICK fit, seen, next :
        /\ fit = ByPosition(t, Group(Sent(t)[group].module)) /\ seen = [group |-> group, changed |-> changed]
        /\ next = [To(t, "lock_group") EXCEPT !.fit = fit, !.seen = seen] /\ Look(t, next)
  BY DEF StartGroup
<1>2. PICK x : x = To(t, "lock_group")
  OBVIOUS
<1>3. x.pc = "lock_group" /\ x.mine = tx[t].mine /\ IsTx(x)
  BY <1>2, ToIs
<1>4. DOMAIN x = {"pc", "mine", "todo", "fit", "seen"}
  BY <1>3 DEF IsTx
<1>5. next = [x EXCEPT !.fit = fit, !.seen = seen]
  BY <1>1, <1>2
<1>6. next = [pc |-> x.pc, mine |-> x.mine, todo |-> x.todo, fit |-> fit, seen |-> seen]
  BY <1>4, <1>5
<1>7. next.pc = "lock_group" /\ next.mine = tx[t].mine /\ next.seen = seen /\ next.fit = fit /\ IsTx(next)
  BY <1>3, <1>6 DEF IsTx
<1> QED
  BY <1>1, <1>7

LEMMA StartGroupKeeps ==
    ASSUME BInv, NEW t \in Requests, NEW group, NEW changed, StartGroup(t, group, changed), job[t].do = "reorder",
           group \in DOMAIN Sent(t),
           tx[t].pc = "begin" \/ (tx[t].pc = "rewrite" /\ changed = tx[t].seen.changed)
    PROVE  BInv'
<1>1. PICK next : /\ Look(t, next) /\ IsTx(next)
                  /\ next.pc = "lock_group" /\ next.mine = tx[t].mine /\ next.seen = [group |-> group, changed |-> changed]
  BY StartGroupIs
<1>2. Stands(next, job[t]) /\ ~Idle(next, job[t])
  BY <1>1 DEF Stands, Idle, Sent
<1>3. Pending(tx[t], job[t]) => Pending(next, job[t])
  BY <1>1 DEF Pending
<1> QED
  BY <1>1, <1>2, <1>3, LookKeeps DEF Under

LEMMA LockFeatureIs ==
    ASSUME BInv, NEW t \in Requests, LockFeature(t)
    PROVE  \E f \in Features : \E next :
            /\ Leads(t, f) /\ Change(t, Version(f, View(t, f)), next) /\ IsTx(next)
            /\ next.pc = "lock_group" /\ next.mine = tx[t].mine /\ next.seen = tx[t].seen /\ next.todo = tx[t].todo
            /\ next.fit = {p \in tx[t].fit : p[2] # f}
<1>1. tx[t].pc = "lock_group"
  BY DEF LockFeature, At
<1>2. PICK f \in Features : Leads(t, f) /\ Change(t, Version(f, View(t, f)), [tx[t] EXCEPT !.fit = {p \in @ : p[2] # f}])
  BY DEF LockFeature
<1>3. PICK x : x = tx[t]
  OBVIOUS
<1>4. IsTx(x)
  BY <1>3, About
<1>5. DOMAIN x = {"pc", "mine", "todo", "fit", "seen"}
  BY <1>4 DEF IsTx
<1>6. PICK next, fit : next = [x EXCEPT !.fit = {p \in @ : p[2] # f}] /\ fit = {p \in x.fit : p[2] # f}
  OBVIOUS
<1>7. next = [x EXCEPT !.fit = fit]
  BY <1>5, <1>6
<1>8. next = [pc |-> x.pc, mine |-> x.mine, todo |-> x.todo, fit |-> fit, seen |-> x.seen]
  BY <1>5, <1>7
<1>9. next.pc = x.pc /\ next.mine = x.mine /\ next.seen = x.seen /\ next.todo = x.todo /\ next.fit = fit /\ IsTx(next)
  BY <1>8 DEF IsTx
<1> QED
  BY <1>1, <1>2, <1>3, <1>6, <1>9

LEMMA LockFeatureKeeps ==
    ASSUME BInv, NEW t \in Requests, LockFeature(t), job[t].do = "reorder"
    PROVE  BInv'
<1>0. PICK f \in Features : \E next :
            /\ Change(t, Version(f, View(t, f)), next) /\ IsTx(next)
            /\ next.pc = "lock_group" /\ next.mine = tx[t].mine /\ next.seen = tx[t].seen
  BY LockFeatureIs
<1>1. PICK next :
            /\ Change(t, Version(f, View(t, f)), next) /\ IsTx(next)
            /\ next.pc = "lock_group" /\ next.mine = tx[t].mine /\ next.seen = tx[t].seen
  BY <1>0
<1>2. tx[t].pc = "lock_group"
  BY DEF LockFeature, At
<1>3. Stands(next, job[t]) /\ ~Idle(next, job[t])
  BY <1>1, <1>2, About DEF Knows, Stands, Idle
<1>4. Pending(tx[t], job[t]) => Pending(next, job[t])
  BY <1>1, <1>2 DEF Pending
<1>5. f \in Rows \ {ConfigVersion}
  BY SeenFeature
<1> QED
  BY <1>1, <1>2, <1>3, <1>4, <1>5, LockSeenKeeps DEF Under

LEMMA CompareIs ==
    ASSUME BInv, NEW t \in Requests, Compare(t), ~Refuse(t)
    PROVE  \E next :
            /\ Look(t, next) /\ IsTx(next)
            /\ next.pc = "rewrite" /\ next.mine = tx[t].mine /\ next.seen = tx[t].seen
            /\ next.todo = {i \in DOMAIN Arranging(t).order : View(t, Arranging(t).order[i]).position # 10 * i}
            /\ ToSet(Arranging(t).order) = Group(Arranging(t).module)
            /\ Len(Arranging(t).order) = Cardinality(Group(Arranging(t).module))
<1>1. /\ ToSet(Arranging(t).order) = Group(Arranging(t).module)
      /\ Len(Arranging(t).order) = Cardinality(Group(Arranging(t).module))
      /\ Look(t, [To(t, "rewrite") EXCEPT
                    !.todo = {i \in DOMAIN Arranging(t).order : View(t, Arranging(t).order[i]).position # 10 * i}])
  BY DEF Compare
<1>2. PICK todo, x, next :
        /\ todo = {i \in DOMAIN Arranging(t).order : View(t, Arranging(t).order[i]).position # 10 * i}
        /\ x = To(t, "rewrite") /\ next = [x EXCEPT !.todo = todo]
  OBVIOUS
<1>3. x.pc = "rewrite" /\ x.mine = tx[t].mine /\ x.seen = tx[t].seen /\ IsTx(x)
  BY <1>2, ToIs
<1>4. next = [x EXCEPT !.todo = todo]
  BY <1>2
<1>5. next.pc = x.pc /\ next.mine = x.mine /\ next.seen = x.seen /\ next.todo = todo /\ IsTx(next)
  BY <1>3, <1>4, WithTodo
<1> QED
  BY <1>1, <1>2, <1>3, <1>5

LEMMA CompareKeeps ==
    ASSUME BInv, NEW t \in Requests, Compare(t), job[t].do = "reorder"
    PROVE  BInv'
<1>1. CASE Refuse(t)
  BY <1>1, RefuseKeeps
<1>2. CASE ~Refuse(t)
  <2>1. PICK next :
            /\ Look(t, next) /\ IsTx(next)
            /\ next.pc = "rewrite" /\ next.mine = tx[t].mine /\ next.seen = tx[t].seen
            /\ next.todo = {i \in DOMAIN Arranging(t).order : View(t, Arranging(t).order[i]).position # 10 * i}
    BY <1>2, CompareIs
  <2>2. tx[t].pc = "lock_group"
    BY DEF Compare, At
  <2>3. next.todo \subseteq DOMAIN job[t].to[tx[t].seen.group].order
    BY <2>1 DEF Arranging, Sent
  <2>4. Stands(next, job[t]) /\ ~Idle(next, job[t])
    BY <2>1, <2>2, <2>3, About DEF Knows, Stands, Idle
  <2>5. Pending(tx[t], job[t]) => Pending(next, job[t])
    BY <2>1, <2>2 DEF Pending
  <2> QED
    BY <2>1, <2>2, <2>4, <2>5, LookKeeps DEF Under
<1> QED
  BY <1>1, <1>2

LEMMA RewriteIs ==
    ASSUME BInv, NEW t \in Requests, Rewrite(t), job[t].do = "reorder"
    PROVE  \E i \in tx[t].todo, f \in Features, v \in FeatureType : \E next :
            /\ i \in DOMAIN Arranging(t).order /\ f = Arranging(t).order[i] /\ i \in Nat /\ v.position = 10 * i
            /\ Change(t, Version(f, v), next) /\ IsTx(next)
            /\ next.pc = "rewrite" /\ next.mine = tx[t].mine /\ next.todo = tx[t].todo \ {i}
            /\ next.seen = [group |-> tx[t].seen.group, changed |-> TRUE]
<1>1. tx[t].pc = "rewrite"
  BY DEF Rewrite, At
<1>2. /\ tx[t].todo \subseteq DOMAIN Arranging(t).order /\ tx[t].seen.group \in DOMAIN Sent(t)
      /\ tx[t].seen = [group |-> tx[t].seen.group, changed |-> tx[t].seen.changed]
  BY <1>1, About DEF Knows, Stands, Arranging, Sent
<1>3. PICK i \in tx[t].todo :
        Change(t, Version(Arranging(t).order[i], Updated(View(t, Arranging(t).order[i]), [position |-> 10 * i])),
               [tx[t] EXCEPT !.todo = @ \ {i}, !.seen.changed = TRUE])
  BY DEF Rewrite
<1>4. PICK f, new, v : /\ f = Arranging(t).order[i] /\ new = [position |-> 10 * i]
                       /\ v = Updated(View(t, f), new)
  OBVIOUS
<1>5. f \in Features /\ i \in Nat
  BY <1>2, <1>4, ArrangedIs DEF Arranging
<1>6. v \in FeatureType /\ v.position = 10 * i
  <2>1. new \in [position : Nat] /\ DOMAIN new = {"position"} /\ new.position = 10 * i
    BY <1>4, <1>5
  <2> QED
    BY <1>4, <1>5, <2>1, SeenFeature, UpdatedFeature
<1>7. PICK x : x = tx[t]
  OBVIOUS
<1>8. DOMAIN x = {"pc", "mine", "todo", "fit", "seen"}
  BY <1>7, About DEF IsTx
<1>9. PICK next : next = [x EXCEPT !.todo = @ \ {i}, !.seen.changed = TRUE]
  OBVIOUS
<1>10. x.seen = [group |-> x.seen.group, changed |-> x.seen.changed]
  BY <1>2, <1>7
<1>11. next = [pc |-> x.pc, mine |-> x.mine, todo |-> x.todo \ {i}, fit |-> x.fit,
               seen |-> [group |-> x.seen.group, changed |-> TRUE]]
  BY <1>8, <1>9, <1>10
<1>12. /\ next.pc = x.pc /\ next.mine = x.mine /\ next.todo = x.todo \ {i}
       /\ next.seen = [group |-> x.seen.group, changed |-> TRUE] /\ IsTx(next)
  BY <1>11 DEF IsTx
<1>13. Change(t, Version(f, v), next)
  BY <1>3, <1>4, <1>7, <1>9
<1>14. i \in DOMAIN Arranging(t).order
  BY <1>2
<1> QED
  BY <1>1, <1>4, <1>5, <1>6, <1>7, <1>12, <1>13, <1>14

LEMMA RewriteKeeps ==
    ASSUME BInv, NEW t \in Requests, Rewrite(t), job[t].do = "reorder"
    PROVE  BInv'
<1>0. PICK i \in tx[t].todo, f \in Features, v \in FeatureType : \E next :
            /\ Change(t, Version(f, v), next) /\ IsTx(next)
            /\ next.pc = "rewrite" /\ next.mine = tx[t].mine /\ next.todo = tx[t].todo \ {i}
            /\ next.seen = [group |-> tx[t].seen.group, changed |-> TRUE]
  BY RewriteIs
<1>1. PICK next :
            /\ Change(t, Version(f, v), next) /\ IsTx(next)
            /\ next.pc = "rewrite" /\ next.mine = tx[t].mine /\ next.todo = tx[t].todo \ {i}
            /\ next.seen = [group |-> tx[t].seen.group, changed |-> TRUE]
  BY <1>0
<1>2. tx[t].pc = "rewrite"
  BY DEF Rewrite, At
<1>3. Fair(db, f, v, job[t])
  BY SeenFeature
<1>4. Pending(next, job[t])
  BY <1>1 DEF Pending
<1>6. tx[t].seen.group \in DOMAIN job[t].to /\ tx[t].todo \subseteq DOMAIN job[t].to[tx[t].seen.group].order
  BY <1>2, About DEF Knows, Stands
<1>7. next.seen.group = tx[t].seen.group /\ next.seen = [group |-> next.seen.group, changed |-> next.seen.changed]
  BY <1>1
<1>8. next.todo \subseteq DOMAIN job[t].to[next.seen.group].order
  BY <1>1, <1>6, <1>7
<1>5. Stands(next, job[t]) /\ ~Idle(next, job[t])
  BY <1>1, <1>6, <1>7, <1>8 DEF Stands, Idle
<1> QED
  BY <1>1, <1>2, <1>3, <1>4, <1>5, ChangeOneKeeps DEF Under

LEMMA reorder_featuresKeeps ==
    ASSUME BInv, NEW t \in Requests, reorder_features(t)
    PROVE  BInv'
<1>1. job[t].do = "reorder"
  BY DEF reorder_features, Asks, Do
<1>2. CASE At(t, "begin") /\ StartGroup(t, 1, FALSE)
  BY <1>1, <1>2, ArrangedIs, StartGroupKeeps DEF At
<1>3. CASE LockFeature(t)
  BY <1>1, <1>3, LockFeatureKeeps
<1>4. CASE Compare(t)
  BY <1>1, <1>4, CompareKeeps
<1>5. CASE Rewrite(t)
  BY <1>1, <1>5, RewriteKeeps
<1>6. CASE /\ At(t, "rewrite") /\ tx[t].seen.group < Len(Sent(t))
           /\ StartGroup(t, tx[t].seen.group + 1, tx[t].seen.changed)
  <2>1. tx[t].seen.group \in DOMAIN Sent(t)
    BY <1>1, <1>6, About DEF Knows, Stands, At, Sent
  <2>2. tx[t].seen.group + 1 \in DOMAIN Sent(t)
    BY <1>1, <1>6, <2>1, ArrangedIs
  <2> QED
    BY <1>1, <1>6, <2>2, StartGroupKeeps DEF At
<1>7. CASE At(t, "rewrite") /\ Look(t, To(t, IF tx[t].seen.changed THEN "bump" ELSE "commit"))
  <2>1. PICK pc \in {"bump", "commit"} : Look(t, To(t, pc)) /\ (tx[t].seen.changed => pc = "bump")
    BY <1>7
  <2>2. Stands(To(t, pc), job[t]) /\ ~Idle(To(t, pc), job[t])
    BY <1>1, BumpStands, CommitStands, ToIs DEF Idle, Raisers
  <2>3. Pending(tx[t], job[t]) => Pending(To(t, pc), job[t])
    BY <1>7, <2>1, ToIs DEF Pending, At
  <2> QED
    BY <1>7, <2>1, <2>2, <2>3, ToIs, LookKeeps DEF Under, At
<1> QED
  BY <1>2, <1>3, <1>4, <1>5, <1>6, <1>7 DEF reorder_features

LEMMA SaveColumnsKeeps ==
    ASSUME BInv, NEW t \in Requests, NEW columns \in {"business", "delivery"}, SaveColumns(t, columns)
    PROVE  BInv'
<1>1. job[t].do = columns /\ Row(t) = Settings
  BY DEF SaveColumns, Do
<1>2. CASE Refuse(t)
  BY <1>2, RefuseKeeps
<1>3. CASE At(t, "begin") /\ Look(t, [To(t, "form") EXCEPT !.seen = db[Settings][columns]])
  <2>1. PICK next : next = [To(t, "form") EXCEPT !.seen = db[Settings][columns]]
    OBVIOUS
  <2>2. next.mine = tx[t].mine /\ next.pc = "form" /\ IsTx(next)
    BY <2>1, ToIs, WithSeen
  <2>3. Stands(next, job[t])
    BY <2>2 DEF Stands
  <2> QED
    BY <1>3, <2>1, <2>2, <2>3, LookOnKeeps DEF At, Idle
<1>4. CASE At(t, "form") /\ Change(t, Version(Settings, [db[Settings] EXCEPT ![columns] = Sent(t)]), To(t, "bump"))
  <2>1. PICK old, v : old = db[Settings] /\ v = [old EXCEPT ![columns] = Sent(t)]
    OBVIOUS
  <2>2. old \in [business : Nat, delivery : Nat] /\ Sent(t) \in Nat
    BY <1>1, <2>1, About, RowsAre, TypesAre DEF Form, Sent
  <2>3. v \in [business : Nat, delivery : Nat]
    BY <2>1, <2>2
  <2>4. Fair(db, Settings, v, job[t])
    BY <2>3, RowsAre, TablesDiffer, TypesAre DEF Fair
  <2>5. job[t].do \in Raisers
    BY <1>1 DEF Raisers
  <2> QED
    BY <1>4, <2>1, <2>4, <2>5, RaisingKeeps DEF At
<1> QED
  BY <1>2, <1>3, <1>4 DEF SaveColumns

LEMMA AdminStepKeeps ==
    ASSUME BInv, NEW t \in Requests, AdminStep(t)
    PROVE  BInv'
<1>1. CASE update_settings(t) \/ update_delivery_charges(t)
  BY <1>1, SaveColumnsKeeps DEF update_settings, update_delivery_charges
<1>2. CASE FeatureActs(t)
  BY <1>2, mark_action_sensitiveKeeps, switch_featureKeeps, update_feature_detailsKeeps, reorder_featuresKeeps DEF FeatureActs
<1> QED
  BY <1>1, <1>2, OpenPageKeeps, BumpKeeps, AccountStepKeeps, RoleStepKeeps DEF AdminStep

-----------------------------------------------------------------------------
(* One's own account *)

LEMMA LeaveKeeps ==
    ASSUME BInv, NEW t \in Requests, NEW pc, Leave(t, pc), pc \in {"done", "failed"} \/ (pc = "wrong" /\ job[t].do # "reset")
    PROVE  BInv'
BY BlankKnows, LeaveIs, MovedKeeps

\* A request that has nothing locked knows only where it stands.
LEMMA EmptyKnows ==
    ASSUME NEW rows, NEW x, NEW j, IsTx(x), DOMAIN x.mine = {}, x.pc # "commit", Stands(x, j)
    PROVE  Knows(rows, x, j)
<1>1. Clean(rows, x.mine)
  BY DEF Clean
<1> QED
  BY <1>1 DEF Knows

\* A statement of no transaction that writes one row.
LEMMA OnceOneKeeps ==
    ASSUME BInv, NEW t \in Requests, NEW r \in Rows, NEW v, NEW next, Once(t, Version(r, v), next),
           DOMAIN next.mine = {}, DOMAIN tx[t].mine = {}, Fits(r, v), IsTx(next), next.pc # "commit", Stands(next, job[t])
    PROVE  BInv'
<1>1. PICK new : new = Version(r, v)
  OBVIOUS
<1>2. DOMAIN new = {r} /\ new[r] = v
  BY <1>1, OneVersion
<1>3. Knows(db', next, job[t])
  BY EmptyKnows
<1> QED
  BY <1>1, <1>2, <1>3, OnceKeeps

LEMMA check_rate_limitKeeps ==
    ASSUME BInv, NEW t \in Requests, NEW bucket \in Buckets, NEW pc \in {"own_row", "current", "user", "newest", "visits"},
           check_rate_limit(t, bucket, pc)
    PROVE  BInv'
<1>1. CASE Leave(t, "failed")
  BY <1>1, LeaveKeeps
<1>2. CASE At(t, "begin") /\ Look(t, To(t, "record"))
  <2>1. Stands(To(t, "record"), job[t])
    BY PlainStands
  <2> QED
    BY <1>2, <2>1, LookToKeeps DEF At, Idle
<1>3. CASE At(t, "record") /\ Once(t, Version(Throttle[bucket], db[Throttle[bucket]] + 1), To(t, pc))
  <2>1. DOMAIN tx[t].mine = {}
    BY <1>3, About DEF Knows, Idle, At
  <2>2. Throttle[bucket] \in Rows /\ db[Throttle[bucket]] \in Nat
    BY RowsAre, About, TypesAre
  <2>3. PICK r, n : r = Throttle[bucket] /\ n = db[r] + 1
    OBVIOUS
  <2>4. n \in Nat
    BY <2>2, <2>3
  <2>5. Fits(r, n)
    BY <2>3, <2>4, TypesAre
  <2>6. Stands(To(t, pc), job[t])
    BY PlainStands
  <2> QED
    BY <1>3, <2>1, <2>2, <2>3, <2>5, <2>6, ToIs, OnceOneKeeps
<1> QED
  BY <1>1, <1>2, <1>3 DEF check_rate_limit

LEMMA update_profile_infoKeeps ==
    ASSUME BInv, NEW t \in Requests, update_profile_info(t)
    PROVE  BInv'
<1>1. job[t].do = "profile" /\ Row(t) \in Accounts /\ tx[t].pc = "begin"
  BY DEF update_profile_info, Asks, Do, At
<1>2. CASE Refuse(t)
  BY <1>2, RefuseKeeps
<1>3. CASE Own(t).is = "Active" /\ Change(t, Version(Row(t), Updated(Own(t), [is |-> "Active"])), To(t, "commit"))
  <2>1. PICK v : v = Updated(Own(t), [is |-> "Active"])
    OBVIOUS
  <2>2. Own(t) \in AccountType /\ Moves(db[Row(t)], Own(t), job[t], Row(t)) /\ db[Row(t)] \in AccountType
    BY <1>1, SeenAccount DEF Own
  <2>3. v \in AccountType /\ v.is = "Active" /\ v.role = Own(t).role /\ v.guest = Own(t).guest /\ v.version = Own(t).version + 1
    BY <2>1, <2>2, UpdatedStatus
  <2>4. Moves(db[Row(t)], v, job[t], Row(t))
    BY <1>1, <1>3, <2>2, <2>3, MovesOn
  <2>5. v.role = db[Row(t)].role
    BY <1>1, <2>2, <2>3 DEF Moves
  <2>6. Stands(To(t, "commit"), job[t]) /\ ~Idle(To(t, "commit"), job[t])
    BY <1>1, CommitStands, ToIs DEF Idle
  <2> QED
    BY <1>1, <1>3, <2>1, <2>3, <2>4, <2>5, <2>6, AccountKeeps
<1> QED
  BY <1>2, <1>3 DEF update_profile_info, Press

LEMMA set_first_passwordKeeps ==
    ASSUME BInv, NEW t \in Requests, set_first_password(t)
    PROVE  BInv'
<1>1. job[t].do = "first" /\ Row(t) \in Accounts /\ Sent(t).password \in Nat
  BY About DEF set_first_password, Do, Form, Row, Sent
<1>2. CASE Refuse(t)
  BY <1>2, RefuseKeeps
<1>3. CASE check_rate_limit(t, "first", "own_row")
  BY <1>3, check_rate_limitKeeps DEF Buckets
<1>4. CASE At(t, "own_row") /\ Change(t, Version(Row(t), Updated(Own(t), [must |-> FALSE, password |-> Sent(t).password])), To(t, "commit"))
  <2>1. PICK v : v = Updated(Own(t), [must |-> FALSE, password |-> Sent(t).password])
    OBVIOUS
  <2>2. Own(t) \in AccountType /\ Moves(db[Row(t)], Own(t), job[t], Row(t)) /\ db[Row(t)] \in AccountType
    BY <1>1, SeenAccount DEF Own
  <2>3. v \in AccountType /\ v.is = Own(t).is /\ v.role = Own(t).role /\ v.guest = Own(t).guest /\ v.version = Own(t).version + 1
    BY <1>1, <2>1, <2>2, UpdatedPassword
  <2>4. Moves(db[Row(t)], v, job[t], Row(t))
    BY <1>1, <2>2, <2>3, MovesOn
  <2>5. v.role = db[Row(t)].role
    BY <1>1, <2>2, <2>3 DEF Moves
  <2>6. Stands(To(t, "commit"), job[t]) /\ ~Idle(To(t, "commit"), job[t])
    BY <1>1, CommitStands, ToIs DEF Idle
  <2> QED
    BY <1>1, <1>4, <2>1, <2>3, <2>4, <2>5, <2>6, AccountKeeps DEF At
<1> QED
  BY <1>2, <1>3, <1>4 DEF set_first_password

\* A code as t sees it, and as it may be written.
LEMMA SeenCode ==
    ASSUME BInv, NEW t \in Requests, NEW c \in OneTimeCodes
    PROVE  /\ c \in Rows \ {ConfigVersion} /\ c \notin Accounts \cup Roles \cup Features \cup {Settings}
           /\ db[c] \in CodeType /\ View(t, c) \in CodeType
           /\ \A v \in CodeType : Fits(c, v) /\ (v.is = "Inactive" => Fair(db, c, v, job[t]))
<1>1. c \in Rows \ {ConfigVersion} /\ c \notin Accounts \cup Roles \cup Features \cup {Settings}
  BY RowsAre, TablesDiffer
<1>2. Fair(db, c, View(t, c), job[t]) /\ Fits(c, db[c])
  BY <1>1, SeenFair, About
<1>3. \A v \in CodeType : Fits(c, v) /\ (v.is = "Inactive" => Fair(db, c, v, job[t]))
  BY <1>1, TypesAre DEF Fair
<1> QED
  BY <1>1, <1>2, <1>3, TypesAre DEF Fair

LEMMA save_generated_otpKeeps ==
    ASSUME BInv, NEW t \in Requests, save_generated_otp(t), job[t].do \in {"send", "forgot"}
    PROVE  BInv'
<1>1. DOMAIN tx[t].mine = {}
  BY About DEF Knows, Idle
<1>2. CASE At(t, "spend_all") /\ Once(t, [c \in Live(t, Row(t)) |-> [db[c] EXCEPT !.is = "Inactive"]], To(t, "store"))
  <2>1. PICK new : new = [c \in Live(t, Row(t)) |-> [db[c] EXCEPT !.is = "Inactive"]]
    OBVIOUS
  <2>2. DOMAIN new \subseteq OneTimeCodes /\ \A c \in DOMAIN new : new[c] = [db[c] EXCEPT !.is = "Inactive"]
    BY <2>1 DEF Live
  <2>3. \A c \in DOMAIN new : new[c] \in CodeType
    <3>1. \A c \in OneTimeCodes : db[c] \in CodeType
      BY SeenCode
    <3> QED
      BY <2>2, <3>1 DEF CodeType
  <2>4. DOMAIN new \subseteq Rows /\ \A c \in DOMAIN new : Fits(c, new[c])
    BY <2>2, <2>3, SeenCode
  <2>5. Stands(To(t, "store"), job[t])
    BY PlainStands
  <2>6. Knows(db', To(t, "store"), job[t])
    BY <1>1, <2>5, ToIs, EmptyKnows
  <2> QED
    BY <1>1, <1>2, <2>1, <2>4, <2>6, ToIs, OnceKeeps
<1>3. CASE /\ At(t, "store")
           /\ Once(t, Version(Sent(t).code, [is |-> "Active", of |-> Row(t), at |-> Cardinality(Sent_(Row(t))),
                                             live |-> TRUE, tries |-> 0]), Blank("done"))
  <2>1. Sent(t).code \in OneTimeCodes /\ Row(t) \in Accounts
    BY About DEF Form, Row, Sent
  <2>2. PICK n : n = Cardinality(Sent_(Row(t)))
    OBVIOUS
  <2>3. n \in Nat
    <3>1. Sent_(Row(t)) \subseteq OneTimeCodes /\ IsFiniteSet(OneTimeCodes)
      BY OwnAccountAssumption DEF Sent_
    <3> QED
      BY <2>2, <3>1, FS_Subset, FS_CardinalityType
  <2>4. [is |-> "Active", of |-> Row(t), at |-> n, live |-> TRUE, tries |-> 0] \in CodeType
    BY <2>1, <2>3 DEF CodeType
  <2>5. Fits(Sent(t).code, [is |-> "Active", of |-> Row(t), at |-> n, live |-> TRUE, tries |-> 0])
    BY <2>1, <2>4, TypesAre
  <2>6. Stands(Blank("done"), job[t])
    BY BlankIs DEF Stands
  <2> QED
    BY <1>1, <1>3, <2>1, <2>2, <2>5, <2>6, RowsAre, BlankIs, OnceOneKeeps
<1> QED
  BY <1>2, <1>3 DEF save_generated_otp

LEMMA change_passwordKeeps ==
    ASSUME BInv, NEW t \in Requests, change_password(t)
    PROVE  BInv'
<1>1. job[t].do = "send"
  BY DEF change_password, Do
<1>2. CASE check_rate_limit(t, "send", "current")
  BY <1>2, check_rate_limitKeeps DEF Buckets
<1>3. CASE save_generated_otp(t)
  BY <1>1, <1>3, save_generated_otpKeeps
<1>4. CASE Leave(t, "failed")
  BY <1>4, LeaveKeeps
<1>5. CASE At(t, "current") /\ Look(t, To(t, "spend_all"))
  BY <1>1, <1>5, PlainStands, LookToKeeps DEF At
<1> QED
  BY <1>2, <1>3, <1>4, <1>5 DEF change_password

LEMMA forgot_passwordKeeps ==
    ASSUME BInv, NEW t \in Requests, forgot_password(t)
    PROVE  BInv'
<1>1. job[t].do = "forgot"
  BY DEF forgot_password, Do
<1>2. CASE check_rate_limit(t, "forgot", "user")
  BY <1>2, check_rate_limitKeeps DEF Buckets
<1>3. CASE save_generated_otp(t)
  BY <1>1, <1>3, save_generated_otpKeeps
<1>4. CASE Leave(t, "failed")
  BY <1>4, LeaveKeeps
<1>5. CASE At(t, "user") /\ Look(t, To(t, "spend_all"))
  BY <1>1, <1>5, PlainStands, LookToKeeps DEF At
<1> QED
  BY <1>2, <1>3, <1>4, <1>5 DEF forgot_password

LEMMA FindLiveKeeps ==
    ASSUME BInv, NEW t \in Requests, FindLive(t), job[t].do \in {"verify", "reset"}
    PROVE  BInv'
<1>1. PICK todo, next : todo = Live(t, Row(t)) /\ next = [To(t, "spend") EXCEPT !.todo = todo] /\ Look(t, next)
  BY DEF FindLive
<1>2. todo \subseteq OneTimeCodes
  BY <1>1 DEF Live
<1>3. next.mine = tx[t].mine /\ next.pc = "spend" /\ next.todo = todo /\ IsTx(next)
  BY <1>1, ToIs, WithTodo
<1>4. Stands(next, job[t])
  BY <1>2, <1>3 DEF Stands
<1>5. ~Idle(next, job[t])
  BY <1>3 DEF Idle
<1> QED
  BY <1>1, <1>3, <1>4, <1>5, LookOnKeeps DEF FindLive, At

\* What a request makes of its record when it has worked through one more thing.
LEMMA OneLess ==
    ASSUME BInv, NEW t \in Requests, NEW c
    PROVE  \E next : /\ next = [tx[t] EXCEPT !.todo = @ \ {c}] /\ IsTx(next)
                     /\ next.pc = tx[t].pc /\ next.mine = tx[t].mine /\ next.todo = tx[t].todo \ {c}
                     /\ next.fit = tx[t].fit /\ next.seen = tx[t].seen
<1>1. PICK x : x = tx[t] /\ IsTx(x)
  BY About
<1>2. DOMAIN x = {"pc", "mine", "todo", "fit", "seen"}
  BY <1>1 DEF IsTx
<1>3. PICK next : next = [x EXCEPT !.todo = @ \ {c}]
  OBVIOUS
<1>4. next = [pc |-> x.pc, mine |-> x.mine, todo |-> x.todo \ {c}, fit |-> x.fit, seen |-> x.seen]
  BY <1>2, <1>3
<1>5. next.pc = x.pc /\ next.mine = x.mine /\ next.todo = x.todo \ {c} /\ next.fit = x.fit /\ next.seen = x.seen /\ IsTx(next)
  BY <1>4 DEF IsTx
<1> QED
  BY <1>1, <1>3, <1>5

\* A code is spent.
LEMMA SpendIs ==
    ASSUME BInv, NEW t \in Requests, Spend(t)
    PROVE  \E c \in tx[t].todo, v \in CodeType : \E next :
            /\ c \in OneTimeCodes /\ v.is = "Inactive" /\ Change(t, Version(c, v), next) /\ IsTx(next)
            /\ next.pc = "spend" /\ next.mine = tx[t].mine /\ next.todo = tx[t].todo \ {c}
<1>1. tx[t].pc = "spend" /\ tx[t].todo \subseteq OneTimeCodes
  BY About DEF Spend, At, Knows, Stands
<1>2. PICK c \in tx[t].todo :
        Change(t, Version(c, [View(t, c) EXCEPT !.is = "Inactive"]), [tx[t] EXCEPT !.todo = @ \ {c}])
  BY DEF Spend
<1>3. PICK next : /\ next = [tx[t] EXCEPT !.todo = @ \ {c}] /\ IsTx(next)
                  /\ next.pc = tx[t].pc /\ next.mine = tx[t].mine /\ next.todo = tx[t].todo \ {c}
  BY OneLess
<1>4. PICK old, v : old = View(t, c) /\ v = [old EXCEPT !.is = "Inactive"]
  OBVIOUS
<1>5. old \in CodeType
  BY <1>1, <1>4, SeenCode
<1>6. v \in CodeType /\ v.is = "Inactive"
  BY <1>4, <1>5 DEF CodeType
<1>7. Change(t, Version(c, v), next)
  BY <1>2, <1>3, <1>4
<1> QED
  BY <1>1, <1>3, <1>6, <1>7

LEMMA SpendKeeps ==
    ASSUME BInv, NEW t \in Requests, Spend(t), job[t].do \in {"verify", "reset"}
    PROVE  BInv'
<1>0. PICK c \in tx[t].todo, v \in CodeType : \E next :
            /\ c \in OneTimeCodes /\ v.is = "Inactive" /\ Change(t, Version(c, v), next) /\ IsTx(next)
            /\ next.pc = "spend" /\ next.mine = tx[t].mine /\ next.todo = tx[t].todo \ {c}
  BY SpendIs
<1>1. PICK next :
            /\ c \in OneTimeCodes /\ v.is = "Inactive" /\ Change(t, Version(c, v), next) /\ IsTx(next)
            /\ next.pc = "spend" /\ next.mine = tx[t].mine /\ next.todo = tx[t].todo \ {c}
  BY <1>0
<1>2. tx[t].pc = "spend" /\ tx[t].todo \subseteq OneTimeCodes
  BY About DEF Spend, At, Knows, Stands
<1>3. Stands(next, job[t])
  BY <1>1, <1>2 DEF Stands
<1>4. ~Idle(next, job[t])
  BY <1>1 DEF Idle
<1>5. Fair(db, c, v, job[t])
  BY <1>1, SeenCode
<1>6. Clean(db, Version(c, v))
  BY <1>1, SeenCode, CleanIs
<1> QED
  BY <1>1, <1>2, <1>3, <1>4, <1>5, <1>6, ChangeOneKeeps DEF Under, Pending

LEMMA AllSpentKeeps ==
    ASSUME BInv, NEW t \in Requests, NEW pc \in {"write", "commit"}, AllSpent(t, pc), job[t].do \in {"verify", "reset"}
    PROVE  BInv'
<1>1. Stands(To(t, "write"), job[t]) /\ Stands(To(t, "commit"), job[t])
  BY PlainStands, CommitStands
<1> QED
  BY <1>1, LookToKeeps DEF AllSpent, At

LEMMA CountWrongKeeps ==
    ASSUME BInv, NEW t \in Requests, NEW c \in OneTimeCodes, CountWrong(t, c)
    PROVE  BInv'
<1>1. DOMAIN tx[t].mine = {}
  BY About DEF CountWrong, At, Knows, Idle
<1>2. PICK old, v : old = db[c] /\ v = [old EXCEPT !.tries = @ + 1]
  OBVIOUS
<1>3. old \in CodeType
  BY <1>2, SeenCode
<1>4. v \in CodeType
  BY <1>2, <1>3 DEF CodeType
<1>5. Stands(Blank("failed"), job[t])
  BY BlankIs DEF Stands
<1> QED
  BY <1>1, <1>2, <1>4, <1>5, SeenCode, BlankIs, OnceOneKeeps DEF CountWrong

\* t writes a password, and nothing else of its account but perhaps the version.
LEMMA PasswordKeeps ==
    ASSUME BInv, NEW t \in Requests, NEW pc \in {"find_live", "commit"}, NEW v \in AccountType,
           job[t].do \in {"verify", "reset"}, Row(t) \in Accounts,
           v.is = Own(t).is, v.role = Own(t).role, v.guest = Own(t).guest,
           v.version = Own(t).version + 1 \/ (v.version = Own(t).version /\ v.must = Own(t).must),
           tx[t].pc = "write", Change(t, Version(Row(t), v), To(t, pc))
    PROVE  BInv'
<1>1. Own(t) \in AccountType /\ Moves(db[Row(t)], Own(t), job[t], Row(t)) /\ db[Row(t)] \in AccountType
  BY SeenAccount DEF Own
<1>2. Moves(db[Row(t)], v, job[t], Row(t))
  BY <1>1, MovesOn
<1>3. v.role = db[Row(t)].role
  BY <1>1 DEF Moves
<1>4. Stands(To(t, pc), job[t]) /\ ~Idle(To(t, pc), job[t])
  BY PlainStands, CommitStands, ToIs DEF Idle
<1> QED
  BY <1>2, <1>3, <1>4, AccountKeeps

LEMMA verify_otp_for_password_changeKeeps ==
    ASSUME BInv, NEW t \in Requests, verify_otp_for_password_change(t)
    PROVE  BInv'
<1>1. job[t].do = "verify" /\ Row(t) \in Accounts /\ Sent(t).password \in Nat /\ Sent(t).code \in OneTimeCodes
  BY About DEF verify_otp_for_password_change, Do, Form, Row, Sent
<1>2. CASE Refuse(t)
  BY <1>2, RefuseKeeps
<1>3. CASE At(t, "begin") /\ Change(t, Version(Sent(t).code, db[Sent(t).code]), To(t, "compare"))
  <2>1. Stands(To(t, "compare"), job[t]) /\ ~Idle(To(t, "compare"), job[t])
    BY <1>1, PlainStands, ToIs DEF Idle
  <2> QED
    BY <1>1, <1>3, <2>1, SeenCode, LockToKeeps DEF At
<1>4. CASE Leave(t, "wrong")
  BY <1>1, <1>4, LeaveKeeps
<1>5. CASE At(t, "compare") /\ Look(t, To(t, "find_live"))
  BY <1>1, <1>5, PlainStands, LookToKeeps DEF At
<1>6. CASE FindLive(t)
  BY <1>1, <1>6, FindLiveKeeps
<1>7. CASE Spend(t)
  BY <1>1, <1>7, SpendKeeps
<1>8. CASE AllSpent(t, "write")
  BY <1>1, <1>8, AllSpentKeeps
<1>9. CASE At(t, "write") /\ Change(t, Version(Row(t), Updated(Own(t), [password |-> Sent(t).password])), To(t, "commit"))
  <2>1. PICK v : v = Updated(Own(t), [password |-> Sent(t).password])
    OBVIOUS
  <2>2. Own(t) \in AccountType
    BY <1>1, SeenAccount DEF Own
  <2>3. v \in AccountType /\ v.is = Own(t).is /\ v.role = Own(t).role /\ v.guest = Own(t).guest /\ v.version = Own(t).version + 1
    BY <1>1, <2>1, <2>2, UpdatedPassword
  <2> QED
    BY <1>1, <1>9, <2>1, <2>3, PasswordKeeps DEF At
<1>10. CASE CountWrong(t, Sent(t).code)
  BY <1>1, <1>10, CountWrongKeeps
<1> QED
  BY <1>2, <1>3, <1>4, <1>5, <1>6, <1>7, <1>8, <1>9, <1>10 DEF verify_otp_for_password_change, LockCode

LEMMA reset_passwordKeeps ==
    ASSUME BInv, NEW t \in Requests, reset_password(t)
    PROVE  BInv'
<1>1. job[t].do = "reset" /\ Row(t) \in Accounts /\ Sent(t).password \in Nat
  BY About DEF reset_password, Do, Form, Row, Sent
<1>2. CASE Refuse(t)
  BY <1>2, RefuseKeeps
<1>3. CASE check_rate_limit(t, "reset", "newest")
  BY <1>3, check_rate_limitKeeps DEF Buckets
<1>4. ASSUME At(t, "newest"), NEW c \in OneTimeCodes, Look(t, [Blank("wrong") EXCEPT !.fit = c])
      PROVE  BInv'
  <2>1. DOMAIN tx[t].mine = {}
    BY <1>4, About DEF Knows, Idle, At
  <2>2. PICK x, next : x = Blank("wrong") /\ next = [x EXCEPT !.fit = c]
    OBVIOUS
  <2>3. IsTx(x) /\ x.pc = "wrong" /\ DOMAIN x.mine = {}
    BY <2>2, BlankIs
  <2>4. next = [x EXCEPT !.fit = c]
    BY <2>2
  <2>5. next.pc = x.pc /\ next.mine = x.mine /\ next.fit = c /\ IsTx(next)
    BY <2>3, <2>4, WithFit
  <2>6. Stands(next, job[t])
    BY <1>4, <2>3, <2>5 DEF Stands
  <2>7. Knows(db, next, job[t])
    BY <2>3, <2>5, <2>6, EmptyKnows
  <2>8. Moved(t, next)
    BY <1>4, <2>1, <2>2, <2>3, <2>5, About DEF Look, Read, Moved, BInv
  <2> QED
    BY <2>7, <2>8, MovedKeeps
<1>5. CASE At(t, "newest") /\ Look(t, To(t, "write"))
  BY <1>1, <1>5, PlainStands, LookToKeeps DEF At
<1>6. CASE At(t, "write") /\ Change(t, Version(Row(t), [Own(t) EXCEPT !.password = Sent(t).password]), To(t, "find_live"))
  <2>1. PICK old, v : old = Own(t) /\ v = [old EXCEPT !.password = Sent(t).password]
    OBVIOUS
  <2>2. tx[t].pc = "write" /\ Change(t, Version(Row(t), v), To(t, "find_live"))
    BY <1>6, <2>1 DEF At
  <2>3. old \in AccountType
    BY <1>1, <2>1, SeenAccount DEF Own
  <2>4. v \in AccountType /\ v.is = old.is /\ v.role = old.role /\ v.guest = old.guest /\ v.version = old.version /\ v.must = old.must
    BY <1>1, <2>1, <2>3 DEF AccountType
  <2> QED
    BY <1>1, <2>1, <2>2, <2>4, PasswordKeeps
<1>7. CASE FindLive(t)
  BY <1>1, <1>7, FindLiveKeeps
<1>8. CASE Spend(t)
  BY <1>1, <1>8, SpendKeeps
<1>9. CASE AllSpent(t, "commit")
  BY <1>1, <1>9, AllSpentKeeps
<1>10. CASE CountWrong(t, tx[t].fit)
  <2>1. tx[t].fit \in OneTimeCodes
    BY <1>1, <1>10, About DEF CountWrong, At, Knows, Stands
  <2> QED
    BY <1>10, <2>1, CountWrongKeeps
<1>11. CASE At(t, "newest") /\ \E c \in Good(t) : Look(t, [Blank("wrong") EXCEPT !.fit = c])
  <2>1. Good(t) \subseteq OneTimeCodes
    BY DEF Good, Live
  <2> QED
    BY <1>4, <1>11, <2>1
<1> QED
  BY <1>2, <1>3, <1>5, <1>6, <1>7, <1>8, <1>9, <1>10, <1>11 DEF reset_password

LEMMA PasswordStepKeeps ==
    ASSUME BInv, NEW t \in Requests, PasswordStep(t)
    PROVE  BInv'
BY update_profile_infoKeeps, set_first_passwordKeeps, change_passwordKeeps, forgot_passwordKeeps,
   verify_otp_for_password_changeKeeps, reset_passwordKeeps DEF PasswordStep

-----------------------------------------------------------------------------
(* Guests *)

LEMMA EndVisitsKeeps ==
    ASSUME BInv, NEW t \in Requests, EndVisits(t), job[t].do = "guest"
    PROVE  BInv'
<1>1. CASE At(t, "visits") /\ Look(t, [To(t, "end_visit") EXCEPT !.todo = {g \in Visiting(t) : db[g].past}])
  <2>1. PICK todo, next : /\ todo = {g \in Visiting(t) : db[g].past}
                          /\ next = [To(t, "end_visit") EXCEPT !.todo = todo] /\ Look(t, next)
    BY <1>1
  <2>2. todo \subseteq Guests
    BY <2>1 DEF Visiting
  <2>3. next = [To(t, "end_visit") EXCEPT !.todo = todo]
    BY <2>1
  <2>4. next.mine = tx[t].mine /\ next.pc = "end_visit" /\ next.todo = todo /\ IsTx(next)
    BY <2>3, ToIs, WithTodo
  <2>5. Stands(next, job[t])
    BY <2>2, <2>4 DEF Stands
  <2>6. ~Idle(next, job[t])
    BY <2>4 DEF Idle
  <2> QED
    BY <1>1, <2>1, <2>4, <2>5, <2>6, LookOnKeeps DEF At
<1>2. ASSUME At(t, "end_visit"), NEW g \in tx[t].todo,
             Change(t, Version(g, IF View(t, g).is = "Active" THEN Updated(View(t, g), [is |-> "Inactive"]) ELSE View(t, g)),
                    [tx[t] EXCEPT !.todo = @ \ {g}])
      PROVE  BInv'
  <2>1. g \in Guests /\ g \in Accounts /\ tx[t].todo \subseteq Guests
    BY <1>2, About, RowsAre DEF At, Knows, Stands
  <2>2. PICK next : /\ next = [tx[t] EXCEPT !.todo = @ \ {g}] /\ IsTx(next)
                    /\ next.pc = tx[t].pc /\ next.mine = tx[t].mine /\ next.todo = tx[t].todo \ {g}
    BY OneLess
  <2>3. PICK old, v : old = View(t, g) /\ v = IF old.is = "Active" THEN Updated(old, [is |-> "Inactive"]) ELSE old
    OBVIOUS
  <2>4. old \in AccountType /\ Moves(db[g], old, job[t], g) /\ db[g] \in AccountType
    BY <2>1, <2>3, SeenAccount
  <2>5. v \in AccountType /\ Moves(db[g], v, job[t], g)
    <3>1. CASE old.is # "Active"
      BY <2>3, <2>4, <3>1
    <3>2. CASE old.is = "Active"
      <4>1. /\ v \in AccountType /\ v.is = "Inactive" /\ v.role = old.role /\ v.guest = old.guest
            /\ v.version = old.version + 1
        BY <2>3, <2>4, <3>2, UpdatedStatus
      <4>2. db[g].version \in Nat /\ old.version \in Nat
        BY <2>4 DEF AccountType
      <4>3. CASE db[g].is = "None" /\ g = job[t].row /\ job[t].do \in {"create", "guest"} /\ old.role # Owner
        BY <1>2, <4>1, <4>3 DEF Moves
      <4>4. CASE ~(db[g].is = "None" /\ g = job[t].row /\ job[t].do \in {"create", "guest"} /\ old.role # Owner)
        <5>1. /\ old.guest = db[g].guest /\ old.role = db[g].role
              /\ old.version = db[g].version \/ old.version > db[g].version
          BY <2>1, <2>4, <4>2, <4>4 DEF Moves
        <5>2. v.version > db[g].version
          BY <4>1, <4>2, <5>1
        <5> QED
          BY <2>1, <4>1, <5>1, <5>2 DEF Moves
      <4> QED
        BY <4>1, <4>3, <4>4
    <3> QED
      BY <3>1, <3>2
  <2>6. Fair(db, g, v, job[t])
    BY <2>1, <2>5, FairAccount
  <2>7. v.role = db[g].role \/ db[g].is = "None"
    BY <2>5 DEF Moves
  <2>8. Clean(db, Version(g, v))
    BY <2>1, <2>7, CleanIs, TablesDiffer
  <2>9. Change(t, Version(g, v), next) /\ next.pc = "end_visit"
    BY <1>2, <2>2, <2>3 DEF At
  <2>10. Stands(next, job[t])
    BY <2>1, <2>2, <2>9 DEF Stands
  <2>11. ~Idle(next, job[t])
    BY <2>9 DEF Idle
  <2> QED
    BY <2>2, <2>6, <2>8, <2>9, <2>10, <2>11, ChangeOneKeeps DEF Under, Pending
<1>3. CASE At(t, "end_visit") /\ Look(t, To(t, "desk"))
  BY <1>3, PlainStands, LookToKeeps DEF At
<1> QED
  BY <1>1, <1>2, <1>3 DEF EndVisits

LEMMA TakeDeskKeeps ==
    ASSUME BInv, NEW t \in Requests, TakeDesk(t), job[t].do = "guest"
    PROVE  BInv'
<1>1. tx[t].pc = "desk" /\ Change(t, Version(GuestDesk, 0), To(t, "count"))
  BY DEF TakeDesk, At
<1>2. Fair(db, GuestDesk, 0, job[t]) /\ Clean(db, Version(GuestDesk, 0))
  <2>1. Fits(GuestDesk, 0) /\ GuestDesk \in Rows \ {ConfigVersion}
    BY RowsAre, TablesDiffer, TypesAre
  <2>2. GuestDesk \notin Accounts \cup Features \cup OneTimeCodes \cup Roles \cup {Settings}
    BY RowsAre, TablesDiffer
  <2> QED
    BY <2>1, <2>2, CleanIs DEF Fair
<1>3. Stands(To(t, "count"), job[t]) /\ ~Idle(To(t, "count"), job[t])
  BY PlainStands, ToIs DEF Idle
<1> QED
  BY <1>1, <1>2, <1>3, ToIs, ChangeOneKeeps DEF Under, Pending

\* The guest who comes in.
Come(n) ==
    [is |-> "Active", role |-> GuestRole, guest |-> n, past |-> FALSE, must |-> FALSE, password |-> 0, version |-> 0]

LEMMA guest_sign_inKeeps ==
    ASSUME BInv, NEW t \in Requests, guest_sign_in(t)
    PROVE  BInv'
<1>1. job[t].do = "guest" /\ Row(t) \in Guests
  BY DEF guest_sign_in, Asks, Do
<1>2. CASE Refuse(t)
  BY <1>2, RefuseKeeps
<1>3. CASE check_rate_limit(t, "guest", "visits")
  BY <1>3, check_rate_limitKeeps DEF Buckets
<1>4. CASE EndVisits(t)
  BY <1>1, <1>4, EndVisitsKeeps
<1>5. CASE TakeDesk(t)
  BY <1>1, <1>5, TakeDeskKeeps
<1>6. ASSUME tx[t].pc \in {"count", "role"}, NEW pc \in {"role", "name"}, Look(t, To(t, pc))
      PROVE  BInv'
  BY <1>6, PlainStands, LookToKeeps
<1>7. ASSUME At(t, "name"), NEW n \in 1 .. Cardinality(Guests) + 1, Look(t, [To(t, "write") EXCEPT !.fit = n])
      PROVE  BInv'
  <2>1. PICK next : next = [To(t, "write") EXCEPT !.fit = n] /\ Look(t, next)
    BY <1>7
  <2>2. next.mine = tx[t].mine /\ next.pc = "write" /\ next.fit = n /\ IsTx(next)
    BY <2>1, ToIs, WithFit
  <2>3. n \in Nat
    BY <1>7, OwnAccountAssumption, FS_CardinalityType
  <2>4. Stands(next, job[t])
    BY <2>2, <2>3 DEF Stands
  <2>5. ~Idle(next, job[t])
    BY <1>1, <2>2 DEF Idle
  <2> QED
    BY <1>7, <2>1, <2>2, <2>4, <2>5, LookOnKeeps DEF At
<1>8. CASE At(t, "write") /\ IsNew(t, Row(t)) /\ Change(t, Version(Row(t), Come(tx[t].fit)), To(t, "commit"))
  <2>1. tx[t].fit \in Nat
    BY <1>1, <1>8, About DEF Knows, Stands, At
  <2>2. PICK v : v = Come(tx[t].fit)
    OBVIOUS
  <2>3. v \in AccountType /\ v.role = GuestRole
    BY <2>1, <2>2, OwnAccountAssumption DEF Come, AccountType
  <2>4. Row(t) \in Accounts
    BY <1>1, RowsAre
  <2>5. db[Row(t)].is = "None"
    BY <1>8, <2>4, SeenAccount DEF IsNew, Moves
  <2>6. Moves(db[Row(t)], v, job[t], Row(t))
    BY <1>1, <2>3, <2>5, OwnAccountAssumption DEF Moves, Row
  <2>7. Stands(To(t, "commit"), job[t]) /\ ~Idle(To(t, "commit"), job[t])
    BY <1>1, CommitStands, ToIs DEF Idle
  <2> QED
    BY <1>8, <2>2, <2>3, <2>4, <2>5, <2>6, <2>7, AccountKeeps DEF At
<1> QED
  BY <1>2, <1>3, <1>4, <1>5, <1>6, <1>7, <1>8 DEF guest_sign_in, At, Come

LEMMA OwnStepKeeps ==
    ASSUME BInv, NEW t \in Requests, OwnStep(t)
    PROVE  BInv'
BY PasswordStepKeeps, guest_sign_inKeeps DEF OwnStep

-----------------------------------------------------------------------------
(* Requests that go by what an instance keeps *)

\* Where they stand.
CachePcs == {"off", "keep_off", "verdict", "row", "keep_row", "codes", "keep_codes", "version", "payload", "load", "keep_payload",
             "answer"}

\* A reader goes on, with what it has not locked.
ReadsOn(t, next) == Look(t, next) /\ IsTx(next) /\ next.mine = tx[t].mine

LEMMA ReadsKeeps ==
    ASSUME BInv, NEW t \in Requests, NEW next, ReadsOn(t, next), job[t].do \in {"enter", "settings", "may", "info"},
           tx[t].pc \in CachePcs \cup {"begin"}, next.pc \in CachePcs
    PROVE  BInv'
<1>1. Stands(next, job[t])
  BY DEF Stands, CachePcs
<1>2. Idle(tx[t], job[t])
  BY DEF Idle
<1> QED
  BY <1>1, <1>2, LookOnKeeps DEF ReadsOn, CachePcs

\* It ends by reading.
LEMMA LastReadKeeps ==
    ASSUME BInv, NEW t \in Requests, Look(t, Blank("done")), job[t].do \in {"enter", "settings", "may", "info"}
    PROVE  BInv'
<1>1. DOMAIN tx[t].mine = {}
  BY About DEF Knows, Idle
<1>2. Moved(t, Blank("done"))
  BY <1>1, About, BlankIs DEF Look, Read, Moved, BInv
<1> QED
  BY <1>2, BlankKnows, MovedKeeps

LEMMA switched_offIs ==
    ASSUME BInv, NEW t \in Requests, NEW version, NEW pc, switched_off(t, version, pc)
    PROVE  \E next :
            /\ ReadsOn(t, next) /\ next.fit = tx[t].fit /\ next.seen = tx[t].seen
            /\ \/ /\ tx[t].pc = "off" /\ kept.off.at = version /\ next.todo = kept.off.value /\ next.pc = pc /\ kept' = kept
               \/ tx[t].pc = "off" /\ next.todo = OffNow /\ next.pc = "keep_off" /\ kept' = kept
               \/ /\ tx[t].pc = "keep_off" /\ next.todo = tx[t].todo /\ next.pc = pc
                  /\ kept' = [kept EXCEPT !.off = [at |-> version, value |-> tx[t].todo]]
<1>1. CASE At(t, "off") /\ Hit("off", version) /\ Recall(t, [To(t, pc) EXCEPT !.todo = kept.off.value])
  <2>1. PICK next : next = [To(t, pc) EXCEPT !.todo = kept.off.value]
    OBVIOUS
  <2>2. /\ next.mine = tx[t].mine /\ next.pc = pc /\ next.todo = kept.off.value /\ next.fit = tx[t].fit
        /\ next.seen = tx[t].seen /\ IsTx(next)
    BY <2>1, ToIs, WithTodo
  <2>3. Look(t, next) /\ kept' = kept /\ kept.off.at = version /\ tx[t].pc = "off"
    BY <1>1, <2>1 DEF Recall, Hit, At
  <2> QED
    BY <2>2, <2>3 DEF ReadsOn
<1>2. CASE At(t, "off") /\ Recall(t, [To(t, "keep_off") EXCEPT !.todo = OffNow])
  <2>1. PICK next, v : v = OffNow /\ next = [To(t, "keep_off") EXCEPT !.todo = v]
    OBVIOUS
  <2>2. /\ next.mine = tx[t].mine /\ next.pc = "keep_off" /\ next.todo = v /\ next.fit = tx[t].fit
        /\ next.seen = tx[t].seen /\ IsTx(next)
    BY <2>1, ToIs, WithTodo
  <2>3. Look(t, next) /\ kept' = kept /\ tx[t].pc = "off"
    BY <1>2, <2>1 DEF Recall, At
  <2> QED
    BY <2>1, <2>2, <2>3 DEF ReadsOn
<1>3. CASE At(t, "keep_off") /\ Keep(t, "off", version, tx[t].todo, To(t, pc))
  BY <1>3, ToIs DEF Keep, At, ReadsOn
<1> QED
  BY <1>1, <1>2, <1>3 DEF switched_off

LEMMA requirePermissionIs ==
    ASSUME BInv, NEW t \in Requests, requirePermission(t)
    PROVE  /\ job[t].do = "enter"
           /\ \/ (Leave(t, "failed") \/ Leave(t, "done")) /\ kept' = kept
              \/ \E next : /\ ReadsOn(t, next) /\ next.pc = "off" /\ next.seen = [version |-> db[ConfigVersion]]
                           /\ tx[t].pc = "begin" /\ kept' = kept
              \/ switched_off(t, tx[t].seen.version, "verdict")
<1>1. CASE At(t, "begin") /\ Recall(t, [To(t, "off") EXCEPT !.seen = [version |-> db[ConfigVersion]]])
  <2>1. PICK next, v : v = [version |-> db[ConfigVersion]] /\ next = [To(t, "off") EXCEPT !.seen = v]
    OBVIOUS
  <2>2. next.mine = tx[t].mine /\ next.pc = "off" /\ next.seen = v /\ IsTx(next)
    BY <2>1, ToIs, WithSeen
  <2> QED
    BY <1>1, <2>1, <2>2 DEF Recall, At, ReadsOn, requirePermission, Do
<1>2. CASE \E pc \in {"done", "failed"} : Reply(t, pc)
  BY <1>2 DEF Reply, requirePermission, Do
<1>3. CASE switched_off(t, tx[t].seen.version, "verdict")
  BY <1>3 DEF requirePermission, Do
<1> QED
  BY <1>1, <1>2, <1>3 DEF requirePermission

LEMMA getSettingsIs ==
    ASSUME BInv, NEW t \in Requests, getSettings(t)
    PROVE  /\ job[t].do = "settings"
           /\ \/ Leave(t, "done") /\ kept' = kept
              \/ \E next : /\ ReadsOn(t, next) /\ next.pc = "row" /\ next.seen = db[ConfigVersion]
                           /\ tx[t].pc = "begin" /\ kept' = kept
              \/ \E next : /\ ReadsOn(t, next) /\ next.pc = "keep_row" /\ next.seen = tx[t].seen /\ next.fit = db[Settings]
                           /\ tx[t].pc = "row" /\ kept' = kept
              \/ /\ Look(t, Blank("done")) /\ tx[t].pc = "keep_row"
                 /\ kept' = [kept EXCEPT !.settings = [at |-> tx[t].seen, value |-> tx[t].fit]]
<1>1. CASE At(t, "begin") /\ Recall(t, [To(t, "row") EXCEPT !.seen = db[ConfigVersion]])
  <2>1. PICK next, v : v = db[ConfigVersion] /\ next = [To(t, "row") EXCEPT !.seen = v]
    OBVIOUS
  <2>2. next.mine = tx[t].mine /\ next.pc = "row" /\ next.seen = v /\ IsTx(next)
    BY <2>1, ToIs, WithSeen
  <2> QED
    BY <1>1, <2>1, <2>2 DEF Recall, At, ReadsOn, getSettings, Do
<1>2. CASE At(t, "row") /\ Reply(t, "done")
  BY <1>2 DEF Reply, getSettings, Do
<1>3. CASE At(t, "row") /\ Recall(t, [To(t, "keep_row") EXCEPT !.fit = db[Settings]])
  <2>1. PICK next, v : v = db[Settings] /\ next = [To(t, "keep_row") EXCEPT !.fit = v]
    OBVIOUS
  <2>2. next.mine = tx[t].mine /\ next.pc = "keep_row" /\ next.fit = v /\ next.seen = tx[t].seen /\ IsTx(next)
    BY <2>1, ToIs, WithFit
  <2> QED
    BY <1>3, <2>1, <2>2 DEF Recall, At, ReadsOn, getSettings, Do
<1>4. CASE At(t, "keep_row") /\ Keep(t, "settings", tx[t].seen, tx[t].fit, Blank("done"))
  BY <1>4 DEF Keep, At, getSettings, Do
<1> QED
  BY <1>1, <1>2, <1>3, <1>4 DEF getSettings

LEMMA permissions_forIs ==
    ASSUME BInv, NEW t \in Requests, permissions_for(t)
    PROVE  /\ job[t].do = "may"
           /\ \/ Leave(t, "done") /\ kept' = kept
              \/ \E next : /\ ReadsOn(t, next) /\ next.pc = "codes" /\ next.seen = db[ConfigVersion]
                           /\ tx[t].pc = "begin" /\ kept' = kept
              \/ \E next : /\ ReadsOn(t, next) /\ next.pc = "keep_codes" /\ next.seen = tx[t].seen /\ next.fit = Held(By(t))
                           /\ tx[t].pc = "codes" /\ kept' = kept
              \/ /\ Look(t, Blank("done")) /\ tx[t].pc = "keep_codes"
                 /\ kept' = [kept EXCEPT !.permissions[By(t)] = [at |-> tx[t].seen, value |-> tx[t].fit]]
<1>1. CASE At(t, "begin") /\ Recall(t, [To(t, "codes") EXCEPT !.seen = db[ConfigVersion]])
  <2>1. PICK next, v : v = db[ConfigVersion] /\ next = [To(t, "codes") EXCEPT !.seen = v]
    OBVIOUS
  <2>2. next.mine = tx[t].mine /\ next.pc = "codes" /\ next.seen = v /\ IsTx(next)
    BY <2>1, ToIs, WithSeen
  <2> QED
    BY <1>1, <2>1, <2>2 DEF Recall, At, ReadsOn, permissions_for, Do
<1>2. CASE At(t, "codes") /\ Reply(t, "done")
  BY <1>2 DEF Reply, permissions_for, Do
<1>3. CASE At(t, "codes") /\ Recall(t, [To(t, "keep_codes") EXCEPT !.fit = Held(By(t))])
  <2>1. PICK next, v : v = Held(By(t)) /\ next = [To(t, "keep_codes") EXCEPT !.fit = v]
    OBVIOUS
  <2>2. next.mine = tx[t].mine /\ next.pc = "keep_codes" /\ next.fit = v /\ next.seen = tx[t].seen /\ IsTx(next)
    BY <2>1, ToIs, WithFit
  <2> QED
    BY <1>3, <2>1, <2>2 DEF Recall, At, ReadsOn, permissions_for, Do
<1>4. CASE /\ At(t, "keep_codes") /\ Look(t, Blank("done"))
           /\ kept' = [kept EXCEPT !.permissions[By(t)] = [at |-> tx[t].seen, value |-> tx[t].fit]]
  BY <1>4 DEF At, permissions_for, Do
<1> QED
  BY <1>1, <1>2, <1>3, <1>4 DEF permissions_for

\* What one of the three queries of LoadPart finds.
PartValue(part, role) ==
    CASE part = "grants" -> Granted(role) [] part = "menu" -> MenuRows [] OTHER -> db[Settings].business

LEMMA LoadPartIs ==
    ASSUME BInv, NEW t \in Requests, LoadPart(t)
    PROVE  \E part \in tx[t].todo : \E next :
            /\ ReadsOn(t, next) /\ next.pc = "load" /\ next.seen = tx[t].seen /\ next.todo = tx[t].todo \ {part}
            /\ next.fit = Version(part, PartValue(part, tx[t].seen.role)) ++ tx[t].fit
            /\ tx[t].pc = "load" /\ kept' = kept
<1>0. PICK part \in tx[t].todo :
        Recall(t, [tx[t] EXCEPT !.todo = @ \ {part}, !.fit = Version(part, PartValue(part, tx[t].seen.role)) ++ @])
  BY DEF LoadPart, PartValue
<1>1. PICK value :
        /\ value = PartValue(part, tx[t].seen.role)
        /\ Recall(t, [tx[t] EXCEPT !.todo = @ \ {part}, !.fit = Version(part, value) ++ @])
  BY <1>0
<1>2. PICK x : x = tx[t] /\ IsTx(x)
  BY About
<1>3. DOMAIN x = {"pc", "mine", "todo", "fit", "seen"}
  BY <1>2 DEF IsTx
<1>4. PICK fit, next : fit = Version(part, value) ++ x.fit /\ next = [x EXCEPT !.todo = @ \ {part}, !.fit = Version(part, value) ++ @]
  OBVIOUS
<1>5. next = [pc |-> x.pc, mine |-> x.mine, todo |-> x.todo \ {part}, fit |-> fit, seen |-> x.seen]
  BY <1>3, <1>4
<1>6. next.pc = x.pc /\ next.mine = x.mine /\ next.todo = x.todo \ {part} /\ next.fit = fit /\ next.seen = x.seen /\ IsTx(next)
  BY <1>5 DEF IsTx
<1>7. Recall(t, next)
  BY <1>1, <1>2, <1>4
<1>8. tx[t].pc = "load"
  BY DEF LoadPart, At
<1>9. ReadsOn(t, next) /\ kept' = kept
  BY <1>2, <1>6, <1>7 DEF Recall, ReadsOn
<1>10. /\ next.pc = "load" /\ next.seen = tx[t].seen /\ next.todo = tx[t].todo \ {part}
       /\ next.fit = Version(part, PartValue(part, tx[t].seen.role)) ++ tx[t].fit
  BY <1>1, <1>2, <1>4, <1>6, <1>8
<1> QED
  BY <1>8, <1>9, <1>10

\* Where get_user_info stands, what it reads there, and what it keeps.
LEMMA get_user_infoIs ==
    ASSUME BInv, NEW t \in Requests, get_user_info(t)
    PROVE  /\ job[t].do = "info"
           /\ \/ (Leave(t, "failed") \/ Leave(t, "done")) /\ kept' = kept
              \/ \E next : /\ ReadsOn(t, next) /\ next.pc = "version" /\ tx[t].pc = "begin" /\ kept' = kept
                           /\ next.seen = [role |-> db[By(t)].role, name |-> db[db[By(t)].role].name,
                                           edited |-> db[By(t)].version, must |-> db[By(t)].must]
                           /\ db[By(t)].is # "None"
              \/ \E next : /\ ReadsOn(t, next) /\ next.pc = "payload" /\ tx[t].pc = "version" /\ kept' = kept
                           /\ next.seen = [version |-> db[ConfigVersion]] ++ tx[t].seen
              \/ \E next : /\ ReadsOn(t, next) /\ next.pc = "answer" /\ tx[t].pc = "payload" /\ kept' = kept
                           /\ next.seen = tx[t].seen
                           /\ next.fit \in kept.payloads /\ next.fit.etag = Etag(t)
              \/ \E next : /\ ReadsOn(t, next) /\ next.pc = "load" /\ tx[t].pc = "payload" /\ kept' = kept
                           /\ next.seen = tx[t].seen
                           /\ next.todo = {"grants", "menu", "settings"} /\ next.fit = << >>
              \/ LoadPart(t)
              \/ \E next : /\ ReadsOn(t, next) /\ next.pc = "off" /\ tx[t].pc = "load" /\ kept' = kept
                           /\ next.seen = tx[t].seen /\ next.fit = tx[t].fit /\ tx[t].todo = {}
              \/ switched_off(t, tx[t].seen.version, "keep_payload")
              \/ \E next : /\ ReadsOn(t, next) /\ next.pc = "answer" /\ tx[t].pc = "keep_payload"
                           /\ next.seen = tx[t].seen /\ next.fit = Payload(t)
                           /\ kept' = [kept EXCEPT !.payloads = (@ \ {p \in kept.payloads : p.etag = Etag(t)}) \cup {Payload(t)}]
<1>0. job[t].do = "info"
  BY DEF get_user_info, Do
<1>1. CASE \E pc \in {"done", "failed"} : Reply(t, pc)
  BY <1>0, <1>1 DEF Reply
<1>2. CASE /\ At(t, "begin") /\ db[By(t)].is # "None"
           /\ Recall(t, [To(t, "version") EXCEPT !.seen = [role |-> db[By(t)].role, name |-> db[db[By(t)].role].name,
                                                            edited |-> db[By(t)].version, must |-> db[By(t)].must]])
  <2>1. PICK next, v : /\ v = [role |-> db[By(t)].role, name |-> db[db[By(t)].role].name,
                               edited |-> db[By(t)].version, must |-> db[By(t)].must]
                       /\ next = [To(t, "version") EXCEPT !.seen = v]
    OBVIOUS
  <2>2. next.mine = tx[t].mine /\ next.pc = "version" /\ next.seen = v /\ IsTx(next)
    BY <2>1, ToIs, WithSeen
  <2>3. ReadsOn(t, next) /\ kept' = kept /\ tx[t].pc = "begin"
    BY <1>2, <2>1, <2>2 DEF Recall, At, ReadsOn
  <2> QED
    BY <1>0, <1>2, <2>1, <2>2, <2>3
<1>3. CASE At(t, "version") /\ Recall(t, [To(t, "payload") EXCEPT !.seen = [version |-> db[ConfigVersion]] ++ @])
  <2>1. PICK x : x = To(t, "payload") /\ IsTx(x) /\ x.seen = tx[t].seen /\ x.mine = tx[t].mine /\ x.pc = "payload"
    BY ToIs
  <2>2. PICK next, v : v = [version |-> db[ConfigVersion]] ++ x.seen /\ next = [x EXCEPT !.seen = v]
    OBVIOUS
  <2>3. next = [To(t, "payload") EXCEPT !.seen = [version |-> db[ConfigVersion]] ++ @]
    BY <2>1, <2>2
  <2>4. next.mine = tx[t].mine /\ next.pc = "payload" /\ next.seen = v /\ IsTx(next)
    BY <2>1, <2>2, WithSeen
  <2>5. ReadsOn(t, next) /\ kept' = kept /\ tx[t].pc = "version"
    BY <1>3, <2>3, <2>4 DEF Recall, At, ReadsOn
  <2>6. next.seen = [version |-> db[ConfigVersion]] ++ tx[t].seen
    BY <2>1, <2>2, <2>4
  <2> QED
    BY <1>0, <2>4, <2>5, <2>6
<1>4. ASSUME At(t, "payload"), NEW p \in kept.payloads, p.etag = Etag(t), Recall(t, [To(t, "answer") EXCEPT !.fit = p])
      PROVE  \E next : /\ ReadsOn(t, next) /\ next.pc = "answer" /\ tx[t].pc = "payload" /\ kept' = kept
                       /\ next.seen = tx[t].seen
                       /\ next.fit \in kept.payloads /\ next.fit.etag = Etag(t)
  <2>1. PICK next : next = [To(t, "answer") EXCEPT !.fit = p]
    OBVIOUS
  <2>2. next.mine = tx[t].mine /\ next.pc = "answer" /\ next.fit = p /\ next.seen = tx[t].seen /\ IsTx(next)
    BY <2>1, ToIs, WithFit
  <2>3. ReadsOn(t, next) /\ kept' = kept /\ tx[t].pc = "payload"
    BY <1>4, <2>1, <2>2 DEF Recall, At, ReadsOn
  <2> QED
    BY <1>4, <2>2, <2>3
<1>5. CASE At(t, "payload") /\ Recall(t, [To(t, "load") EXCEPT !.todo = {"grants", "menu", "settings"}, !.fit = << >>])
  <2>1. PICK x : x = To(t, "load") /\ IsTx(x) /\ x.seen = tx[t].seen /\ x.mine = tx[t].mine /\ x.pc = "load"
    BY ToIs
  <2>2. DOMAIN x = {"pc", "mine", "todo", "fit", "seen"}
    BY <2>1 DEF IsTx
  <2>3. PICK next, d : d = {"grants", "menu", "settings"} /\ next = [x EXCEPT !.todo = d, !.fit = << >>]
    OBVIOUS
  <2>4. next = [pc |-> x.pc, mine |-> x.mine, todo |-> d, fit |-> << >>, seen |-> x.seen]
    BY <2>2, <2>3
  <2>5. next.mine = tx[t].mine /\ next.pc = "load" /\ next.fit = << >> /\ next.todo = d /\ next.seen = tx[t].seen /\ IsTx(next)
    BY <2>1, <2>4 DEF IsTx
  <2>6. ReadsOn(t, next) /\ kept' = kept /\ tx[t].pc = "payload"
    BY <1>5, <2>1, <2>3, <2>5 DEF Recall, At, ReadsOn
  <2> QED
    BY <1>0, <2>3, <2>5, <2>6
<1>6. CASE LoadPart(t)
  BY <1>0, <1>6
<1>7. CASE At(t, "load") /\ tx[t].todo = {} /\ Recall(t, To(t, "off"))
  <2>1. ReadsOn(t, To(t, "off")) /\ kept' = kept /\ tx[t].pc = "load"
    BY <1>7, ToIs DEF Recall, At, ReadsOn
  <2> QED
    BY <1>0, <1>7, <2>1, ToIs
<1>8. CASE switched_off(t, tx[t].seen.version, "keep_payload")
  BY <1>0, <1>8
<1>9. CASE /\ At(t, "keep_payload")
           /\ Look(t, [To(t, "answer") EXCEPT !.fit = Payload(t), !.todo = {}])
           /\ kept' = [kept EXCEPT !.payloads = (@ \ {p \in kept.payloads : p.etag = Etag(t)}) \cup {Payload(t)}]
  <2>1. PICK x : x = To(t, "answer") /\ IsTx(x) /\ x.seen = tx[t].seen /\ x.mine = tx[t].mine /\ x.pc = "answer"
    BY ToIs
  <2>2. DOMAIN x = {"pc", "mine", "todo", "fit", "seen"}
    BY <2>1 DEF IsTx
  <2>3. PICK next, p : p = Payload(t) /\ next = [x EXCEPT !.fit = p, !.todo = {}]
    OBVIOUS
  <2>4. next = [pc |-> x.pc, mine |-> x.mine, todo |-> {}, fit |-> p, seen |-> x.seen]
    BY <2>2, <2>3
  <2>5. next.mine = tx[t].mine /\ next.pc = "answer" /\ next.fit = p /\ next.seen = tx[t].seen /\ IsTx(next)
    BY <2>1, <2>4 DEF IsTx
  <2>6. ReadsOn(t, next) /\ tx[t].pc = "keep_payload"
    BY <1>9, <2>1, <2>3, <2>5 DEF At, ReadsOn
  <2> QED
    BY <1>0, <1>9, <2>3, <2>5, <2>6
<1> QED
  BY <1>1, <1>2, <1>3, <1>4, <1>5, <1>6, <1>7, <1>8, <1>9, <1>0 DEF get_user_info

LEMMA CacheStepKeeps ==
    ASSUME BInv, NEW t \in Requests, CacheStep(t)
    PROVE  BInv'
<1>1. ASSUME NEW pc \in {"done", "failed"}, Leave(t, pc)
      PROVE  BInv'
  BY <1>1, LeaveIs, BlankKnows, MovedKeeps
<1>2. ASSUME NEW next, ReadsOn(t, next), job[t].do \in {"enter", "settings", "may", "info"},
             tx[t].pc \in CachePcs \cup {"begin"}, next.pc \in CachePcs
      PROVE  BInv'
  BY <1>2, ReadsKeeps
<1>3. ASSUME NEW version, NEW pc \in {"verdict", "keep_payload"}, switched_off(t, version, pc), job[t].do \in {"enter", "info"}
      PROVE  BInv'
  <2>1. PICK next : ReadsOn(t, next) /\ tx[t].pc \in {"off", "keep_off"} /\ next.pc \in {pc, "keep_off"}
    BY <1>3, switched_offIs
  <2> QED
    BY <1>2, <1>3, <2>1 DEF CachePcs
<1>4. CASE requirePermission(t)
  BY <1>1, <1>2, <1>3, <1>4, requirePermissionIs DEF CachePcs
<1>5. CASE getSettings(t)
  BY <1>1, <1>2, <1>5, getSettingsIs, LastReadKeeps DEF CachePcs
<1>6. CASE permissions_for(t)
  BY <1>1, <1>2, <1>6, permissions_forIs, LastReadKeeps DEF CachePcs
<1>7. CASE get_user_info(t)
  <2>1. job[t].do = "info"
    BY <1>7, get_user_infoIs
  <2>2. CASE LoadPart(t)
    <3>1. PICK next : ReadsOn(t, next) /\ next.pc = "load" /\ tx[t].pc = "load"
      BY <2>2, LoadPartIs
    <3> QED
      BY <1>2, <2>1, <3>1 DEF CachePcs
  <2>3. CASE switched_off(t, tx[t].seen.version, "keep_payload")
    BY <1>3, <2>1, <2>3
  <2>4. \/ LoadPart(t) \/ switched_off(t, tx[t].seen.version, "keep_payload")
        \/ Leave(t, "failed") \/ Leave(t, "done")
        \/ \E next : /\ ReadsOn(t, next) /\ next.pc \in CachePcs /\ tx[t].pc \in CachePcs \cup {"begin"}
    BY <1>7, get_user_infoIs DEF CachePcs
  <2> QED
    BY <1>1, <1>2, <2>1, <2>2, <2>3, <2>4
<1> QED
  BY <1>4, <1>5, <1>6, <1>7 DEF CacheStep

-----------------------------------------------------------------------------
(* All steps *)

LEMMA BeginKnows == Init => BInv
<1> SUFFICES ASSUME Init PROVE BInv
  OBVIOUS
<1>1. /\ lock = [r \in Rows |-> NoRequest] /\ tx = [t \in Requests |-> Blank("begin")]
      /\ db = [r \in Rows |-> db[r]] /\ job \in Starts
      /\ \A r \in AdminRows : db[r] \in AdminRowType(r)
      /\ \A r \in OwnRows : db[r] \in OwnRowType(r)
  BY DEF Init, Begun, Tidy
<1>2. ASSUME NEW t \in Requests
      PROVE  Knows(db, tx[t], job[t])
  <2>1. PICK x : x = Blank("begin") /\ tx[t] = x /\ x.pc = "begin" /\ IsTx(x) /\ DOMAIN x.mine = {}
    BY <1>1, BlankIs
  <2>2. Stands(x, job[t])
    BY <2>1 DEF Stands
  <2>3. Clean(db, x.mine)
    BY <2>1 DEF Clean
  <2>4. Knows(db, x, job[t])
    BY <2>1, <2>2, <2>3 DEF Knows
  <2> QED
    BY <2>1, <2>4
<1>3. ASSUME NEW t \in Requests
      PROVE  {r \in Rows : lock[r] = t} = DOMAIN tx[t].mine
  BY <1>1, BlankIs, ReadCommittedAssumption
<1> QED
  BY <1>1, <1>2, <1>3 DEF BInv, Fits

\* What may happen: a request goes on, or nothing does.
LEMMA NextIs ==
    ASSUME [Next]_vars
    PROVE  \/ db' = db /\ lock' = lock /\ tx' = tx /\ job' = job /\ kept' = kept
           \/ \E t \in Requests : \/ /\ FormStep(t) \/ AdminStep(t) \/ OwnStep(t) \/ Finish(t) \/ Refuse(t)
                                     /\ kept' = kept
                                  \/ CacheStep(t)
BY DEF Next, vars, LoseConnection, Interrupt, BreakCycle, Refuse, AllAnswered

LEMMA NextKeeps == BInv /\ [Next]_vars => BInv'
<1> SUFFICES ASSUME BInv, [Next]_vars PROVE BInv'
  OBVIOUS
<1>1. CASE db' = db /\ lock' = lock /\ tx' = tx /\ job' = job
  BY <1>1 DEF BInv
<1>2. ASSUME NEW t \in Requests, FormStep(t) \/ AdminStep(t) \/ OwnStep(t) \/ Finish(t) \/ Refuse(t) \/ CacheStep(t)
      PROVE  BInv'
  BY <1>2, FormStepKeeps, AdminStepKeeps, OwnStepKeeps, FinishKeeps, RefuseKeeps, CacheStepKeeps
<1> QED
  BY <1>1, <1>2, NextIs

\* The tables keep their types, a request's locks are its versions, and every request knows what it wrote.
THEOREM TablesInOrder == Spec => []BInv
<1>1. Init => BInv
  BY BeginKnows
<1>2. BInv /\ [Next]_vars => BInv'
  BY NextKeeps
<1> QED
  BY <1>1, <1>2, PTL DEF Spec

LEMMA TypesHold == BInv => TypeOK
BY AdminAssumption, OwnAccountAssumption DEF BInv, TypeOK, Fits

-----------------------------------------------------------------------------
(* What a step does *)

\* One request's step.
StepBy(t) == FormStep(t) \/ AdminStep(t) \/ OwnStep(t) \/ Finish(t) \/ Refuse(t) \/ CacheStep(t)

LEMMA LookGoes ==
    ASSUME BInv, NEW t \in Requests, NEW next, Look(t, next)
    PROVE  /\ db' = db /\ job' = job /\ tx'[t] = next
           /\ \A u \in Requests : u # t => tx'[u] = tx[u]
BY DEF Look, Read, BInv

LEMMA LookToGoes ==
    ASSUME BInv, NEW t \in Requests, NEW pc, Look(t, To(t, pc))
    PROVE  \E y : /\ tx'[t] = y /\ db' = db
                  /\ y.pc = pc /\ y.mine = tx[t].mine /\ y.todo = tx[t].todo /\ y.fit = tx[t].fit /\ y.seen = tx[t].seen
BY LookGoes, ToIs

LEMMA ChangeGoes ==
    ASSUME BInv, NEW t \in Requests, NEW r \in Rows, NEW v, NEW next, Change(t, Version(r, v), next),
           next.mine = tx[t].mine, IsTx(next)
    PROVE  \E y : /\ tx'[t] = y /\ db' = db
                  /\ y.pc = next.pc /\ y.todo = next.todo /\ y.fit = next.fit /\ y.seen = next.seen
                  /\ DOMAIN y.mine = DOMAIN tx[t].mine \cup {r} /\ y.mine[r] = v
                  /\ \A s \in DOMAIN tx[t].mine : s # r => y.mine[s] = tx[t].mine[s]
<1>1. PICK new : new = Version(r, v)
  OBVIOUS
<1>2. DOMAIN new = {r} /\ new[r] = v
  BY <1>1, OneVersion
<1>3. PICK y : y = Wrote(t, new, next)
  OBVIOUS
<1>4. /\ Moved(t, y) /\ Newest(y.mine, new, tx[t].mine)
      /\ y.pc = next.pc /\ y.todo = next.todo /\ y.fit = next.fit /\ y.seen = next.seen
  BY <1>1, <1>2, <1>3, ChangeIs
<1>5. tx'[t] = y /\ db' = db
  BY <1>4 DEF Moved, BInv
<1>6. /\ DOMAIN y.mine = DOMAIN tx[t].mine \cup {r} /\ y.mine[r] = v
      /\ \A s \in DOMAIN tx[t].mine : s # r => y.mine[s] = tx[t].mine[s]
  BY <1>2, <1>4 DEF Newest
<1> QED
  BY <1>4, <1>5, <1>6

LEMMA ChangeToGoes ==
    ASSUME BInv, NEW t \in Requests, NEW r \in Rows, NEW v, NEW pc, Change(t, Version(r, v), To(t, pc))
    PROVE  \E y : /\ tx'[t] = y /\ db' = db
                  /\ y.pc = pc /\ y.todo = tx[t].todo /\ y.fit = tx[t].fit /\ y.seen = tx[t].seen
                  /\ DOMAIN y.mine = DOMAIN tx[t].mine \cup {r} /\ y.mine[r] = v
                  /\ \A s \in DOMAIN tx[t].mine : s # r => y.mine[s] = tx[t].mine[s]
<1>1. PICK next : next = To(t, pc)
  OBVIOUS
<1>2. /\ next.pc = pc /\ next.todo = tx[t].todo /\ next.fit = tx[t].fit /\ next.seen = tx[t].seen
      /\ next.mine = tx[t].mine /\ IsTx(next)
  BY <1>1, ToIs
<1>3. Change(t, Version(r, v), next)
  BY <1>1
<1> QED
  BY <1>2, <1>3, ChangeGoes

LEMMA RefuseGoes ==
    ASSUME BInv, NEW t \in Requests, Refuse(t)
    PROVE  tx'[t].pc = "failed" /\ db' = db
<1>1. Blank("failed").pc = "failed"
  BY BlankIs
<1> QED
  BY <1>1, RefuseIs DEF Moved, BInv

\* Which request takes which step.
LEMMA Kinds ==
    ASSUME BInv, NEW t \in Requests, StepBy(t)
    PROVE  \/ Finish(t) \/ Refuse(t)
           \/ FormStep(t) /\ job[t].do = "save"
           \/ OpenPage(t) /\ job[t].do = "edit"
           \/ bump_config_version(t) /\ job[t].do \in Raisers
           \/ /\ FindTarget(t) \/ LockTarget(t) \/ FindOwners(t) \/ LockOwner(t) \/ AnotherOwner(t)
              /\ job[t].do \in {"edit", "off", "on", "delete"} /\ job[t].row \in Accounts
           \/ create_user(t) /\ job[t].do = "create" /\ job[t].row \in Accounts
           \/ update_user(t) /\ job[t].do = "edit" /\ job[t].row \in Accounts
           \/ SwitchUser(t) /\ job[t].do \in {"off", "on", "delete"} /\ job[t].row \in Accounts
           \/ RoleStep(t) /\ job[t].row \in Roles /\ job[t].do \in {"create", "edit", "off", "on", "delete"}
           \/ FeatureActs(t) /\ job[t].do \in {"mark", "switch", "save", "reorder"}
           \/ (update_settings(t) \/ update_delivery_charges(t)) /\ job[t].do \in {"business", "delivery"}
           \/ update_profile_info(t) /\ job[t].do = "profile"
           \/ set_first_password(t) /\ job[t].do = "first"
           \/ change_password(t) /\ job[t].do = "send"
           \/ forgot_password(t) /\ job[t].do = "forgot"
           \/ verify_otp_for_password_change(t) /\ job[t].do = "verify"
           \/ reset_password(t) /\ job[t].do = "reset"
           \/ guest_sign_in(t) /\ job[t].do = "guest" /\ job[t].row \in Guests
           \/ CacheStep(t) /\ job[t].do \in {"enter", "settings", "may", "info"}
<1>1. Stands(tx[t], job[t]) /\ Form(job[t])
  BY About DEF Knows
<1>2. CASE FormStep(t)
  BY <1>1, <1>2 DEF FormStep, OpenForm, LockForm, RefuseStale, At, Do, Form, Stands
<1>3. CASE OpenPage(t)
  BY <1>3 DEF OpenPage, Do
<1>4. CASE bump_config_version(t)
  BY <1>1, <1>4 DEF bump_config_version, At, Stands, Raisers
<1>5. CASE AccountStep(t)
  <2>1. CASE FindTarget(t) \/ LockTarget(t) \/ FindOwners(t) \/ LockOwner(t) \/ AnotherOwner(t)
    BY <1>1, <2>1 DEF FindTarget, LockTarget, FindOwners, LockOwner, AnotherOwner, At, Stands, Row
  <2>2. CASE create_user(t)
    BY <2>2 DEF create_user, Asks, Do, Row
  <2>3. CASE update_user(t)
    BY <2>3 DEF update_user, Asks, Do, Row
  <2>4. CASE switch_user_status(t) \/ delete_user(t)
    BY <2>4 DEF switch_user_status, delete_user, SwitchUser, Do, Row
  <2> QED
    BY <1>5, <2>1, <2>2, <2>3, <2>4 DEF AccountStep
<1>6. CASE RoleStep(t)
  BY <1>1, <1>6 DEF RoleStep, LockRole, create_role, update_role, switch_role_status, delete_role, Asks, Do, Row, At, Stands
<1>7. CASE FeatureActs(t)
  BY <1>7 DEF FeatureActs, mark_action_sensitive, switch_feature, update_feature_details, reorder_features, Asks, Do
<1>8. CASE update_settings(t) \/ update_delivery_charges(t)
  BY <1>8 DEF update_settings, update_delivery_charges, SaveColumns, Do
<1>9. CASE PasswordStep(t)
  BY <1>9 DEF PasswordStep, update_profile_info, set_first_password, change_password, forgot_password,
              verify_otp_for_password_change, reset_password, Asks, Do
<1>10. CASE guest_sign_in(t)
  BY <1>10 DEF guest_sign_in, Asks, Do, Row
<1>11. CASE CacheStep(t)
  BY <1>11 DEF CacheStep, requirePermission, getSettings, permissions_for, get_user_info, Do
<1> QED
  BY <1>2, <1>3, <1>4, <1>5, <1>6, <1>7, <1>8, <1>9, <1>10, <1>11 DEF StepBy, AdminStep, OwnStep

\* A step that no other request notices.
Unseen(t) == db' = db /\ job' = job /\ \A u \in Requests : u # t => tx'[u] = tx[u]

LEMMA UnseenIs ==
    ASSUME BInv, NEW t \in Requests
    PROVE  /\ \A next : Look(t, next) => Unseen(t)
           /\ \A new, next : Change(t, new, next) => Unseen(t)
           /\ Refuse(t) => Unseen(t)
           /\ \A pc : Leave(t, pc) => Unseen(t)
<1>1. ASSUME NEW next, Look(t, next)
      PROVE  Unseen(t)
  BY <1>1, LookGoes DEF Unseen
<1>2. ASSUME NEW new, NEW next, Change(t, new, next)
      PROVE  Unseen(t)
  BY <1>2 DEF Change, Write, BInv, Unseen
<1>3. ASSUME Refuse(t)
      PROVE  Unseen(t)
  BY <1>3, RefuseIs DEF Moved, Unseen, BInv
<1>4. ASSUME NEW pc, Leave(t, pc)
      PROVE  Unseen(t)
  BY <1>4, LeaveIs DEF Moved, Unseen, BInv
<1> QED
  BY <1>1, <1>2, <1>3, <1>4

LEMMA AdminUnseen ==
    ASSUME BInv, NEW t \in Requests, FormStep(t) \/ AdminStep(t)
    PROVE  Unseen(t)
<1>1. CASE FormStep(t)
  BY <1>1, UnseenIs DEF FormStep, OpenForm, LockForm, RefuseStale
<1>2. CASE OpenPage(t) \/ bump_config_version(t)
  BY <1>2, UnseenIs DEF OpenPage, bump_config_version
<1>3. ASSUME NEW pc, ReadCaller(t, pc)
      PROVE  Unseen(t)
  BY <1>3, UnseenIs DEF ReadCaller
<1>4. CASE FindTarget(t) \/ LockTarget(t) \/ FindOwners(t) \/ LockOwner(t) \/ AnotherOwner(t)
  BY <1>4, UnseenIs DEF FindTarget, LockTarget, FindOwners, LockOwner, AnotherOwner
<1>5. ASSUME NEW pc, read_role(t, pc) \/ Spare(t, pc)
      PROVE  Unseen(t)
  BY <1>5, UnseenIs DEF read_role, Spare
<1>6. CASE create_user(t)
  BY <1>3, <1>5, <1>6, UnseenIs DEF create_user
<1>7. CASE update_user(t)
  BY <1>3, <1>5, <1>7, UnseenIs DEF update_user
<1>8. CASE switch_user_status(t) \/ delete_user(t)
  BY <1>3, <1>5, <1>8, UnseenIs DEF switch_user_status, delete_user, SwitchUser
<1>9. CASE LockRole(t) \/ create_role(t)
  BY <1>3, <1>9, UnseenIs DEF LockRole, create_role
<1>10. CASE update_role(t) \/ switch_role_status(t) \/ delete_role(t)
  BY <1>3, <1>10, UnseenIs DEF update_role, switch_role_status, delete_role
<1>11. ASSUME NEW new, Set(t, new)
       PROVE  Unseen(t)
  BY <1>11, UnseenIs DEF Set
<1>12. CASE mark_action_sensitive(t) \/ switch_feature(t)
  BY <1>11, <1>12, UnseenIs DEF mark_action_sensitive, switch_feature
<1>13. CASE update_feature_details(t)
  BY <1>13, UnseenIs DEF update_feature_details, Save
<1>14. CASE reorder_features(t)
  BY <1>14, UnseenIs DEF reorder_features, StartGroup, LockFeature, Compare, Rewrite
<1>15. CASE update_settings(t) \/ update_delivery_charges(t)
  BY <1>15, UnseenIs DEF update_settings, update_delivery_charges, SaveColumns
<1> QED
  BY <1>1, <1>2, <1>4, <1>6, <1>7, <1>8, <1>9, <1>10, <1>12, <1>13, <1>14, <1>15
     DEF AdminStep, AccountStep, RoleStep, FeatureActs

LEMMA CacheUnseen ==
    ASSUME BInv, NEW t \in Requests, CacheStep(t)
    PROVE  Unseen(t)
<1>1. CASE requirePermission(t)
  BY <1>1, UnseenIs, requirePermissionIs, switched_offIs DEF ReadsOn
<1>2. CASE getSettings(t)
  BY <1>2, UnseenIs, getSettingsIs DEF ReadsOn
<1>3. CASE permissions_for(t)
  BY <1>3, UnseenIs, permissions_forIs DEF ReadsOn
<1>4. CASE get_user_info(t)
  BY <1>4, UnseenIs, get_user_infoIs, switched_offIs, LoadPartIs DEF ReadsOn
<1> QED
  BY <1>1, <1>2, <1>3, <1>4 DEF CacheStep

\* Statements of no transaction write codes and counts of requests, and no code twice.
Aside(t) ==
    /\ job' = job /\ \A u \in Requests : u # t => tx'[u] = tx[u]
    /\ db' = [r \in Rows |-> db'[r]]
    /\ \A r \in Rows : lock[r] \notin {t, NoRequest} => db'[r] = db[r]
    /\ \A r \in AdminRows : db'[r] = db[r]
    /\ db'[GuestDesk] = db[GuestDesk]
    /\ \A c \in OneTimeCodes : db[c].is = "Inactive" => db'[c].is = "Inactive"

LEMMA UnseenAside ==
    ASSUME BInv, NEW t \in Requests, Unseen(t)
    PROVE  Aside(t)
BY DEF BInv, Unseen, Aside

LEMMA OnceAside ==
    ASSUME BInv, NEW t \in Requests, NEW new, NEW next, Once(t, new, next), DOMAIN new \subseteq OwnRows \ {GuestDesk},
           \A c \in OneTimeCodes \cap DOMAIN new : db[c].is = "Inactive" => new[c].is = "Inactive"
    PROVE  Aside(t)
<1>1. /\ tx' = [tx EXCEPT ![t] = next] /\ job' = job /\ \A r \in DOMAIN new : lock[r] = NoRequest
      /\ db' = new ++ db
  BY DEF Once
<1>2. Newest(db', new, db)
  BY <1>1, NewestCounts
<1>3. db' = [r \in Rows |-> db'[r]] /\ \A r \in Rows : db'[r] = IF r \in DOMAIN new THEN new[r] ELSE db[r]
  BY <1>2, OwnAccountAssumption DEF Newest, BInv
<1>4. \A r \in AdminRows : r \notin OwnRows /\ r \in Rows
  BY AdminAssumption, OwnAccountAssumption
<1>5. \A r \in AdminRows : db'[r] = db[r]
  BY <1>3, <1>4
<1>6. db'[GuestDesk] = db[GuestDesk]
  BY <1>3, RowsAre
<1>7. \A r \in Rows : lock[r] \notin {t, NoRequest} => db'[r] = db[r]
  BY <1>1, <1>3
<1>8. \A c \in OneTimeCodes : db[c].is = "Inactive" => db'[c].is = "Inactive"
  BY <1>3, RowsAre
<1>9. \A u \in Requests : u # t => tx'[u] = tx[u]
  BY <1>1 DEF BInv
<1> QED
  BY <1>1, <1>3, <1>5, <1>6, <1>7, <1>8, <1>9 DEF Aside

LEMMA OnceOneAside ==
    ASSUME BInv, NEW t \in Requests, NEW r \in OwnRows \ {GuestDesk}, NEW v, NEW next, Once(t, Version(r, v), next),
           r \in OneTimeCodes /\ db[r].is = "Inactive" => v.is = "Inactive"
    PROVE  Aside(t)
<1>1. PICK new : new = Version(r, v)
  OBVIOUS
<1>2. DOMAIN new = {r} /\ new[r] = v
  BY <1>1, OneVersion
<1>3. Once(t, new, next)
  BY <1>1
<1> QED
  BY <1>2, <1>3, OnceAside

LEMMA check_rate_limitAside ==
    ASSUME BInv, NEW t \in Requests, NEW b \in Buckets, NEW pc, check_rate_limit(t, b, pc)
    PROVE  Aside(t)
<1>1. Throttle[b] \in OwnRows \ {GuestDesk} /\ Throttle[b] \notin OneTimeCodes
  BY RowsAre, TablesDiffer
<1>2. CASE \E next : Look(t, next)
  BY <1>2, UnseenIs, UnseenAside
<1>3. CASE Leave(t, "failed")
  BY <1>3, UnseenIs, UnseenAside
<1>4. CASE Once(t, Version(Throttle[b], db[Throttle[b]] + 1), To(t, pc))
  BY <1>1, <1>4, OnceOneAside
<1> QED
  BY <1>2, <1>3, <1>4 DEF check_rate_limit

LEMMA save_generated_otpAside ==
    ASSUME BInv, NEW t \in Requests, save_generated_otp(t), job[t].do \in {"send", "forgot"}
    PROVE  Aside(t)
<1>1. OneTimeCodes \subseteq OwnRows \ {GuestDesk}
  BY RowsAre, TablesDiffer
<1>2. CASE Once(t, [c \in Live(t, Row(t)) |-> [db[c] EXCEPT !.is = "Inactive"]], To(t, "store"))
  <2>1. PICK new : new = [c \in Live(t, Row(t)) |-> [db[c] EXCEPT !.is = "Inactive"]]
    OBVIOUS
  <2>2. DOMAIN new \subseteq OneTimeCodes /\ \A c \in DOMAIN new : new[c] = [db[c] EXCEPT !.is = "Inactive"]
    BY <2>1 DEF Live
  <2>3. \A c \in DOMAIN new : new[c].is = "Inactive"
    <3>1. \A c \in OneTimeCodes : db[c] \in CodeType
      BY SeenCode
    <3> QED
      BY <2>2, <3>1 DEF CodeType
  <2> QED
    BY <1>1, <1>2, <2>1, <2>2, <2>3, OnceAside
<1>3. CASE /\ IsNew(t, Sent(t).code)
           /\ Once(t, Version(Sent(t).code, [is |-> "Active", of |-> Row(t), at |-> Cardinality(Sent_(Row(t))),
                                             live |-> TRUE, tries |-> 0]), Blank("done"))
  <2>1. Sent(t).code \in OneTimeCodes
    BY About DEF Form, Sent
  <2>2. db[Sent(t).code].is # "Inactive"
    <3>1. DOMAIN tx[t].mine = {}
      BY About DEF Knows, Idle
    <3>2. View(t, Sent(t).code) = db[Sent(t).code]
      BY <2>1, <3>1, About, RowsAre
    <3> QED
      BY <1>3, <3>2 DEF IsNew
  <2> QED
    BY <1>1, <1>3, <2>1, <2>2, OnceOneAside
<1> QED
  BY <1>2, <1>3 DEF save_generated_otp

LEMMA CountWrongAside ==
    ASSUME BInv, NEW t \in Requests, NEW c \in OneTimeCodes, CountWrong(t, c)
    PROVE  Aside(t)
<1>1. OneTimeCodes \subseteq OwnRows \ {GuestDesk}
  BY RowsAre, TablesDiffer
<1>2. PICK v : v = [db[c] EXCEPT !.tries = @ + 1]
  OBVIOUS
<1>3. v.is = db[c].is
  BY <1>2, SeenCode DEF CodeType
<1>4. Once(t, Version(c, v), Blank("failed"))
  BY <1>2 DEF CountWrong
<1> QED
  BY <1>1, <1>3, <1>4, OnceOneAside

LEMMA OwnAside ==
    ASSUME BInv, NEW t \in Requests, OwnStep(t)
    PROVE  Aside(t)
<1>1. ASSUME Unseen(t)
      PROVE  Aside(t)
  BY <1>1, UnseenAside
<1>2. ASSUME NEW b \in Buckets, NEW pc, check_rate_limit(t, b, pc)
      PROVE  Aside(t)
  BY <1>2, check_rate_limitAside
<1>3. {"send", "forgot", "reset", "first", "guest"} \subseteq Buckets
  BY DEF Buckets
<1>4. CASE update_profile_info(t)
  BY <1>1, <1>4, UnseenIs DEF update_profile_info, Press
<1>5. CASE set_first_password(t)
  BY <1>1, <1>2, <1>3, <1>5, UnseenIs DEF set_first_password
<1>6. CASE change_password(t)
  BY <1>1, <1>2, <1>3, <1>6, save_generated_otpAside, UnseenIs DEF change_password, Do
<1>7. CASE forgot_password(t)
  BY <1>1, <1>2, <1>3, <1>7, save_generated_otpAside, UnseenIs DEF forgot_password, Do
<1>8. CASE verify_otp_for_password_change(t)
  <2>1. Sent(t).code \in OneTimeCodes
    BY <1>8, About DEF Form, Sent, verify_otp_for_password_change, Do
  <2>2. CASE CountWrong(t, Sent(t).code)
    BY <2>1, <2>2, CountWrongAside
  <2>3. CASE LockCode(t) \/ FindLive(t) \/ Spend(t) \/ AllSpent(t, "write")
    BY <1>1, <2>3, UnseenIs DEF LockCode, FindLive, Spend, AllSpent
  <2> QED
    BY <1>1, <1>8, <2>2, <2>3, UnseenIs DEF verify_otp_for_password_change
<1>9. CASE reset_password(t)
  <2>1. CASE CountWrong(t, tx[t].fit)
    <3>1. tx[t].fit \in OneTimeCodes
      BY <1>9, <2>1, About DEF CountWrong, reset_password, Do, At, Knows, Stands
    <3> QED
      BY <2>1, <3>1, CountWrongAside
  <2>2. CASE FindLive(t) \/ Spend(t) \/ AllSpent(t, "commit")
    BY <1>1, <2>2, UnseenIs DEF FindLive, Spend, AllSpent
  <2> QED
    BY <1>1, <1>2, <1>3, <1>9, <2>1, <2>2, UnseenIs DEF reset_password
<1>10. CASE guest_sign_in(t)
  <2>1. CASE EndVisits(t) \/ TakeDesk(t)
    BY <1>1, <2>1, UnseenIs DEF EndVisits, TakeDesk
  <2> QED
    BY <1>1, <1>2, <1>3, <1>10, <2>1, UnseenIs DEF guest_sign_in
<1> QED
  BY <1>4, <1>5, <1>6, <1>7, <1>8, <1>9, <1>10 DEF OwnStep, PasswordStep

\* What a request's step leaves to the others, and what it may have done to the tables.
Leaves(t) ==
    /\ job' = job /\ \A u \in Requests : u # t => tx'[u] = tx[u]
    /\ db' = [r \in Rows |-> db'[r]]
    /\ \A r \in Rows : lock[r] \notin {t, NoRequest} => db'[r] = db[r]
    /\ \A a \in Accounts : Moves(db[a], db'[a], job[t], a)
    /\ \A f \in Features : job[t].do # "reorder" => db'[f].position = db[f].position
    /\ \A c \in OneTimeCodes : db[c].is = "Inactive" => db'[c].is = "Inactive"

LEMMA AsideOrFinish ==
    ASSUME BInv, NEW t \in Requests, StepBy(t)
    PROVE  Finish(t) \/ Aside(t)
BY AdminUnseen, CacheUnseen, OwnAside, UnseenAside, UnseenIs DEF StepBy

LEMMA FinishLeaves ==
    ASSUME BInv, NEW t \in Requests, Finish(t)
    PROVE  Leaves(t)
<1>1. PICK rows : rows = db'
  OBVIOUS
<1>2. /\ Changed(t, Blank("done"), rows) /\ rows = [r \in Rows |-> rows[r]]
      /\ \A r \in Rows : rows[r] = IF r \in DOMAIN tx[t].mine THEN tx[t].mine[r] ELSE db[r]
  BY <1>1, FinishIs
<1>3. \A r \in DOMAIN tx[t].mine : r = ConfigVersion \/ Fair(db, r, tx[t].mine[r], job[t])
  BY About DEF Knows
<1>4. \A r \in Rows : lock[r] \notin {t, NoRequest} => rows[r] = db[r]
  BY <1>2, About
<1>5. \A a \in Accounts : Moves(db[a], rows[a], job[t], a)
  <2>1. ASSUME NEW a \in Accounts, a \in DOMAIN tx[t].mine
        PROVE  Moves(db[a], rows[a], job[t], a)
    BY <1>2, <1>3, <2>1, RowsAre, TablesDiffer DEF Fair
  <2>2. ASSUME NEW a \in Accounts, a \notin DOMAIN tx[t].mine
        PROVE  Moves(db[a], rows[a], job[t], a)
    BY <1>2, <2>2, RowsAre DEF Moves
  <2> QED
    BY <2>1, <2>2
<1>6. \A f \in Features : job[t].do # "reorder" => rows[f].position = db[f].position
  BY <1>2, <1>3, RowsAre, TablesDiffer DEF Fair
<1>7. \A c \in OneTimeCodes : db[c].is = "Inactive" => rows[c].is = "Inactive"
  BY <1>2, <1>3, RowsAre, TablesDiffer DEF Fair
<1>8. job' = job /\ \A u \in Requests : u # t => tx'[u] = tx[u]
  BY <1>2 DEF Changed, BInv
<1> QED
  BY <1>1, <1>2, <1>4, <1>5, <1>6, <1>7, <1>8 DEF Leaves

LEMMA StepLeaves ==
    ASSUME BInv, NEW t \in Requests, StepBy(t)
    PROVE  Leaves(t)
<1>1. CASE Finish(t)
  BY <1>1, FinishLeaves
<1>2. CASE Aside(t)
  BY <1>2, RowsAre DEF Aside, Leaves, Moves
<1> QED
  BY <1>1, <1>2, AsideOrFinish

-----------------------------------------------------------------------------
(* Owners *)

IsOwnerRow(v) == v.is = "Active" /\ v.role = Owner

\* The requests that may take an owner away: they change account j.row.
Threatens(j) == j.do \in {"edit", "off", "delete"} /\ j.row \in Accounts

\* Another active owner is locked, if the account is one.
Safe(rows, x, a) ==
    IsOwnerRow(rows[a]) => \E b \in Accounts \cap DOMAIN x.mine : b # a /\ x.mine[b] = rows[b] /\ IsOwnerRow(rows[b])

\* What such a request knows on its way.
Spares(rows, x, j) ==
    Threatens(j) =>
        /\ x.pc \in {"caller", "find", "target"} => DOMAIN x.mine = {}
        /\ x.pc = "target" => rows[j.row].is # "None" /\ (rows[j.row].role = Owner => Owner \in x.fit)
        /\ x.pc \in {"decide", "owners", "lock_owners", "role", "write"} =>
                j.row \in DOMAIN x.mine /\ \A b \in DOMAIN x.mine : x.mine[b] = rows[b]
        /\ x.pc = "decide" /\ rows[j.row].role = Owner => Owner \in x.fit
        /\ x.pc = "owners" => x.fit = {}
        /\ x.pc = "lock_owners" => \A b \in x.fit : b \in Accounts \cap DOMAIN x.mine /\ IsOwnerRow(rows[b])
        /\ x.pc \in {"role", "write"} => Safe(rows, x, j.row) \/ (j.do = "edit" /\ j.to.role = rows[j.row].role)
        /\ x.pc \in {"bump", "commit"} =>
                j.row \in DOMAIN x.mine /\ (Safe(rows, x, j.row) \/ IsOwnerRow(x.mine[j.row]))

NobodyMakesOwner == \A t \in Requests : ~MakesOwner(t)

OwnersInv ==
    NobodyMakesOwner =>
        /\ ActiveOwners # {}
        /\ \A g \in Guests : db[g].role # Owner
        /\ \A t \in Requests : Spares(db, tx[t], job[t])

\* Elsewhere it knows nothing of owners.
LEMMA PlainSpares ==
    ASSUME NEW rows, NEW y, NEW j,
           y.pc \notin {"caller", "find", "target", "decide", "owners", "lock_owners", "role", "write", "bump", "commit"}
    PROVE  Spares(rows, y, j)
BY DEF Spares

LEMMA RefuseSpares ==
    ASSUME BInv, NEW t \in Requests, Refuse(t)
    PROVE  Spares(db, tx'[t], job[t])
BY RefuseGoes, PlainSpares

\* Before it locks anything it sees what is committed, and later what it has locked and not changed.
LEMMA SparesSees ==
    ASSUME BInv, NEW t \in Requests, Threatens(job[t]), Spares(db, tx[t], job[t]),
           tx[t].pc \in {"begin", "caller", "find", "target", "decide", "owners", "lock_owners", "role", "write"}
    PROVE  /\ \A r \in Rows : View(t, r) = db[r]
           /\ Own(t) = db[job[t].row] /\ job[t].row \in Accounts /\ job[t].row \in Rows /\ Row(t) = job[t].row
           /\ Accounts \subseteq Rows
<1>1. Idle(tx[t], job[t]) => DOMAIN tx[t].mine = {}
  BY About DEF Knows
<1>2. \A b \in DOMAIN tx[t].mine : tx[t].mine[b] = db[b]
  BY <1>1 DEF Spares, Idle
<1>3. \A r \in Rows : View(t, r) = db[r]
  BY <1>2, About
<1>4. job[t].row \in Accounts /\ job[t].row \in Rows /\ Row(t) = job[t].row /\ Accounts \subseteq Rows
  BY RowsAre DEF Threatens, Row
<1> QED
  BY <1>3, <1>4 DEF Own

\* A request that has not locked anything yet.
LEMMA EarlySpares ==
    ASSUME BInv, NEW t \in Requests, NEW next, NEW pc, Look(t, next), next.mine = tx[t].mine, next.pc \in {"caller", "find"},
           Threatens(job[t]), Spares(db, tx[t], job[t]), tx[t].pc \in {"begin", "caller"}
    PROVE  Spares(db, tx'[t], job[t])
<1>1. PICK y : y = tx'[t] /\ y = next
  BY LookGoes
<1>2. DOMAIN tx[t].mine = {}
  BY About DEF Spares, Knows, Idle
<1>3. Spares(db, y, job[t])
  BY <1>1, <1>2 DEF Spares
<1> QED
  BY <1>1, <1>3

LEMMA ReadCallerSpares ==
    ASSUME BInv, NEW t \in Requests, ReadCaller(t, "find"), Threatens(job[t]), Spares(db, tx[t], job[t])
    PROVE  Spares(db, tx'[t], job[t])
<1>1. PICK v : v = [held |-> Held(By(t)), system |-> db[By(t)].role = SystemAdmin,
                    version |-> IF Do(t) = "edit" THEN tx[t].seen.version ELSE 0]
  OBVIOUS
<1>2. PICK next : next = [To(t, "find") EXCEPT !.seen = v] /\ Look(t, next)
  BY <1>1 DEF ReadCaller
<1>3. next.mine = tx[t].mine /\ next.pc = "find"
  BY <1>2, ToIs, WithSeen
<1>4. tx[t].pc \in {"begin", "caller"}
  BY DEF ReadCaller, At
<1> QED
  BY <1>2, <1>3, <1>4, EarlySpares

LEMMA OpenPageSpares ==
    ASSUME BInv, NEW t \in Requests, OpenPage(t), Threatens(job[t]), Spares(db, tx[t], job[t])
    PROVE  Spares(db, tx'[t], job[t])
<1>1. PICK v : v = [version |-> db[Row(t)].version]
  OBVIOUS
<1>2. PICK next : next = [To(t, "caller") EXCEPT !.seen = v] /\ Look(t, next) /\ tx[t].pc = "begin"
  BY <1>1 DEF OpenPage, At
<1>3. next.mine = tx[t].mine /\ next.pc = "caller"
  BY <1>2, ToIs, WithSeen
<1> QED
  BY <1>2, <1>3, EarlySpares

LEMMA FindTargetSpares ==
    ASSUME BInv, NEW t \in Requests, FindTarget(t), Threatens(job[t]), Spares(db, tx[t], job[t])
    PROVE  Spares(db, tx'[t], job[t])
<1>1. CASE Refuse(t)
  BY <1>1, RefuseSpares
<1>2. CASE ~Refuse(t)
  <2>1. PICK next, v : /\ v = {db[Row(t)].role} /\ next = [To(t, "target") EXCEPT !.fit = v] /\ Look(t, next)
                       /\ tx[t].pc = "find" /\ db[Row(t)].is # "None"
    BY <1>2 DEF FindTarget, At
  <2>2. next.mine = tx[t].mine /\ next.pc = "target" /\ next.fit = v
    BY <2>1, ToIs, WithFit
  <2>3. PICK y : y = tx'[t] /\ y = next
    BY <2>1, LookGoes
  <2>4. DOMAIN tx[t].mine = {}
    BY <2>1 DEF Spares
  <2>5. Spares(db, y, job[t])
    BY <2>1, <2>2, <2>3, <2>4 DEF Spares, Row
  <2> QED
    BY <2>3, <2>5
<1> QED
  BY <1>1, <1>2

LEMMA LockTargetSpares ==
    ASSUME BInv, NEW t \in Requests, LockTarget(t), Threatens(job[t]), Spares(db, tx[t], job[t])
    PROVE  Spares(db, tx'[t], job[t])
<1>1. PICK x : x = To(t, "decide") /\ x.fit = tx[t].fit /\ x.mine = tx[t].mine /\ x.pc = "decide" /\ IsTx(x)
  BY ToIs
<1>2. PICK v, next : v = x.fit \cap {db[Row(t)].role} /\ next = [x EXCEPT !.fit = v]
  OBVIOUS
<1>3. Change(t, Version(Row(t), db[Row(t)]), next) /\ tx[t].pc = "target"
  BY <1>1, <1>2 DEF LockTarget, At
<1>4. next.mine = tx[t].mine /\ next.pc = "decide" /\ next.fit = v /\ IsTx(next)
  BY <1>1, <1>2, WithFit
<1>5. Row(t) = job[t].row /\ job[t].row \in Rows
  BY <1>3, SparesSees
<1>6. PICK y : /\ tx'[t] = y /\ y.pc = "decide" /\ y.fit = v
               /\ DOMAIN y.mine = DOMAIN tx[t].mine \cup {Row(t)} /\ y.mine[Row(t)] = db[Row(t)]
  BY <1>3, <1>4, <1>5, ChangeGoes
<1>7. DOMAIN tx[t].mine = {} /\ (db[job[t].row].role = Owner => Owner \in tx[t].fit)
  BY <1>3 DEF Spares
<1>8. Spares(db, y, job[t])
  BY <1>1, <1>2, <1>5, <1>6, <1>7 DEF Spares
<1> QED
  BY <1>6, <1>8

LEMMA FindOwnersSpares ==
    ASSUME BInv, NEW t \in Requests, FindOwners(t), Threatens(job[t]), Spares(db, tx[t], job[t])
    PROVE  Spares(db, tx'[t], job[t])
<1>1. PICK owners : owners = {a \in Accounts : IsOwner(t, a)}
  OBVIOUS
<1>2. PICK next : next = [To(t, "lock_owners") EXCEPT !.todo = owners] /\ Look(t, next) /\ tx[t].pc = "owners"
  BY <1>1 DEF FindOwners, At
<1>3. next.mine = tx[t].mine /\ next.pc = "lock_owners" /\ next.fit = tx[t].fit
  BY <1>2, ToIs, WithTodo
<1>4. PICK y : y = tx'[t] /\ y = next
  BY <1>2, LookGoes
<1>5. Spares(db, y, job[t])
  BY <1>2, <1>3, <1>4 DEF Spares
<1> QED
  BY <1>4, <1>5

LEMMA LockOwnerSpares ==
    ASSUME BInv, NEW t \in Requests, LockOwner(t), Threatens(job[t]), Spares(db, tx[t], job[t])
    PROVE  Spares(db, tx'[t], job[t])
<1>0. PICK a \in tx[t].todo : \E next :
            /\ Change(t, Version(a, View(t, a)), next) /\ a \in Accounts
            /\ next.pc = "lock_owners" /\ next.mine = tx[t].mine /\ IsTx(next)
            /\ next.fit = IF IsOwner(t, a) THEN tx[t].fit \cup {a} ELSE tx[t].fit
  BY LockOwnerIs
<1>1. PICK next :
            /\ Change(t, Version(a, View(t, a)), next) /\ a \in Accounts
            /\ next.pc = "lock_owners" /\ next.mine = tx[t].mine /\ IsTx(next)
            /\ next.fit = IF IsOwner(t, a) THEN tx[t].fit \cup {a} ELSE tx[t].fit
  BY <1>0
<1>2. tx[t].pc = "lock_owners"
  BY DEF LockOwner, At
<1>3. View(t, a) = db[a] /\ a \in Rows
  BY <1>1, <1>2, SparesSees
<1>4. PICK y : /\ tx'[t] = y /\ y.pc = "lock_owners" /\ y.fit = next.fit
               /\ DOMAIN y.mine = DOMAIN tx[t].mine \cup {a} /\ y.mine[a] = View(t, a)
               /\ \A s \in DOMAIN tx[t].mine : s # a => y.mine[s] = tx[t].mine[s]
  BY <1>1, <1>3, ChangeGoes
<1>5. \A b \in y.fit : b \in Accounts \cap DOMAIN y.mine /\ IsOwnerRow(db[b])
  BY <1>1, <1>2, <1>3, <1>4 DEF Spares, IsOwner, IsOwnerRow
<1>6. Spares(db, y, job[t])
  BY <1>2, <1>3, <1>4, <1>5 DEF Spares
<1> QED
  BY <1>4, <1>6

LEMMA AnotherOwnerSpares ==
    ASSUME BInv, NEW t \in Requests, AnotherOwner(t), Threatens(job[t]), Spares(db, tx[t], job[t])
    PROVE  Spares(db, tx'[t], job[t])
<1>1. CASE Refuse(t)
  BY <1>1, RefuseSpares
<1>2. CASE ~Refuse(t)
  <2>1. PICK pc \in {"role", "write"} : Look(t, To(t, pc)) /\ tx[t].pc = "lock_owners" /\ tx[t].fit \ {Row(t)} # {}
    BY <1>2 DEF AnotherOwner, At
  <2>2. PICK y : y = tx'[t] /\ y.pc = pc /\ y.mine = tx[t].mine
    BY <2>1, LookToGoes
  <2>3. PICK b \in tx[t].fit : b # job[t].row
    BY <2>1 DEF Row
  <2>4. b \in Accounts \cap DOMAIN tx[t].mine /\ IsOwnerRow(db[b]) /\ tx[t].mine[b] = db[b]
    BY <2>1, <2>3 DEF Spares
  <2>5. Safe(db, y, job[t].row)
    BY <2>2, <2>3, <2>4 DEF Safe
  <2>6. Spares(db, y, job[t])
    BY <2>1, <2>2, <2>5 DEF Spares
  <2> QED
    BY <2>2, <2>6
<1> QED
  BY <1>1, <1>2

LEMMA SpareSpares ==
    ASSUME BInv, NEW t \in Requests, NEW pc \in {"role", "write"}, Spare(t, pc), tx[t].pc = "decide",
           Threatens(job[t]), Spares(db, tx[t], job[t])
    PROVE  Spares(db, tx'[t], job[t])
<1>1. CASE Refuse(t)
  BY <1>1, RefuseSpares
<1>2. CASE ~Refuse(t)
  <2>1. PICK p : /\ p = IF Owner \in Joined(t) /\ Own(t).is = "Active" THEN "owners" ELSE pc
                 /\ Look(t, [To(t, p) EXCEPT !.fit = {}])
    BY <1>2 DEF Spare
  <2>2. PICK next : next = [To(t, p) EXCEPT !.fit = {}]
    OBVIOUS
  <2>3. next.mine = tx[t].mine /\ next.pc = p /\ next.fit = {}
    BY <2>2, ToIs, WithFit
  <2>4. PICK y : y = tx'[t] /\ y = next
    BY <2>1, <2>2, LookGoes
  <2>5. Own(t) = db[job[t].row]
    BY SparesSees
  <2>6. p # "owners" => ~IsOwnerRow(db[job[t].row])
    BY <2>1, <2>5 DEF Spares, Joined, IsOwnerRow
  <2>7. p \in {"owners", "role", "write"}
    BY <2>1
  <2>8. Spares(db, y, job[t])
    BY <2>3, <2>4, <2>6, <2>7 DEF Spares, Safe
  <2> QED
    BY <2>4, <2>8
<1> QED
  BY <1>1, <1>2

\* It goes on reading, with what it has locked.
LEMMA OnSpares ==
    ASSUME BInv, NEW t \in Requests, NEW pc, Look(t, To(t, pc)), Threatens(job[t]), Spares(db, tx[t], job[t]),
           \/ tx[t].pc = "role" /\ pc = "write"
           \/ tx[t].pc = "decide" /\ pc = "commit"
           \/ tx[t].pc = "decide" /\ pc = "write" /\ job[t].do = "edit" /\ job[t].to.role = db[job[t].row].role
    PROVE  Spares(db, tx'[t], job[t])
<1>1. PICK y : y = tx'[t] /\ y.pc = pc /\ y.mine = tx[t].mine
  BY LookToGoes
<1>2. Safe(db, tx[t], job[t].row) => Safe(db, y, job[t].row)
  BY <1>1 DEF Safe
<1>3. pc = "commit" => Safe(db, y, job[t].row) \/ IsOwnerRow(y.mine[job[t].row])
  BY <1>1 DEF Spares, Safe
<1>4. Spares(db, y, job[t])
  BY <1>1, <1>2, <1>3 DEF Spares
<1> QED
  BY <1>1, <1>4

\* It writes its account.
LEMMA WriteSpares ==
    ASSUME BInv, NEW t \in Requests, NEW pc \in {"bump", "commit"}, NEW v, Change(t, Version(job[t].row, v), To(t, pc)),
           tx[t].pc = "write", Threatens(job[t]), Spares(db, tx[t], job[t]),
           job[t].do = "edit" /\ job[t].to.role = db[job[t].row].role => v.is = db[job[t].row].is /\ v.role = job[t].to.role
    PROVE  Spares(db, tx'[t], job[t])
<1>1. job[t].row \in Accounts /\ job[t].row \in Rows
  BY SparesSees
<1>2. PICK y : /\ tx'[t] = y /\ y.pc = pc
               /\ DOMAIN y.mine = DOMAIN tx[t].mine \cup {job[t].row} /\ y.mine[job[t].row] = v
               /\ \A s \in DOMAIN tx[t].mine : s # job[t].row => y.mine[s] = tx[t].mine[s]
  BY <1>1, ChangeToGoes
<1>3. CASE Safe(db, tx[t], job[t].row)
  <2>1. Safe(db, y, job[t].row)
    BY <1>2, <1>3 DEF Safe
  <2>2. Spares(db, y, job[t])
    BY <1>2, <2>1 DEF Spares
  <2> QED
    BY <1>2, <2>2
<1>4. CASE job[t].do = "edit" /\ job[t].to.role = db[job[t].row].role
  <2>1. Safe(db, y, job[t].row) \/ IsOwnerRow(v)
    BY <1>4 DEF Safe, IsOwnerRow
  <2>2. Spares(db, y, job[t])
    BY <1>2, <2>1 DEF Spares
  <2> QED
    BY <1>2, <2>2
<1> QED
  BY <1>3, <1>4 DEF Spares

LEMMA update_userSpares ==
    ASSUME BInv, NEW t \in Requests, update_user(t), Threatens(job[t]), Spares(db, tx[t], job[t])
    PROVE  Spares(db, tx'[t], job[t])
<1>1. job[t].do = "edit" /\ Row(t) \in Accounts
  BY DEF update_user, Asks, Do
<1>2. CASE ReadCaller(t, "find")
  BY <1>2, ReadCallerSpares
<1>3. CASE Refuse(t)
  BY <1>3, RefuseSpares
<1>4. ASSUME At(t, "decide"), Sent(t).role = Own(t).role, NEW pc \in {"write", "commit"}, Look(t, To(t, pc))
      PROVE  Spares(db, tx'[t], job[t])
  <2>1. Own(t) = db[job[t].row] /\ tx[t].pc = "decide"
    BY <1>4, SparesSees DEF At
  <2> QED
    BY <1>1, <1>4, <2>1, OnSpares DEF Sent
<1>5. CASE At(t, "decide") /\ Spare(t, "role")
  BY <1>5, SpareSpares DEF At
<1>6. CASE At(t, "role") /\ read_role(t, "write")
  BY <1>3, <1>6, OnSpares DEF At, read_role
<1>7. ASSUME At(t, "write"), NEW pc \in {"bump", "commit"},
             Change(t, Version(Row(t), Updated(Own(t), Sent(t))), To(t, pc))
      PROVE  Spares(db, tx'[t], job[t])
  <2>1. Sent(t) \in [role : Roles]
    BY <1>1, About, TablesDiffer DEF Form, Row, Sent
  <2>2. Own(t) = db[job[t].row] /\ Row(t) = job[t].row /\ Own(t) \in AccountType
    BY <1>1, <1>7, SparesSees, SeenAccount DEF At, Own
  <2>3. PICK v : v = Updated(Own(t), Sent(t))
    OBVIOUS
  <2>4. v.is = Own(t).is /\ v.role = Sent(t).role
    BY <2>1, <2>2, <2>3, UpdatedRole
  <2>5. Change(t, Version(job[t].row, v), To(t, pc)) /\ tx[t].pc = "write"
    BY <1>7, <2>2, <2>3 DEF At
  <2>6. v.is = db[job[t].row].is /\ v.role = job[t].to.role
    BY <2>2, <2>4 DEF Sent
  <2> QED
    BY <2>5, <2>6, WriteSpares
<1> QED
  BY <1>2, <1>3, <1>4, <1>5, <1>6, <1>7 DEF update_user

LEMMA SwitchUserSpares ==
    ASSUME BInv, NEW t \in Requests, SwitchUser(t), Threatens(job[t]), Spares(db, tx[t], job[t]), job[t].do # "edit"
    PROVE  Spares(db, tx'[t], job[t])
<1>1. job[t].do # "on"
  BY DEF Threatens
<1>2. CASE ReadCaller(t, "find")
  BY <1>2, ReadCallerSpares
<1>3. CASE Refuse(t)
  BY <1>3, RefuseSpares
<1>4. CASE At(t, "decide") /\ Look(t, To(t, "commit"))
  BY <1>4, OnSpares DEF At
<1>5. CASE At(t, "decide") /\ Spare(t, "write")
  BY <1>5, SpareSpares DEF At
<1>6. CASE At(t, "write") /\ Change(t, Version(Row(t), Updated(Own(t), [is |-> Becomes(t)])), To(t, "commit"))
  <2>1. PICK v : v = Updated(Own(t), [is |-> Becomes(t)])
    OBVIOUS
  <2>2. Change(t, Version(job[t].row, v), To(t, "commit")) /\ tx[t].pc = "write"
    BY <1>6, <2>1 DEF At, Row
  <2> QED
    BY <2>2, WriteSpares
<1> QED
  BY <1>1, <1>2, <1>3, <1>4, <1>5, <1>6 DEF SwitchUser, Do

LEMMA BumpSpares ==
    ASSUME BInv, NEW t \in Requests, bump_config_version(t), Threatens(job[t]), Spares(db, tx[t], job[t])
    PROVE  Spares(db, tx'[t], job[t])
<1>1. PICK v : v = View(t, ConfigVersion) + 1
  OBVIOUS
<1>2. Change(t, Version(ConfigVersion, v), To(t, "commit")) /\ tx[t].pc = "bump"
  BY <1>1 DEF bump_config_version, At
<1>3. \A a \in Accounts : a # ConfigVersion
  BY TablesDiffer
<1>4. PICK y : /\ tx'[t] = y /\ y.pc = "commit"
               /\ DOMAIN y.mine = DOMAIN tx[t].mine \cup {ConfigVersion} /\ y.mine[ConfigVersion] = v
               /\ \A s \in DOMAIN tx[t].mine : s # ConfigVersion => y.mine[s] = tx[t].mine[s]
  BY <1>2, RowsAre, ChangeToGoes
<1>5. Safe(db, tx[t], job[t].row) => Safe(db, y, job[t].row)
  BY <1>3, <1>4 DEF Safe
<1>6. Spares(db, y, job[t])
  BY <1>2, <1>3, <1>4, <1>5 DEF Spares, Threatens
<1> QED
  BY <1>4, <1>6

\* Its own steps.
LEMMA StepSpares ==
    ASSUME BInv, NEW t \in Requests, StepBy(t), ~Finish(t), Spares(db, tx[t], job[t])
    PROVE  Spares(db, tx'[t], job[t])
<1>1. CASE ~Threatens(job[t])
  BY <1>1 DEF Spares
<1>2. CASE Threatens(job[t])
  <2>1. job[t].do \in {"edit", "off", "delete"} /\ job[t].row \in Accounts
    BY <1>2 DEF Threatens
  <2>2. job[t].row \notin Roles
    BY <2>1, TablesDiffer
  <2>3. \/ Refuse(t) \/ OpenPage(t) \/ bump_config_version(t) \/ FindTarget(t) \/ LockTarget(t) \/ FindOwners(t) \/ LockOwner(t)
        \/ AnotherOwner(t) \/ update_user(t) \/ (SwitchUser(t) /\ job[t].do # "edit")
    BY <2>1, <2>2, Kinds
  <2> QED
    BY <1>2, <2>3, RefuseSpares, OpenPageSpares, BumpSpares, FindTargetSpares, LockTargetSpares, FindOwnersSpares,
       LockOwnerSpares, AnotherOwnerSpares, update_userSpares, SwitchUserSpares
<1> QED
  BY <1>1, <1>2

\* What it knows outlives what others do.
LEMMA SparesOutlives ==
    ASSUME NEW rows, NEW new, NEW x, NEW j, Spares(rows, x, j), \A r \in DOMAIN x.mine : new[r] = rows[r],
           \A a \in Accounts : rows[a].is # "None" => new[a].is # "None" /\ (new[a].role = Owner => rows[a].role = Owner)
    PROVE  Spares(new, x, j)
<1>1. \A a \in DOMAIN x.mine : Safe(rows, x, a) => Safe(new, x, a)
  BY DEF Safe
<1> QED
  BY <1>1 DEF Spares, Threatens

\* Who is nobody's owner before is none after, unless an account is created.
LEMMA NoNewOwners ==
    ASSUME BInv, NEW t \in Requests, Leaves(t), ~MakesOwner(t)
    PROVE  \A a \in Accounts :
            /\ db[a].is # "None" => db'[a].is # "None" /\ (db'[a].role = Owner => db[a].role = Owner)
            /\ a \in Guests /\ db'[a].role = Owner => db[a].role = Owner
BY DEF Leaves, Moves, MakesOwner, Asks, Do, Row, Sent

\* COMMIT: somebody stays.
LEMMA SomebodyStays ==
    ASSUME BInv, NEW t \in Requests, StepBy(t), ActiveOwners # {}, \A g \in Guests : db[g].role # Owner,
           Spares(db, tx[t], job[t]), ~MakesOwner(t)
    PROVE  \E a \in Accounts : IsOwnerRow(db'[a])
<1>1. PICK o \in Accounts : IsOwnerRow(db[o])
  BY DEF ActiveOwners, IsOwnerRow
<1>2. CASE IsOwnerRow(db'[o])
  BY <1>2
<1>3. CASE ~IsOwnerRow(db'[o])
  <2>1. Moves(db[o], db'[o], job[t], o) /\ o \notin Guests
    BY <1>1, StepLeaves DEF Leaves, IsOwnerRow
  <2>2. Threatens(job[t]) /\ o = job[t].row
    BY <1>1, <1>3, <2>1 DEF Moves, IsOwnerRow, Threatens
  <2>3. Finish(t)
    <3>1. Aside(t) => db'[o] = db[o]
      BY RowsAre DEF Aside
    <3> QED
      BY <1>1, <1>3, <3>1, AsideOrFinish
  <2>4. /\ tx[t].pc = "commit"
        /\ \A r \in Rows : db'[r] = IF r \in DOMAIN tx[t].mine THEN tx[t].mine[r] ELSE db[r]
    BY <2>3, FinishIs
  <2>5. Safe(db, tx[t], o)
    BY <1>3, <2>2, <2>4, RowsAre DEF Spares
  <2>6. PICK b \in Accounts \cap DOMAIN tx[t].mine : tx[t].mine[b] = db[b] /\ IsOwnerRow(db[b])
    BY <1>1, <2>5 DEF Safe
  <2> QED
    BY <2>4, <2>6, RowsAre
<1> QED
  BY <1>2, <1>3

\* A request goes on, or nothing does.
LEMMA NextStep ==
    ASSUME [Next]_vars
    PROVE  \/ db' = db /\ lock' = lock /\ tx' = tx /\ job' = job /\ kept' = kept
           \/ \E t \in Requests : StepBy(t) /\ (kept' = kept \/ CacheStep(t))
BY NextIs DEF StepBy

LEMMA FinishGoes ==
    ASSUME BInv, NEW t \in Requests, Finish(t)
    PROVE  tx'[t] = Blank("done") /\ Blank("done").pc = "done"
<1>1. tx' = [tx EXCEPT ![t] = Blank("done")]
  BY FinishIs DEF Changed
<1> QED
  BY <1>1, BlankIs DEF BInv

LEMMA OwnersNext == BInv /\ OwnersInv /\ [Next]_vars => OwnersInv'
<1> SUFFICES ASSUME BInv, OwnersInv, [Next]_vars PROVE OwnersInv'
  OBVIOUS
<1>1. CASE db' = db /\ tx' = tx /\ job' = job
  BY <1>1 DEF OwnersInv, NobodyMakesOwner, MakesOwner, Asks, Do, Row, Sent, ActiveOwners
<1>2. ASSUME NEW t \in Requests, StepBy(t)
      PROVE  OwnersInv'
  <2>1. Leaves(t)
    BY <1>2, StepLeaves
  <2>2. PICK rows, txs : rows = db' /\ txs = tx' /\ job' = job
    BY <2>1 DEF Leaves
  <2>3. (NobodyMakesOwner)' <=> NobodyMakesOwner
    BY <2>2 DEF NobodyMakesOwner, MakesOwner, Asks, Do, Row, Sent
  <2>4. ASSUME NobodyMakesOwner
        PROVE  /\ \E a \in Accounts : IsOwnerRow(rows[a])
               /\ \A g \in Guests : rows[g].role # Owner
               /\ \A u \in Requests : Spares(rows, txs[u], job[u])
    <3>1. /\ ActiveOwners # {} /\ \A g \in Guests : db[g].role # Owner
          /\ \A u \in Requests : Spares(db, tx[u], job[u]) /\ ~MakesOwner(u)
      BY <2>4 DEF OwnersInv, NobodyMakesOwner
    <3>2. \A a \in Accounts :
            /\ db[a].is # "None" => rows[a].is # "None" /\ (rows[a].role = Owner => db[a].role = Owner)
            /\ a \in Guests /\ rows[a].role = Owner => db[a].role = Owner
      BY <2>1, <2>2, <3>1, NoNewOwners
    <3>3. \E a \in Accounts : IsOwnerRow(rows[a])
      BY <1>2, <2>2, <3>1, SomebodyStays
    <3>4. ASSUME NEW u \in Requests, u # t
          PROVE  Spares(rows, txs[u], job[u])
      <4>1. txs[u] = tx[u] /\ Spares(db, tx[u], job[u])
        BY <2>1, <2>2, <3>1, <3>4 DEF Leaves
      <4>2. \A r \in DOMAIN tx[u].mine : rows[r] = db[r]
        BY <2>1, <2>2, <3>4, About, ReadCommittedAssumption DEF Leaves
      <4> QED
        BY <3>2, <4>1, <4>2, SparesOutlives
    <3>5. Spares(rows, txs[t], job[t])
      <4>1. CASE Finish(t)
        BY <2>2, <4>1, FinishGoes, PlainSpares
      <4>2. CASE ~Finish(t)
        <5>1. Aside(t)
          BY <1>2, <4>2, AsideOrFinish
        <5>2. Spares(db, txs[t], job[t])
          BY <1>2, <2>2, <3>1, <4>2, StepSpares
        <5>3. CASE Threatens(job[t])
          <6>1. Unseen(t)
            <7>1. FormStep(t) \/ AdminStep(t) \/ OwnStep(t) \/ Refuse(t) \/ CacheStep(t)
              BY <1>2, <4>2 DEF StepBy
            <7>2. job[t].do \in {"edit", "off", "delete"}
              BY <5>3 DEF Threatens
            <7>3. ~OwnStep(t)
              BY <7>2 DEF OwnStep, PasswordStep, update_profile_info, set_first_password, change_password, forgot_password,
                          verify_otp_for_password_change, reset_password, guest_sign_in, Asks, Do
            <7> QED
              BY <7>1, <7>3, AdminUnseen, CacheUnseen, UnseenIs
          <6> QED
            BY <2>2, <5>2, <6>1 DEF Unseen
        <5>4. CASE ~Threatens(job[t])
          BY <5>4 DEF Spares
        <5> QED
          BY <5>3, <5>4
      <4> QED
        BY <4>1, <4>2
    <3> QED
      BY <3>2, <3>1, <3>3, <3>4, <3>5, RowsAre
  <2> QED
    BY <2>2, <2>3, <2>4 DEF OwnersInv, ActiveOwners, IsOwnerRow
<1> QED
  BY <1>1, <1>2, NextStep

LEMMA OwnersBegin == Init => OwnersInv
<1> SUFFICES ASSUME Init PROVE OwnersInv
  OBVIOUS
<1>1. ActiveOwners # {} /\ \A g \in Guests : db[g].role # Owner
  BY DEF Init, Tidy
<1>2. ASSUME NEW t \in Requests
      PROVE  Spares(db, tx[t], job[t])
  <2>1. tx[t] = Blank("begin")
    BY DEF Init, Begun
  <2> QED
    BY <2>1, BlankIs, PlainSpares
<1> QED
  BY <1>1, <1>2 DEF OwnersInv

\* Somebody always owns the business, however many owners are turned off, moved to another role or deleted
\* at once (not-last-owner.js); while nobody is being made an owner.
THEOREM TheBusinessIsOwned == Spec => []AlwaysAnOwner
<1>1. Init => BInv /\ OwnersInv
  BY BeginKnows, OwnersBegin
<1>2. BInv /\ OwnersInv /\ [Next]_vars => (BInv /\ OwnersInv)'
  BY NextKeeps, OwnersNext
<1>3. OwnersInv => AlwaysAnOwner
  BY DEF OwnersInv, AlwaysAnOwner, NobodyMakesOwner
<1> QED
  BY <1>1, <1>2, <1>3, PTL DEF Spec

-----------------------------------------------------------------------------
(* Emailed codes *)

\* What a request that changes a password with a code knows of it: the code is locked from its comparison
\* on, good until the request commits, and spent from then on.
Uses(rows, x, j) ==
    j.do = "verify" =>
        /\ x.pc \in {"compare", "find_live"} =>
                /\ j.to.code \in DOMAIN x.mine /\ x.mine[j.to.code] = rows[j.to.code]
                /\ rows[j.to.code].is = "Active" /\ rows[j.to.code].of = j.row
        /\ x.pc = "spend" =>
                /\ j.to.code \in DOMAIN x.mine /\ rows[j.to.code].is = "Active"
                /\ x.mine[j.to.code].is = "Inactive" \/ j.to.code \in x.todo
        /\ x.pc \in {"write", "commit"} =>
                j.to.code \in DOMAIN x.mine /\ rows[j.to.code].is = "Active" /\ x.mine[j.to.code].is = "Inactive"
        /\ x.pc = "done" => rows[j.to.code].is = "Inactive"

CodesInv == CodeChangesOnce /\ \A t \in Requests : Uses(db, tx[t], job[t])

LEMMA PlainUses ==
    ASSUME NEW rows, NEW y, NEW j, y.pc \notin {"compare", "find_live", "spend", "write", "commit", "done"}
    PROVE  Uses(rows, y, j)
BY DEF Uses

LEMMA LockCodeUses ==
    ASSUME BInv, NEW t \in Requests, LockCode(t), ~Refuse(t), job[t].do = "verify"
    PROVE  Uses(db, tx'[t], job[t]) /\ tx'[t].pc # "done"
<1>1. Sent(t).code \in OneTimeCodes /\ Sent(t).code = job[t].to.code /\ Row(t) = job[t].row
  BY About DEF Form, Sent, Row
<1>2. PICK code : /\ code = db[Sent(t).code] /\ code.is = "Active" /\ code.of = Row(t)
                  /\ Change(t, Version(Sent(t).code, code), To(t, "compare"))
  BY DEF LockCode
<1>3. PICK y : /\ tx'[t] = y /\ y.pc = "compare"
               /\ DOMAIN y.mine = DOMAIN tx[t].mine \cup {Sent(t).code} /\ y.mine[Sent(t).code] = code
  BY <1>1, <1>2, SeenCode, ChangeToGoes
<1>4. Uses(db, y, job[t])
  BY <1>1, <1>2, <1>3 DEF Uses
<1> QED
  BY <1>3, <1>4

LEMMA FindLiveUses ==
    ASSUME BInv, NEW t \in Requests, FindLive(t), job[t].do = "verify", Uses(db, tx[t], job[t])
    PROVE  Uses(db, tx'[t], job[t]) /\ tx'[t].pc # "done"
<1>1. PICK k : k = job[t].to.code /\ k \in OneTimeCodes
  BY About DEF Form
<1>2. PICK todo, next : todo = Live(t, Row(t)) /\ next = [To(t, "spend") EXCEPT !.todo = todo] /\ Look(t, next)
  BY DEF FindLive
<1>3. next.mine = tx[t].mine /\ next.pc = "spend" /\ next.todo = todo
  BY <1>2, ToIs, WithTodo
<1>4. k \in DOMAIN tx[t].mine /\ tx[t].mine[k] = db[k] /\ db[k].is = "Active" /\ db[k].of = job[t].row
  BY <1>1 DEF FindLive, At, Uses
<1>5. View(t, k) = db[k]
  BY <1>1, <1>4, About, SeenCode
<1>6. k \in todo
  BY <1>1, <1>2, <1>4, <1>5 DEF Live, Row
<1>7. PICK y : y = tx'[t] /\ y = next
  BY <1>2, LookGoes
<1>8. Uses(db, y, job[t])
  BY <1>1, <1>3, <1>4, <1>6, <1>7 DEF Uses
<1> QED
  BY <1>3, <1>7, <1>8

LEMMA SpendUses ==
    ASSUME BInv, NEW t \in Requests, Spend(t), job[t].do = "verify", Uses(db, tx[t], job[t])
    PROVE  Uses(db, tx'[t], job[t]) /\ tx'[t].pc # "done"
<1>0. PICK c \in tx[t].todo, v \in CodeType : \E next :
            /\ c \in OneTimeCodes /\ v.is = "Inactive" /\ Change(t, Version(c, v), next) /\ IsTx(next)
            /\ next.pc = "spend" /\ next.mine = tx[t].mine /\ next.todo = tx[t].todo \ {c}
  BY SpendIs
<1>1. PICK next :
            /\ c \in OneTimeCodes /\ v.is = "Inactive" /\ Change(t, Version(c, v), next) /\ IsTx(next)
            /\ next.pc = "spend" /\ next.mine = tx[t].mine /\ next.todo = tx[t].todo \ {c}
  BY <1>0
<1>2. PICK y : /\ tx'[t] = y /\ y.pc = "spend" /\ y.todo = next.todo
               /\ DOMAIN y.mine = DOMAIN tx[t].mine \cup {c} /\ y.mine[c] = v
               /\ \A s \in DOMAIN tx[t].mine : s # c => y.mine[s] = tx[t].mine[s]
  BY <1>1, SeenCode, ChangeGoes
<1>3. tx[t].pc = "spend"
  BY DEF Spend, At
<1>4. Uses(db, y, job[t])
  BY <1>1, <1>2, <1>3 DEF Uses
<1> QED
  BY <1>2, <1>4

LEMMA verify_otp_for_password_changeUses ==
    ASSUME BInv, NEW t \in Requests, verify_otp_for_password_change(t), job[t].do = "verify", Uses(db, tx[t], job[t])
    PROVE  Uses(db', tx'[t], job[t]) /\ tx'[t].pc # "done"
<1>0. ASSUME Unseen(t), Uses(db, tx'[t], job[t]), tx'[t].pc # "done"
      PROVE  Uses(db', tx'[t], job[t]) /\ tx'[t].pc # "done"
  BY <1>0 DEF Unseen
<1>1. CASE Refuse(t)
  BY <1>1, RefuseGoes, PlainUses
<1>2. CASE LockCode(t)
  BY <1>0, <1>1, <1>2, LockCodeUses, UnseenIs DEF LockCode
<1>3. CASE Leave(t, "wrong")
  <2>1. tx' = [tx EXCEPT ![t] = Blank("wrong")]
    BY <1>3, LeaveIs DEF Moved
  <2>2. tx'[t].pc = "wrong"
    BY <2>1, BlankIs DEF BInv
  <2> QED
    BY <2>2, PlainUses
<1>4. CASE At(t, "compare") /\ Look(t, To(t, "find_live"))
  <2>1. PICK y : tx'[t] = y /\ y.pc = "find_live" /\ y.mine = tx[t].mine
    BY <1>4, LookToGoes
  <2>2. Uses(db, y, job[t])
    BY <1>4, <2>1 DEF Uses, At
  <2> QED
    BY <1>0, <1>4, <2>1, <2>2, UnseenIs
<1>5. CASE FindLive(t)
  BY <1>0, <1>5, FindLiveUses, UnseenIs DEF FindLive
<1>6. CASE Spend(t)
  BY <1>0, <1>6, SpendUses, UnseenIs DEF Spend
<1>7. CASE AllSpent(t, "write")
  <2>1. PICK y : tx'[t] = y /\ y.pc = "write" /\ y.mine = tx[t].mine
    BY <1>7, LookToGoes DEF AllSpent
  <2>2. Uses(db, y, job[t])
    BY <1>7, <2>1 DEF Uses, AllSpent, At
  <2> QED
    BY <1>0, <1>7, <2>1, <2>2, UnseenIs DEF AllSpent
<1>8. CASE At(t, "write") /\ Change(t, Version(Row(t), Updated(Own(t), [password |-> Sent(t).password])), To(t, "commit"))
  <2>1. PICK v : v = Updated(Own(t), [password |-> Sent(t).password])
    OBVIOUS
  <2>2. Row(t) \in Accounts /\ job[t].to.code \in OneTimeCodes
    BY About DEF Form, Row
  <2>3. Change(t, Version(Row(t), v), To(t, "commit"))
    BY <1>8, <2>1
  <2>4. PICK y : /\ tx'[t] = y /\ y.pc = "commit"
                 /\ DOMAIN y.mine = DOMAIN tx[t].mine \cup {Row(t)}
                 /\ \A s \in DOMAIN tx[t].mine : s # Row(t) => y.mine[s] = tx[t].mine[s]
    BY <2>2, <2>3, RowsAre, ChangeToGoes
  <2>5. job[t].to.code # Row(t)
    BY <2>2, SeenCode
  <2>6. Uses(db, y, job[t])
    BY <1>8, <2>4, <2>5 DEF Uses, At
  <2> QED
    BY <1>0, <2>3, <2>4, <2>6, UnseenIs
<1>9. CASE CountWrong(t, Sent(t).code)
  <2>1. tx' = [tx EXCEPT ![t] = Blank("failed")]
    BY <1>9 DEF CountWrong, Once
  <2>2. tx'[t].pc = "failed"
    BY <2>1, BlankIs DEF BInv
  <2> QED
    BY <2>2, PlainUses
<1> QED
  BY <1>1, <1>2, <1>3, <1>4, <1>5, <1>6, <1>7, <1>8, <1>9 DEF verify_otp_for_password_change

LEMMA FinishUses ==
    ASSUME BInv, NEW t \in Requests, Finish(t), Uses(db, tx[t], job[t])
    PROVE  Uses(db', tx'[t], job[t])
<1>1. tx'[t].pc = "done"
  BY FinishGoes
<1>2. /\ tx[t].pc = "commit"
      /\ \A r \in Rows : db'[r] = IF r \in DOMAIN tx[t].mine THEN tx[t].mine[r] ELSE db[r]
  BY FinishIs
<1>3. job[t].do = "verify" => db'[job[t].to.code].is = "Inactive"
  BY <1>2, About, RowsAre DEF Uses, Form
<1> QED
  BY <1>1, <1>3 DEF Uses

LEMMA StepUses ==
    ASSUME BInv, NEW t \in Requests, StepBy(t), Uses(db, tx[t], job[t])
    PROVE  Uses(db', tx'[t], job[t])
<1>1. CASE job[t].do # "verify"
  BY <1>1 DEF Uses
<1>2. CASE job[t].do = "verify"
  <2>1. Finish(t) \/ Refuse(t) \/ verify_otp_for_password_change(t)
    BY <1>2, Kinds DEF Raisers
  <2> QED
    BY <1>2, <2>1, FinishUses, verify_otp_for_password_changeUses, RefuseGoes, PlainUses
<1> QED
  BY <1>1, <1>2

\* What it knows outlives what others do: its code is locked, and a spent one stays spent.
LEMMA UsesOutlives ==
    ASSUME NEW rows, NEW new, NEW x, NEW j, Uses(rows, x, j), Form(j), \A r \in DOMAIN x.mine : new[r] = rows[r],
           \A c \in OneTimeCodes : rows[c].is = "Inactive" => new[c].is = "Inactive"
    PROVE  Uses(new, x, j)
BY DEF Uses, Form

LEMMA CodesNext == BInv /\ CodesInv /\ [Next]_vars => CodesInv'
<1> SUFFICES ASSUME BInv, CodesInv, [Next]_vars PROVE CodesInv'
  OBVIOUS
<1>1. CASE db' = db /\ tx' = tx /\ job' = job
  BY <1>1 DEF CodesInv, CodeChangesOnce, Do, At, Sent
<1>2. ASSUME NEW t \in Requests, StepBy(t)
      PROVE  CodesInv'
  <2>1. Leaves(t)
    BY <1>2, StepLeaves
  <2>2. PICK rows, txs : rows = db' /\ txs = tx' /\ job' = job
    BY <2>1 DEF Leaves
  <2>3. \A u \in Requests : Uses(db, tx[u], job[u]) /\ Form(job[u])
    BY About DEF CodesInv
  <2>4. ASSUME NEW u \in Requests, u # t
        PROVE  Uses(rows, txs[u], job[u]) /\ txs[u] = tx[u]
    <3>1. txs[u] = tx[u] /\ Uses(db, tx[u], job[u])
      BY <2>1, <2>2, <2>3, <2>4 DEF Leaves
    <3>2. \A r \in DOMAIN tx[u].mine : rows[r] = db[r]
      BY <2>1, <2>2, <2>4, About, ReadCommittedAssumption DEF Leaves
    <3>3. \A c \in OneTimeCodes : db[c].is = "Inactive" => rows[c].is = "Inactive"
      BY <2>1, <2>2 DEF Leaves
    <3> QED
      BY <2>3, <3>1, <3>2, <3>3, UsesOutlives
  <2>5. Uses(rows, txs[t], job[t])
    BY <1>2, <2>2, <2>3, StepUses
  <2>6. ASSUME NEW u \in Requests, NEW w \in Requests, u # w, job[u].do = "verify", job[w].do = "verify",
               txs[u].pc = "done", txs[w].pc = "done"
        PROVE  job[u].to.code # job[w].to.code
    <3>1. CASE tx[u].pc = "done" /\ tx[w].pc = "done"
      BY <2>6, <3>1 DEF CodesInv, CodeChangesOnce, Do, At, Sent
    <3>2. ASSUME NEW v \in Requests, v # t, tx[v].pc = "done", job[v].do = "verify", tx[t].pc # "done", txs[t].pc = "done",
                 job[t].do = "verify"
          PROVE  job[v].to.code # job[t].to.code
      <4>1. Finish(t)
        <5>1. CASE Refuse(t)
          BY <2>2, <3>2, <5>1, RefuseGoes
        <5>2. CASE verify_otp_for_password_change(t)
          BY <2>2, <2>3, <3>2, <5>2, verify_otp_for_password_changeUses
        <5> QED
          BY <1>2, <3>2, <5>1, <5>2, Kinds DEF Raisers
      <4>2. tx[t].pc = "commit"
        BY <4>1, FinishIs
      <4>3. db[job[v].to.code].is = "Inactive" /\ db[job[t].to.code].is = "Active"
        BY <2>3, <3>2, <4>2 DEF Uses
      <4> QED
        BY <4>3
    <3> QED
      BY <2>4, <2>6, <3>1, <3>2
  <2> QED
    BY <2>2, <2>4, <2>5, <2>6 DEF CodesInv, CodeChangesOnce, Do, At, Sent
<1> QED
  BY <1>1, <1>2, NextStep

LEMMA CodesBegin == Init => CodesInv
<1> SUFFICES ASSUME Init PROVE CodesInv
  OBVIOUS
<1>1. \A t \in Requests : tx[t].pc = "begin"
  BY BlankIs DEF Init, Begun
<1>2. \A t \in Requests : Uses(db, tx[t], job[t])
  BY <1>1, PlainUses
<1> QED
  BY <1>1, <1>2 DEF CodesInv, CodeChangesOnce, At

\* An emailed code is verified, and with that changes a password, once, whoever presses twice, sends another code
\* or resets a password meanwhile (verify-otp-for-password-change.js).  A reset reads the code without its lock
\* (reset-password.js:49) and is not counted.
THEOREM ACodeIsUsedOnce == Spec => []CodeChangesOnce
<1>1. Init => BInv /\ CodesInv
  BY BeginKnows, CodesBegin
<1>2. BInv /\ CodesInv /\ [Next]_vars => (BInv /\ CodesInv)'
  BY NextKeeps, CodesNext
<1>3. CodesInv => CodeChangesOnce
  BY DEF CodesInv
<1> QED
  BY <1>1, <1>2, <1>3, PTL DEF Spec

-----------------------------------------------------------------------------
(* Guests *)

\* The active guests among the rows that a request has not locked.
Others(rows, x) == {g \in Guests : g \notin DOMAIN x.mine /\ rows[g].is = "Active"}

\* What a visitor knows on the way in: nobody else comes in from the moment the desk is taken, those it has
\* locked have left, and there is room and a name for one more.
Visits(rows, x, j) ==
    j.do = "guest" =>
        /\ x.pc \in {"count", "role", "name", "write", "commit"} => GuestDesk \in DOMAIN x.mine
        /\ \A g \in Guests : g \in DOMAIN x.mine /\ x.mine[g].is = "Active" => x.pc = "commit" /\ g = j.row
        /\ x.pc \in {"role", "name", "write", "commit"} => Cardinality(Others(rows, x)) < GuestCap
        /\ x.pc \in {"write", "commit"} => \A g \in Others(rows, x) : rows[g].guest # x.fit
        /\ x.pc = "commit" => j.row \in DOMAIN x.mine /\ x.mine[j.row].guest = x.fit

NobodyIsBroughtBack == \A t \in Requests : ~Asks(t, "on", Guests)

GuestsInv == NobodyIsBroughtBack => VisitorsFit /\ \A t \in Requests : Visits(db, tx[t], job[t])

LEMMA SmallerIs ==
    ASSUME NEW S, NEW T, S \subseteq T, T \subseteq Guests
    PROVE  Cardinality(S) \in Nat /\ Cardinality(T) \in Nat /\ Cardinality(S) <= Cardinality(T) /\ IsFiniteSet(T)
<1>1. IsFiniteSet(T)
  BY OwnAccountAssumption, FS_Subset
<1>2. IsFiniteSet(S) /\ Cardinality(S) <= Cardinality(T)
  BY <1>1, FS_Subset
<1> QED
  BY <1>1, <1>2, FS_CardinalityType

\* No guest comes in.
Shrinks(rows, new) == \A g \in Guests : new[g].is = "Active" => rows[g].is = "Active" /\ new[g].guest = rows[g].guest

\* What a visitor knows outlives what others do, as long as none of them comes in.
LEMMA VisitsOutlive ==
    ASSUME NEW rows, NEW new, NEW x, NEW j, Visits(rows, x, j), Shrinks(rows, new)
    PROVE  Visits(new, x, j)
<1>1. Others(new, x) \subseteq Others(rows, x) /\ Others(rows, x) \subseteq Guests
  BY DEF Others, Shrinks
<1>2. Cardinality(Others(rows, x)) < GuestCap => Cardinality(Others(new, x)) < GuestCap
  BY <1>1, SmallerIs, OwnAccountAssumption
<1>3. \A g \in Others(new, x) : new[g].guest = rows[g].guest
  BY DEF Others, Shrinks
<1> QED
  BY <1>1, <1>2, <1>3 DEF Visits

\* Nor does it lose what it knows as it locks more.
LEMMA FewerOthers ==
    ASSUME NEW rows, NEW x, NEW y, DOMAIN x.mine \subseteq DOMAIN y.mine
    PROVE  /\ Others(rows, y) \subseteq Others(rows, x)
           /\ Cardinality(Others(rows, x)) < GuestCap => Cardinality(Others(rows, y)) < GuestCap
<1>1. Others(rows, y) \subseteq Others(rows, x) /\ Others(rows, x) \subseteq Guests
  BY DEF Others
<1> QED
  BY <1>1, SmallerIs, OwnAccountAssumption

LEMMA VisitingIs ==
    ASSUME BInv, NEW t \in Requests, Visits(db, tx[t], job[t]), job[t].do = "guest", tx[t].pc # "commit"
    PROVE  Visiting(t) = Others(db, tx[t])
<1>1. Guests \subseteq Rows
  BY RowsAre
<1>2. \A g \in Guests : g \in DOMAIN tx[t].mine => tx[t].mine[g].is # "Active"
  BY DEF Visits
<1>3. \A g \in Guests : View(t, g).is = "Active" <=> g \notin DOMAIN tx[t].mine /\ db[g].is = "Active"
  BY <1>1, <1>2, About
<1> QED
  BY <1>3 DEF Visiting, Others

LEMMA PlainVisits ==
    ASSUME NEW rows, NEW y, NEW j, DOMAIN y.mine = {}, y.pc \notin {"count", "role", "name", "write", "commit"}
    PROVE  Visits(rows, y, j)
BY DEF Visits

\* The visitor reads on.
LEMMA LookVisits ==
    ASSUME BInv, NEW t \in Requests, NEW pc, Look(t, To(t, pc)), Visits(db, tx[t], job[t]), tx[t].pc # "commit",
           pc \in {"record", "desk"} \/ (tx[t].pc = "count" /\ pc = "role" /\ Cardinality(Others(db, tx[t])) < GuestCap)
                             \/ (tx[t].pc = "role" /\ pc = "name")
    PROVE  Visits(db, tx'[t], job[t])
<1>1. PICK y : y = tx'[t] /\ y.pc = pc /\ y.mine = tx[t].mine
  BY LookToGoes
<1>2. Others(db, y) = Others(db, tx[t])
  BY <1>1 DEF Others
<1>3. Visits(db, y, job[t])
  BY <1>1, <1>2 DEF Visits
<1> QED
  BY <1>1, <1>3

LEMMA check_rate_limitVisits ==
    ASSUME BInv, NEW t \in Requests, check_rate_limit(t, "guest", "visits"), job[t].do = "guest", Visits(db, tx[t], job[t])
    PROVE  Visits(db, tx'[t], job[t])
<1>1. DOMAIN tx[t].mine = {}
  BY About DEF check_rate_limit, At, Knows, Idle
<1>2. CASE Leave(t, "failed")
  <2>1. tx' = [tx EXCEPT ![t] = Blank("failed")]
    BY <1>2, LeaveIs DEF Moved
  <2>2. PICK y : y = tx'[t] /\ y = Blank("failed")
    BY <2>1 DEF BInv
  <2>3. Visits(db, y, job[t])
    BY <2>2, BlankIs, PlainVisits
  <2> QED
    BY <2>2, <2>3
<1>3. CASE At(t, "begin") /\ Look(t, To(t, "record"))
  BY <1>3, LookVisits DEF At
<1>4. CASE Once(t, Version(Throttle["guest"], db[Throttle["guest"]] + 1), To(t, "visits"))
  <2>1. PICK y : y = tx'[t] /\ y = To(t, "visits")
    BY <1>4 DEF Once, BInv
  <2>2. Visits(db, y, job[t])
    BY <1>1, <2>1, ToIs, PlainVisits
  <2> QED
    BY <2>1, <2>2
<1> QED
  BY <1>2, <1>3, <1>4 DEF check_rate_limit

LEMMA EndVisitsVisits ==
    ASSUME BInv, NEW t \in Requests, EndVisits(t), job[t].do = "guest", Visits(db, tx[t], job[t])
    PROVE  Visits(db, tx'[t], job[t])
<1>1. CASE At(t, "visits") /\ Look(t, [To(t, "end_visit") EXCEPT !.todo = {g \in Visiting(t) : db[g].past}])
  <2>1. PICK todo : todo = {g \in Visiting(t) : db[g].past}
    OBVIOUS
  <2>2. PICK next : next = [To(t, "end_visit") EXCEPT !.todo = todo] /\ Look(t, next)
    BY <1>1, <2>1
  <2>3. next.mine = tx[t].mine /\ next.pc = "end_visit"
    BY <2>2, ToIs, WithTodo
  <2>4. PICK y : y = tx'[t] /\ y = next
    BY <2>2, LookGoes
  <2>5. Visits(db, y, job[t])
    BY <1>1, <2>3, <2>4 DEF Visits, At
  <2> QED
    BY <2>4, <2>5
<1>2. ASSUME At(t, "end_visit"), NEW g \in tx[t].todo,
             Change(t, Version(g, IF View(t, g).is = "Active" THEN Updated(View(t, g), [is |-> "Inactive"]) ELSE View(t, g)),
                    [tx[t] EXCEPT !.todo = @ \ {g}])
      PROVE  Visits(db, tx'[t], job[t])
  <2>1. g \in Guests /\ g \in Accounts /\ g \in Rows
    BY <1>2, About, RowsAre DEF At, Knows, Stands
  <2>2. PICK next : /\ next = [tx[t] EXCEPT !.todo = @ \ {g}] /\ IsTx(next)
                    /\ next.pc = tx[t].pc /\ next.mine = tx[t].mine
    BY OneLess
  <2>3. PICK old, v : old = View(t, g) /\ v = IF old.is = "Active" THEN Updated(old, [is |-> "Inactive"]) ELSE old
    OBVIOUS
  <2>4. old \in AccountType
    BY <2>1, <2>3, SeenAccount
  <2>5. v.is # "Active"
    BY <2>3, <2>4, UpdatedStatus
  <2>6. Change(t, Version(g, v), next)
    BY <1>2, <2>2, <2>3
  <2>9. IsTx(next) /\ next.pc = tx[t].pc /\ next.mine = tx[t].mine
    BY <2>2
  <2>7. PICK y : /\ tx'[t] = y /\ y.pc = tx[t].pc
                 /\ DOMAIN y.mine = DOMAIN tx[t].mine \cup {g} /\ y.mine[g] = v
                 /\ \A s \in DOMAIN tx[t].mine : s # g => y.mine[s] = tx[t].mine[s]
    BY <2>1, <2>6, <2>9, ChangeGoes
  <2>8. Visits(db, y, job[t])
    BY <1>2, <2>5, <2>7 DEF Visits, At
  <2> QED
    BY <2>7, <2>8
<1>3. CASE At(t, "end_visit") /\ Look(t, To(t, "desk"))
  BY <1>3, LookVisits DEF At
<1> QED
  BY <1>1, <1>2, <1>3 DEF EndVisits

LEMMA TakeDeskVisits ==
    ASSUME BInv, NEW t \in Requests, TakeDesk(t), job[t].do = "guest", Visits(db, tx[t], job[t])
    PROVE  Visits(db, tx'[t], job[t])
<1>1. tx[t].pc = "desk" /\ Change(t, Version(GuestDesk, 0), To(t, "count"))
  BY DEF TakeDesk, At
<1>2. GuestDesk \in Rows /\ GuestDesk \notin Guests
  BY RowsAre, TablesDiffer
<1>3. PICK y : /\ tx'[t] = y /\ y.pc = "count"
               /\ DOMAIN y.mine = DOMAIN tx[t].mine \cup {GuestDesk}
               /\ \A s \in DOMAIN tx[t].mine : s # GuestDesk => y.mine[s] = tx[t].mine[s]
  BY <1>1, <1>2, ChangeToGoes
<1>4. Visits(db, y, job[t])
  BY <1>1, <1>2, <1>3 DEF Visits
<1> QED
  BY <1>3, <1>4

LEMMA guest_sign_inVisits ==
    ASSUME BInv, NEW t \in Requests, guest_sign_in(t), job[t].do = "guest", Visits(db, tx[t], job[t])
    PROVE  Visits(db, tx'[t], job[t])
<1>1. CASE Refuse(t)
  <2>1. PICK y : y = tx'[t] /\ y = Blank("failed")
    BY <1>1, RefuseIs DEF Moved, BInv
  <2>2. Visits(db, y, job[t])
    BY <2>1, BlankIs, PlainVisits
  <2> QED
    BY <2>1, <2>2
<1>2. CASE check_rate_limit(t, "guest", "visits") \/ EndVisits(t) \/ TakeDesk(t)
  BY <1>2, check_rate_limitVisits, EndVisitsVisits, TakeDeskVisits
<1>3. CASE At(t, "count") /\ ~(Cardinality(Visiting(t)) >= GuestCap) /\ Look(t, To(t, "role"))
  <2>1. Visiting(t) = Others(db, tx[t]) /\ Others(db, tx[t]) \subseteq Guests
    BY <1>3, VisitingIs DEF At, Others
  <2>2. Cardinality(Others(db, tx[t])) < GuestCap
    BY <1>3, <2>1, SmallerIs, OwnAccountAssumption
  <2> QED
    BY <1>3, <2>2, LookVisits DEF At
<1>4. CASE At(t, "role") /\ Look(t, To(t, "name"))
  BY <1>4, LookVisits DEF At
<1>5. ASSUME At(t, "name"), NEW n \in 1 .. Cardinality(Guests) + 1, IsFreeName(t, n), Look(t, [To(t, "write") EXCEPT !.fit = n])
      PROVE  Visits(db, tx'[t], job[t])
  <2>1. PICK next : next = [To(t, "write") EXCEPT !.fit = n] /\ Look(t, next)
    BY <1>5
  <2>2. next.mine = tx[t].mine /\ next.pc = "write" /\ next.fit = n
    BY <2>1, ToIs, WithFit
  <2>3. PICK y : y = tx'[t] /\ y = next
    BY <2>1, LookGoes
  <2>4. n \notin Taken(t)
    BY <1>5 DEF IsFreeName
  <2>5. Others(db, y) = Others(db, tx[t]) /\ Visiting(t) = Others(db, tx[t])
    BY <1>5, <2>2, <2>3, VisitingIs DEF At, Others
  <2>6. \A g \in Others(db, y) : db[g].guest # n
    BY <2>4, <2>5 DEF Taken
  <2>7. Visits(db, y, job[t])
    BY <1>5, <2>2, <2>3, <2>5, <2>6 DEF Visits, At
  <2> QED
    BY <2>3, <2>7
<1>6. CASE At(t, "write") /\ Change(t, Version(Row(t), Come(tx[t].fit)), To(t, "commit"))
  <2>1. PICK v : v = Come(tx[t].fit)
    OBVIOUS
  <2>2. Row(t) = job[t].row /\ Row(t) \in Rows
    BY RowsAre DEF guest_sign_in, Asks, Row
  <2>3. Change(t, Version(Row(t), v), To(t, "commit"))
    BY <1>6, <2>1
  <2>7. v.guest = tx[t].fit
    BY <2>1 DEF Come
  <2>4. PICK y : /\ tx'[t] = y /\ y.pc = "commit" /\ y.fit = tx[t].fit
                 /\ DOMAIN y.mine = DOMAIN tx[t].mine \cup {Row(t)} /\ y.mine[Row(t)] = v
                 /\ \A s \in DOMAIN tx[t].mine : s # Row(t) => y.mine[s] = tx[t].mine[s]
    BY <2>2, <2>3, ChangeToGoes
  <2>5. /\ Others(db, y) \subseteq Others(db, tx[t])
        /\ Cardinality(Others(db, tx[t])) < GuestCap => Cardinality(Others(db, y)) < GuestCap
    BY <2>4, FewerOthers
  <2>6. Visits(db, y, job[t])
    BY <1>6, <2>7, <2>2, <2>4, <2>5 DEF Visits, At
  <2> QED
    BY <2>4, <2>6
<1> QED
  BY <1>1, <1>2, <1>3, <1>4, <1>5, <1>6 DEF guest_sign_in, Come

\* What a step does to the visitors: none comes in, unless it is a visitor's that commits.
LEMMA StepShrinks ==
    ASSUME BInv, NEW t \in Requests, StepBy(t), ~Asks(t, "on", Guests), job[t].do # "guest" \/ ~Finish(t)
    PROVE  \A g \in Guests : db'[g].is = "Active" => db[g].is = "Active" /\ db'[g].guest = db[g].guest
<1>1. CASE Aside(t)
  BY <1>1, RowsAre DEF Aside
<1>2. CASE job[t].do # "guest"
  <2>1. \A g \in Guests : Moves(db[g], db'[g], job[t], g)
    BY StepLeaves, RowsAre DEF Leaves
  <2>2. ~(job[t].do = "on" /\ job[t].row \in Guests)
    BY DEF Asks, Do, Row
  <2> QED
    BY <1>2, <2>1, <2>2 DEF Moves
<1> QED
  BY <1>1, <1>2, AsideOrFinish

\* COMMIT of a visitor: those who had left and those who were seen to leave are out, and one is in.
LEMMA VisitorComes ==
    ASSUME BInv, NEW t \in Requests, Finish(t), job[t].do = "guest", Visits(db, tx[t], job[t]),
           NEW g \in Guests, db'[g].is = "Active"
    PROVE  (g \in Others(db, tx[t]) /\ db'[g].guest = db[g].guest) \/ (g = job[t].row /\ db'[g].guest = tx[t].fit)
<1>1. /\ tx[t].pc = "commit"
      /\ \A r \in Rows : db'[r] = IF r \in DOMAIN tx[t].mine THEN tx[t].mine[r] ELSE db[r]
  BY FinishIs
<1>2. g \in Rows
  BY RowsAre
<1>3. CASE g \in DOMAIN tx[t].mine
  BY <1>1, <1>2, <1>3 DEF Visits
<1>4. CASE g \notin DOMAIN tx[t].mine
  BY <1>1, <1>2, <1>4 DEF Others
<1> QED
  BY <1>3, <1>4

\* The visitors fit, by their rows.
Arrived(rows) == {g \in Guests : rows[g].is = "Active"}

FitIn(rows) ==
    /\ Cardinality(Arrived(rows)) <= GuestCap
    /\ \A g, h \in Arrived(rows) : rows[g].guest = rows[h].guest => g = h

LEMMA FitInIs == VisitorsFit <=> FitIn(db)
BY DEF VisitorsFit, FitIn, Arrived

LEMMA FewerFit ==
    ASSUME NEW rows, NEW new, FitIn(rows), Shrinks(rows, new)
    PROVE  FitIn(new)
<1>1. Arrived(new) \subseteq Arrived(rows) /\ Arrived(rows) \subseteq Guests
  BY DEF Arrived, Shrinks
<1>2. Cardinality(Arrived(new)) <= GuestCap
  BY <1>1, SmallerIs, OwnAccountAssumption DEF FitIn
<1>3. \A g \in Arrived(new) : g \in Arrived(rows) /\ new[g].guest = rows[g].guest
  BY DEF Arrived, Shrinks
<1> QED
  BY <1>2, <1>3 DEF FitIn

\* Visitor r comes in under name n, when the others leave room for one who is called so.
ComesIn(rows, new, x, r, n) ==
    /\ Cardinality(Others(rows, x)) < GuestCap
    /\ \A g \in Others(rows, x) : rows[g].guest # n
    /\ \A g \in Guests : new[g].is = "Active" =>
            (g \in Others(rows, x) /\ new[g].guest = rows[g].guest) \/ (g = r /\ new[g].guest = n)

LEMMA OneMoreFits ==
    ASSUME NEW rows, NEW new, NEW x, NEW r, NEW n, FitIn(rows), ComesIn(rows, new, x, r, n)
    PROVE  FitIn(new)
<1>1. PICK others : others = Others(rows, x)
  OBVIOUS
<1>2. others \subseteq Guests /\ others \subseteq Arrived(rows)
  BY <1>1 DEF Others, Arrived
<1>3. IsFiniteSet(others) /\ Cardinality(others) \in Nat /\ Cardinality(others) < GuestCap
  BY <1>1, <1>2, SmallerIs DEF ComesIn
<1>4. IsFiniteSet(others \cup {r}) /\ Cardinality(others \cup {r}) \in Nat /\ Cardinality(others \cup {r}) <= Cardinality(others) + 1
  BY <1>3, FS_AddElement
<1>5. Arrived(new) \subseteq others \cup {r}
  BY <1>1 DEF Arrived, ComesIn
<1>6. Cardinality(Arrived(new)) \in Nat /\ Cardinality(Arrived(new)) <= Cardinality(others \cup {r})
  BY <1>4, <1>5, FS_Subset, FS_CardinalityType
<1>7. Cardinality(Arrived(new)) <= GuestCap
  BY <1>3, <1>4, <1>6, OwnAccountAssumption
<1>8. \A g, h \in Arrived(new) : new[g].guest = new[h].guest => g = h
  BY <1>1, <1>2 DEF FitIn, Arrived, ComesIn
<1> QED
  BY <1>7, <1>8 DEF FitIn

\* Its own steps.
LEMMA StepVisits ==
    ASSUME BInv, NEW t \in Requests, StepBy(t), ~Finish(t), Visits(db, tx[t], job[t])
    PROVE  Visits(db, tx'[t], job[t])
<1>1. CASE job[t].do # "guest"
  BY <1>1 DEF Visits
<1>2. CASE job[t].do = "guest"
  <2>1. Refuse(t) \/ guest_sign_in(t)
    BY <1>2, Kinds DEF Raisers
  <2>2. CASE Refuse(t)
    <3>1. PICK y : y = tx'[t] /\ y = Blank("failed")
      BY <2>2, RefuseIs DEF Moved, BInv
    <3>2. Visits(db, y, job[t])
      BY <3>1, BlankIs, PlainVisits
    <3> QED
      BY <3>1, <3>2
  <2> QED
    BY <1>2, <2>1, <2>2, guest_sign_inVisits
<1> QED
  BY <1>1, <1>2

\* Those who have not taken the desk know nothing that others could change.
LEMMA DesklessVisits ==
    ASSUME NEW rows, NEW new, NEW x, NEW j, Visits(rows, x, j), GuestDesk \notin DOMAIN x.mine
    PROVE  Visits(new, x, j)
BY DEF Visits

LEMMA GuestsNext == BInv /\ GuestsInv /\ [Next]_vars => GuestsInv'
<1> SUFFICES ASSUME BInv, GuestsInv, [Next]_vars PROVE GuestsInv'
  OBVIOUS
<1>1. CASE db' = db /\ tx' = tx /\ job' = job
  BY <1>1 DEF GuestsInv, NobodyIsBroughtBack, VisitorsFit, Asks, Do, Row
<1>2. ASSUME NEW t \in Requests, StepBy(t)
      PROVE  GuestsInv'
  <2>1. Leaves(t)
    BY <1>2, StepLeaves
  <2>2. PICK rows, txs : rows = db' /\ txs = tx' /\ job' = job
    BY <2>1 DEF Leaves
  <2>3. (NobodyIsBroughtBack)' <=> NobodyIsBroughtBack
    BY <2>2 DEF NobodyIsBroughtBack, Asks, Do, Row
  <2>4. ASSUME NobodyIsBroughtBack
        PROVE  FitIn(rows) /\ \A u \in Requests : Visits(rows, txs[u], job[u])
    <3>1. FitIn(db) /\ ~Asks(t, "on", Guests) /\ \A u \in Requests : Visits(db, tx[u], job[u])
      BY <2>4, FitInIs DEF GuestsInv, NobodyIsBroughtBack
    <3>2. \A u \in Requests : u # t => txs[u] = tx[u]
      BY <2>1, <2>2 DEF Leaves
    <3>3. CASE job[t].do = "guest" /\ Finish(t)
      <4>1. \A g \in Guests : rows[g].is = "Active" =>
                (g \in Others(db, tx[t]) /\ rows[g].guest = db[g].guest) \/ (g = job[t].row /\ rows[g].guest = tx[t].fit)
        BY <2>2, <3>1, <3>3, VisitorComes
      <4>2. tx[t].pc = "commit"
        BY <3>3, FinishIs
      <4>3. /\ GuestDesk \in DOMAIN tx[t].mine /\ Cardinality(Others(db, tx[t])) < GuestCap
            /\ \A g \in Others(db, tx[t]) : db[g].guest # tx[t].fit
        BY <3>1, <3>3, <4>2 DEF Visits
      <4>4. FitIn(rows)
        <5>1. ComesIn(db, rows, tx[t], job[t].row, tx[t].fit)
          BY <4>1, <4>3 DEF ComesIn
        <5> QED
          BY <3>1, <5>1, OneMoreFits
      <4>5. ASSUME NEW u \in Requests, u # t
            PROVE  Visits(rows, txs[u], job[u])
        BY <3>1, <3>2, <4>3, <4>5, Apart, DesklessVisits
      <4>6. Visits(rows, txs[t], job[t])
        BY <2>2, <3>3, FinishGoes, BlankIs, PlainVisits
      <4> QED
        BY <4>4, <4>5, <4>6
    <3>4. CASE ~(job[t].do = "guest" /\ Finish(t))
      <4>1. Shrinks(db, rows)
        BY <1>2, <2>2, <3>1, <3>4, StepShrinks DEF Shrinks
      <4>2. FitIn(rows)
        BY <3>1, <4>1, FewerFit
      <4>3. ASSUME NEW u \in Requests, u # t
            PROVE  Visits(rows, txs[u], job[u])
        BY <3>1, <3>2, <4>1, <4>3, VisitsOutlive
      <4>4. Visits(rows, txs[t], job[t])
        <5>1. CASE job[t].do # "guest"
          BY <5>1 DEF Visits
        <5>2. CASE ~Finish(t)
          <6>1. Visits(db, txs[t], job[t])
            BY <1>2, <2>2, <3>1, <5>2, StepVisits
          <6> QED
            BY <4>1, <6>1, VisitsOutlive
        <5> QED
          BY <3>4, <5>1, <5>2
      <4> QED
        BY <4>2, <4>3, <4>4
    <3> QED
      BY <3>3, <3>4
  <2>5. VisitorsFit' <=> FitIn(rows)
    BY <2>2 DEF VisitorsFit, FitIn, Arrived
  <2> QED
    BY <2>2, <2>3, <2>4, <2>5 DEF GuestsInv
<1> QED
  BY <1>1, <1>2, NextStep

LEMMA GuestsBegin == Init => GuestsInv
<1> SUFFICES ASSUME Init PROVE GuestsInv
  OBVIOUS
<1>1. VisitorsFit
  BY DEF Init, Tidy
<1>2. ASSUME NEW t \in Requests
      PROVE  Visits(db, tx[t], job[t])
  <2>1. tx[t] = Blank("begin")
    BY DEF Init, Begun
  <2> QED
    BY <2>1, BlankIs, PlainVisits
<1> QED
  BY <1>1, <1>2 DEF GuestsInv

\* Visitors who come at once at the cap never get in together, and each has a name of their own, as long as
\* nobody turns on a guest who has left (guest-sign-in.js).
THEOREM VisitorsHaveRoom == Spec => []GuestsFitAndDiffer
<1>1. Init => BInv /\ GuestsInv
  BY BeginKnows, GuestsBegin
<1>2. BInv /\ GuestsInv /\ [Next]_vars => (BInv /\ GuestsInv)'
  BY NextKeeps, GuestsNext
<1>3. GuestsInv => GuestsFitAndDiffer
  BY DEF GuestsInv, GuestsFitAndDiffer, NobodyIsBroughtBack
<1> QED
  BY <1>1, <1>2, <1>3, PTL DEF Spec

-----------------------------------------------------------------------------
(* The order of the menu *)

\* The features of a group keep their positions, or all are locked and have positions of their own.
InPlace(rows, x, fs) ==
    \/ \A f \in fs \cap DOMAIN x.mine : x.mine[f].position = rows[f].position
    \/ fs \subseteq DOMAIN x.mine /\ \A f, g \in fs : f # g => x.mine[f].position # x.mine[g].position

\* They are all locked, the form names each once, and those it has got to are where it wants them.
GetPlaces(x, form) ==
    /\ Group(form.module) = ToSet(form.order) /\ Group(form.module) \subseteq DOMAIN x.mine
    /\ \A i, k \in DOMAIN form.order : form.order[i] = form.order[k] => i = k
    /\ \A i \in DOMAIN form.order : i \notin x.todo => x.mine[form.order[i]].position = 10 * i

\* What a request that arranges the menu knows: a group is as it was, or rewritten as a whole, but for the
\* one it is working on.
Arranges(rows, x, j) ==
    j.do = "reorder" =>
        /\ \A module \in Features \cup {Nothing} :
            InPlace(rows, x, Group(module)) \/ (x.pc = "rewrite" /\ module = j.to[x.seen.group].module)
        /\ x.pc = "lock_group" =>
            \A f \in Group(j.to[x.seen.group].module) : f \in DOMAIN x.mine \/ \E p \in x.fit : p[2] = f
        /\ x.pc = "rewrite" => GetPlaces(x, j.to[x.seen.group])

OrderInv == OneOrder /\ \A t \in Requests : Arranges(db, tx[t], job[t])

\* A feature is of one group.
LEMMA OneGroup ==
    /\ \A f \in Features : Parent[f] \in Features \cup {Nothing} /\ f \in Group(Parent[f])
    /\ \A m, n : \A f \in Group(m) : f \in Features /\ (f \in Group(n) => m = n)
BY AdminAssumption DEF Group

\* A request that has locked nothing.
LEMMA PlainArranges ==
    ASSUME NEW rows, NEW y, NEW j, DOMAIN y.mine = {}, y.pc \notin {"lock_group", "rewrite"}
    PROVE  Arranges(rows, y, j)
BY DEF Arranges, InPlace

\* What it knows outlives what others do.
LEMMA ArrangesOutlives ==
    ASSUME NEW rows, NEW new, NEW x, NEW j, Arranges(rows, x, j), \A r \in DOMAIN x.mine : new[r] = rows[r]
    PROVE  Arranges(new, x, j)
<1>1. \A fs : InPlace(rows, x, fs) => InPlace(new, x, fs)
  BY DEF InPlace
<1> QED
  BY <1>1 DEF Arranges

\* As many names as features, and every feature named: each is named once.
LEMMA NamedOnce ==
    ASSUME NEW order \in Seq(Features), NEW G, ToSet(order) = G, Len(order) = Cardinality(G)
    PROVE  \A i, k \in DOMAIN order : order[i] = order[k] => i = k
<1>1. DOMAIN order = 1 .. Len(order) /\ Len(order) \in Nat /\ order \in [1 .. Len(order) -> Features]
  OBVIOUS
<1>2. PICK n \in Nat : n = Len(order) /\ DOMAIN order = 1 .. n
  BY <1>1
<1>3. IsFiniteSet(1 .. n) /\ Cardinality(1 .. n) = n
  BY <1>2, FS_Interval
<1>4. order \in Surjection(1 .. n, G)
  <2>1. G = {order[i] : i \in 1 .. n}
    BY <1>2 DEF ToSet
  <2>2. order \in [1 .. n -> G] /\ \A y \in G : \E x \in 1 .. n : order[x] = y
    BY <1>1, <1>2, <2>1
  <2> QED
    BY <2>2 DEF Surjection
<1>5. IsFiniteSet(G)
  BY <1>3, <1>4, FS_Surjection
<1>6. order \in Injection(1 .. n, G)
  BY <1>2, <1>3, <1>4, <1>5, FS_SurjSameCardinalityImpliesInj
<1> QED
  BY <1>2, <1>6 DEF Injection, IsInjective

\* A group is rewritten when no place is left to give.
LEMMA PlacesGot ==
    ASSUME NEW rows, NEW x, NEW j, Arranges(rows, x, j), j.do = "reorder", x.pc = "rewrite" => x.todo = {},
           x.pc = "rewrite" => \A i \in DOMAIN j.to[x.seen.group].order : i \in Nat
    PROVE  \A module \in Features \cup {Nothing} : InPlace(rows, x, Group(module))
<1>1. CASE x.pc # "rewrite"
  BY <1>1 DEF Arranges
<1>2. CASE x.pc = "rewrite"
  <2>1. PICK form : form = j.to[x.seen.group]
    OBVIOUS
  <2>2. GetPlaces(x, form) /\ \A i \in DOMAIN form.order : i \in Nat
    BY <1>2, <2>1 DEF Arranges
  <2>3. ASSUME NEW f \in Group(form.module), NEW g \in Group(form.module), f # g
        PROVE  x.mine[f].position # x.mine[g].position
    <3>1. PICK i \in DOMAIN form.order : form.order[i] = f
      BY <2>2, <2>3 DEF GetPlaces, ToSet
    <3>2. PICK k \in DOMAIN form.order : form.order[k] = g
      BY <2>2, <2>3 DEF GetPlaces, ToSet
    <3>3. x.mine[f].position = 10 * i /\ x.mine[g].position = 10 * k
      BY <1>2, <2>2, <3>1, <3>2 DEF GetPlaces
    <3>4. i # k /\ i \in Nat /\ k \in Nat
      BY <2>2, <2>3, <3>1, <3>2
    <3>5. 10 * i # 10 * k
      BY <3>4
    <3> QED
      BY <3>3, <3>5
  <2>4. InPlace(rows, x, Group(form.module))
    BY <2>2, <2>3 DEF GetPlaces, InPlace
  <2> QED
    BY <1>2, <2>1, <2>4 DEF Arranges
<1> QED
  BY <1>1, <1>2

\* The next group is begun.
LEMMA StartGroupArranges ==
    ASSUME BInv, NEW t \in Requests, NEW group, NEW changed, StartGroup(t, group, changed), job[t].do = "reorder",
           \A module \in Features \cup {Nothing} : InPlace(db, tx[t], Group(module))
    PROVE  Arranges(db, tx'[t], job[t])
<1>1. PICK next : /\ Look(t, next) /\ next.pc = "lock_group" /\ next.mine = tx[t].mine
                  /\ next.seen = [group |-> group, changed |-> changed]
                  /\ next.fit = ByPosition(t, Group(Sent(t)[group].module))
  BY StartGroupIs
<1>2. tx'[t] = next
  BY <1>1, LookGoes
<1>3. next.seen.group = group /\ Sent(t) = job[t].to
  BY <1>1 DEF Sent
<1>4. ASSUME NEW f \in Group(job[t].to[group].module)
      PROVE  \E p \in next.fit : p[2] = f
  <2>1. PICK p : p = <<View(t, f).position, f>>
    OBVIOUS
  <2>2. p \in next.fit
    BY <1>1, <1>3, <2>1 DEF ByPosition
  <2>3. p[2] = f
    BY <2>1
  <2> QED
    BY <2>2, <2>3
<1>5. \A fs : InPlace(db, tx[t], fs) => InPlace(db, next, fs)
  BY <1>1 DEF InPlace
<1>6. Arranges(db, next, job[t])
  BY <1>1, <1>3, <1>4, <1>5 DEF Arranges
<1> QED
  BY <1>2, <1>6

\* A row of it is locked as it is.
LEMMA LockFeatureArranges ==
    ASSUME BInv, NEW t \in Requests, LockFeature(t), job[t].do = "reorder", Arranges(db, tx[t], job[t])
    PROVE  Arranges(db, tx'[t], job[t])
<1>1. PICK f \in Features : \E next :
            /\ Change(t, Version(f, View(t, f)), next) /\ IsTx(next)
            /\ next.pc = "lock_group" /\ next.mine = tx[t].mine /\ next.seen = tx[t].seen
            /\ next.fit = {p \in tx[t].fit : p[2] # f}
  BY LockFeatureIs
<1>2. PICK next :
            /\ Change(t, Version(f, View(t, f)), next) /\ IsTx(next)
            /\ next.pc = "lock_group" /\ next.mine = tx[t].mine /\ next.seen = tx[t].seen
            /\ next.fit = {p \in tx[t].fit : p[2] # f}
  BY <1>1
<1>3. f \in Rows
  BY SeenFeature
<1>4. PICK y : /\ tx'[t] = y /\ y.pc = "lock_group" /\ y.seen = tx[t].seen /\ y.fit = {p \in tx[t].fit : p[2] # f}
               /\ DOMAIN y.mine = DOMAIN tx[t].mine \cup {f} /\ y.mine[f] = View(t, f)
               /\ \A s \in DOMAIN tx[t].mine : s # f => y.mine[s] = tx[t].mine[s]
  BY <1>2, <1>3, ChangeGoes
<1>5. y.mine[f] = IF f \in DOMAIN tx[t].mine THEN tx[t].mine[f] ELSE db[f]
  BY <1>3, <1>4, About
<1>6. \A fs : InPlace(db, tx[t], fs) => InPlace(db, y, fs)
  BY <1>4, <1>5 DEF InPlace
<1>7. tx[t].pc = "lock_group"
  BY DEF LockFeature, At
<1>8. \A g \in Group(job[t].to[tx[t].seen.group].module) : g \in DOMAIN y.mine \/ \E p \in y.fit : p[2] = g
  BY <1>4, <1>7 DEF Arranges
<1>9. Arranges(db, y, job[t])
  BY <1>4, <1>6, <1>7, <1>8 DEF Arranges
<1> QED
  BY <1>4, <1>9

\* The places are compared, and those to be given noted.
LEMMA CompareArranges ==
    ASSUME BInv, NEW t \in Requests, Compare(t), ~Refuse(t), job[t].do = "reorder", Arranges(db, tx[t], job[t])
    PROVE  Arranges(db, tx'[t], job[t])
<1>1. PICK form, next :
            /\ form = Arranging(t) /\ Look(t, next)
            /\ next.pc = "rewrite" /\ next.mine = tx[t].mine /\ next.seen = tx[t].seen
            /\ next.todo = {i \in DOMAIN form.order : View(t, form.order[i]).position # 10 * i}
            /\ ToSet(form.order) = Group(form.module)
            /\ Len(form.order) = Cardinality(Group(form.module))
  BY CompareIs
<1>2. tx'[t] = next
  BY <1>1, LookGoes
<1>3. tx[t].pc = "lock_group" /\ tx[t].fit = {}
  BY DEF Compare, At
<1>4. tx[t].seen.group \in DOMAIN Sent(t) /\ form = Sent(t)[tx[t].seen.group] /\ form = job[t].to[tx[t].seen.group]
  BY <1>1, <1>3, About DEF Knows, Stands, Arranging, Sent
<1>5. form.order \in Seq(Features) /\ \A i \in DOMAIN form.order : form.order[i] \in Features
  BY <1>4, ArrangedIs
<1>6. Group(form.module) \subseteq DOMAIN tx[t].mine
  BY <1>3, <1>4 DEF Arranges
<1>7. \A i, k \in DOMAIN form.order : form.order[i] = form.order[k] => i = k
  BY <1>1, <1>5, NamedOnce
<1>8. ASSUME NEW i \in DOMAIN form.order, i \notin next.todo
      PROVE  next.mine[form.order[i]].position = 10 * i
  <2>1. form.order[i] \in Group(form.module) /\ form.order[i] \in Rows
    BY <1>1, <1>5, SeenFeature DEF ToSet
  <2>2. View(t, form.order[i]) = tx[t].mine[form.order[i]]
    BY <1>6, <2>1, About
  <2> QED
    BY <1>1, <1>8, <2>2
<1>9. GetPlaces(next, form)
  BY <1>1, <1>6, <1>7, <1>8 DEF GetPlaces
<1>10. \A fs : InPlace(db, tx[t], fs) => InPlace(db, next, fs)
  BY <1>1 DEF InPlace
<1>11. Arranges(db, next, job[t])
  BY <1>1, <1>3, <1>4, <1>9, <1>10 DEF Arranges
<1> QED
  BY <1>2, <1>11

\* A feature gets its place; those of other groups keep theirs.
LEMMA RewriteArranges ==
    ASSUME BInv, NEW t \in Requests, Rewrite(t), job[t].do = "reorder", Arranges(db, tx[t], job[t])
    PROVE  Arranges(db, tx'[t], job[t])
<1>1. PICK i \in tx[t].todo, f \in Features, v \in FeatureType : \E next :
            /\ i \in DOMAIN Arranging(t).order /\ f = Arranging(t).order[i] /\ i \in Nat /\ v.position = 10 * i
            /\ Change(t, Version(f, v), next) /\ IsTx(next)
            /\ next.pc = "rewrite" /\ next.mine = tx[t].mine /\ next.todo = tx[t].todo \ {i}
            /\ next.seen = [group |-> tx[t].seen.group, changed |-> TRUE]
  BY RewriteIs
<1>2. PICK form, next :
            /\ form = Arranging(t)
            /\ i \in DOMAIN form.order /\ f = form.order[i] /\ i \in Nat /\ v.position = 10 * i
            /\ Change(t, Version(f, v), next) /\ IsTx(next)
            /\ next.pc = "rewrite" /\ next.mine = tx[t].mine /\ next.todo = tx[t].todo \ {i}
            /\ next.seen.group = tx[t].seen.group
  BY <1>1
<1>3. f \in Rows
  BY SeenFeature
<1>4. PICK y : /\ tx'[t] = y /\ y.pc = "rewrite" /\ y.seen.group = tx[t].seen.group /\ y.todo = tx[t].todo \ {i}
               /\ DOMAIN y.mine = DOMAIN tx[t].mine \cup {f} /\ y.mine[f] = v
               /\ \A s \in DOMAIN tx[t].mine : s # f => y.mine[s] = tx[t].mine[s]
  BY <1>2, <1>3, ChangeGoes
<1>5. tx[t].pc = "rewrite" /\ form = job[t].to[tx[t].seen.group]
  BY <1>2 DEF Rewrite, At, Arranging, Sent
<1>6. GetPlaces(tx[t], form)
  BY <1>5 DEF Arranges
<1>7. f \in Group(form.module)
  BY <1>2, <1>6 DEF GetPlaces, ToSet
<1>8. ASSUME NEW module \in Features \cup {Nothing}, module # form.module
      PROVE  InPlace(db, y, Group(module))
  <2>1. f \notin Group(module)
    BY <1>7, <1>8, OneGroup
  <2>2. InPlace(db, tx[t], Group(module))
    BY <1>5, <1>8 DEF Arranges
  <2> QED
    BY <1>4, <2>1, <2>2 DEF InPlace
<1>9. ASSUME NEW k \in DOMAIN form.order, k \notin y.todo
      PROVE  y.mine[form.order[k]].position = 10 * k
  <2>1. CASE k = i
    BY <1>2, <1>4, <2>1
  <2>2. CASE k # i
    <3>1. form.order[k] # f /\ form.order[k] \in DOMAIN tx[t].mine /\ k \notin tx[t].todo
      BY <1>2, <1>4, <1>6, <1>9, <2>2 DEF GetPlaces, ToSet
    <3>2. tx[t].mine[form.order[k]].position = 10 * k
      BY <1>6, <3>1 DEF GetPlaces
    <3> QED
      BY <1>4, <3>1, <3>2
  <2> QED
    BY <2>1, <2>2
<1>10. GetPlaces(y, form)
  BY <1>4, <1>6, <1>9 DEF GetPlaces
<1>11. Arranges(db, y, job[t])
  BY <1>4, <1>5, <1>8, <1>10 DEF Arranges
<1> QED
  BY <1>4, <1>11

\* On to the counter and to COMMIT, when every group is settled.
LEMMA SettledArranges ==
    ASSUME NEW rows, NEW x, NEW y, NEW j, j.do = "reorder",
           \A module \in Features \cup {Nothing} : InPlace(rows, x, Group(module)),
           y.pc \notin {"lock_group", "rewrite"},
           \A f \in Features : f \in DOMAIN y.mine <=> f \in DOMAIN x.mine,
           \A f \in Features : f \in DOMAIN x.mine => y.mine[f] = x.mine[f]
    PROVE  Arranges(rows, y, j)
<1>1. \A module : InPlace(rows, x, Group(module)) => InPlace(rows, y, Group(module))
  <2>1. \A module : Group(module) \subseteq Features
    BY OneGroup
  <2> QED
    BY <2>1 DEF InPlace
<1> QED
  BY <1>1 DEF Arranges

LEMMA reorder_featuresArranges ==
    ASSUME BInv, NEW t \in Requests, reorder_features(t), ~Refuse(t), Arranges(db, tx[t], job[t])
    PROVE  Arranges(db, tx'[t], job[t])
<1>1. job[t].do = "reorder"
  BY DEF reorder_features, Asks, Do
<1>2. CASE At(t, "begin") /\ StartGroup(t, 1, FALSE)
  <2>1. \A module \in Features \cup {Nothing} : InPlace(db, tx[t], Group(module))
    BY <1>1, <1>2, PlacesGot DEF At
  <2> QED
    BY <1>1, <1>2, <2>1, StartGroupArranges
<1>3. CASE LockFeature(t)
  BY <1>1, <1>3, LockFeatureArranges
<1>4. CASE Compare(t)
  BY <1>1, <1>4, CompareArranges
<1>5. CASE Rewrite(t)
  BY <1>1, <1>5, RewriteArranges
<1>6. CASE /\ At(t, "rewrite") /\ tx[t].todo = {}
           /\ \/ StartGroup(t, tx[t].seen.group + 1, tx[t].seen.changed)
              \/ Look(t, To(t, IF tx[t].seen.changed THEN "bump" ELSE "commit"))
  <2>1. tx[t].seen.group \in DOMAIN Sent(t) /\ Sent(t) = job[t].to
    BY <1>1, <1>6, About DEF Knows, Stands, At, Sent
  <2>2. \A i \in DOMAIN job[t].to[tx[t].seen.group].order : i \in Nat
    BY <1>1, <2>1, ArrangedIs
  <2>3. \A module \in Features \cup {Nothing} : InPlace(db, tx[t], Group(module))
    BY <1>1, <1>6, <2>2, PlacesGot
  <2>4. CASE StartGroup(t, tx[t].seen.group + 1, tx[t].seen.changed)
    BY <1>1, <2>3, <2>4, StartGroupArranges
  <2>5. CASE Look(t, To(t, IF tx[t].seen.changed THEN "bump" ELSE "commit"))
    <3>1. PICK pc \in {"bump", "commit"} : Look(t, To(t, pc))
      BY <2>5
    <3>2. PICK y : tx'[t] = y /\ y.pc = pc /\ y.mine = tx[t].mine
      BY <3>1, LookToGoes
    <3>3. Arranges(db, y, job[t])
      BY <1>1, <2>3, <3>2, SettledArranges
    <3> QED
      BY <3>2, <3>3
  <2> QED
    BY <1>6, <2>4, <2>5
<1> QED
  BY <1>2, <1>3, <1>4, <1>5, <1>6 DEF reorder_features

\* config_version is no feature.
LEMMA BumpArranges ==
    ASSUME BInv, NEW t \in Requests, bump_config_version(t), job[t].do = "reorder", Arranges(db, tx[t], job[t])
    PROVE  Arranges(db, tx'[t], job[t])
<1>1. tx[t].pc = "bump"
  BY DEF bump_config_version, At
<1>2. \A module \in Features \cup {Nothing} : InPlace(db, tx[t], Group(module))
  BY <1>1, PlacesGot
<1>3. ConfigVersion \in Rows /\ \A f \in Features : f # ConfigVersion
  BY RowsAre, TablesDiffer
<1>4. PICK v : Change(t, Version(ConfigVersion, v), To(t, "commit"))
  BY DEF bump_config_version
<1>5. PICK y : /\ tx'[t] = y /\ y.pc = "commit"
               /\ DOMAIN y.mine = DOMAIN tx[t].mine \cup {ConfigVersion}
               /\ \A s \in DOMAIN tx[t].mine : s # ConfigVersion => y.mine[s] = tx[t].mine[s]
  BY <1>3, <1>4, ChangeToGoes
<1>6. Arranges(db, y, job[t])
  BY <1>2, <1>3, <1>5, SettledArranges
<1> QED
  BY <1>5, <1>6

\* Its own steps.
LEMMA StepArranges ==
    ASSUME BInv, NEW t \in Requests, StepBy(t), ~Finish(t), Arranges(db, tx[t], job[t])
    PROVE  Arranges(db, tx'[t], job[t])
<1>1. CASE job[t].do # "reorder"
  BY <1>1 DEF Arranges
<1>2. CASE job[t].do = "reorder"
  <2>1. Refuse(t) \/ bump_config_version(t) \/ FeatureActs(t)
    BY <1>2, Kinds DEF Raisers
  <2>2. CASE Refuse(t)
    <3>1. PICK y : y = tx'[t] /\ y = Blank("failed")
      BY <2>2, RefuseIs DEF Moved, BInv
    <3>2. Arranges(db, y, job[t])
      BY <3>1, BlankIs, PlainArranges
    <3> QED
      BY <3>1, <3>2
  <2>3. CASE FeatureActs(t)
    <3>1. reorder_features(t)
      BY <1>2, <2>3 DEF FeatureActs, mark_action_sensitive, switch_feature, update_feature_details, Asks, Do
    <3> QED
      BY <2>2, <3>1, reorder_featuresArranges
  <2> QED
    BY <1>2, <2>1, <2>2, <2>3, BumpArranges
<1> QED
  BY <1>1, <1>2

\* The features of every module have places of their own.
OrderOf(rows) == \A f, g \in Features : f # g /\ Parent[f] = Parent[g] => rows[f].position # rows[g].position

\* COMMIT of whoever arranges the menu.
LEMMA FinishArranged ==
    ASSUME BInv, NEW t \in Requests, Finish(t), job[t].do = "reorder", Arranges(db, tx[t], job[t]), OrderOf(db)
    PROVE  OrderOf(db')
<1>1. PICK rows : rows = db'
  OBVIOUS
<1>2. tx[t].pc = "commit" /\ \A r \in Rows : rows[r] = IF r \in DOMAIN tx[t].mine THEN tx[t].mine[r] ELSE db[r]
  BY <1>1, FinishIs
<1>3. \A module \in Features \cup {Nothing} : InPlace(db, tx[t], Group(module))
  BY <1>2, PlacesGot
<1>4. ASSUME NEW f \in Features, NEW g \in Features, f # g, Parent[f] = Parent[g]
      PROVE  rows[f].position # rows[g].position
  <2>1. PICK fs : fs = Group(Parent[f]) /\ f \in fs /\ g \in fs /\ InPlace(db, tx[t], fs)
    BY <1>3, <1>4, OneGroup
  <2>2. f \in Rows /\ g \in Rows
    BY RowsAre
  <2>3. CASE fs \subseteq DOMAIN tx[t].mine /\ \A a, b \in fs : a # b => tx[t].mine[a].position # tx[t].mine[b].position
    BY <1>2, <1>4, <2>1, <2>2, <2>3
  <2>4. CASE \A a \in fs \cap DOMAIN tx[t].mine : tx[t].mine[a].position = db[a].position
    <3>1. rows[f].position = db[f].position /\ rows[g].position = db[g].position
      BY <1>2, <2>1, <2>2, <2>4
    <3> QED
      BY <1>4, <3>1 DEF OrderOf
  <2> QED
    BY <2>1, <2>3, <2>4 DEF InPlace
<1> QED
  BY <1>1, <1>4 DEF OrderOf

\* What a step does to the order.
LEMMA StepOrder ==
    ASSUME BInv, NEW t \in Requests, StepBy(t), Arranges(db, tx[t], job[t]), OrderOf(db)
    PROVE  OrderOf(db')
<1>1. CASE Aside(t)
  BY <1>1, RowsAre DEF Aside, OrderOf
<1>2. CASE job[t].do # "reorder"
  BY <1>2, StepLeaves DEF Leaves, OrderOf
<1>3. CASE Finish(t) /\ job[t].do = "reorder"
  BY <1>3, FinishArranged
<1> QED
  BY <1>1, <1>2, <1>3, AsideOrFinish

LEMMA OrderNext == BInv /\ OrderInv /\ [Next]_vars => OrderInv'
<1> SUFFICES ASSUME BInv, OrderInv, [Next]_vars PROVE OrderInv'
  OBVIOUS
<1>1. CASE db' = db /\ tx' = tx /\ job' = job
  BY <1>1 DEF OrderInv, OneOrder
<1>2. ASSUME NEW t \in Requests, StepBy(t)
      PROVE  OrderInv'
  <2>1. Leaves(t)
    BY <1>2, StepLeaves
  <2>2. PICK rows, txs : rows = db' /\ txs = tx' /\ job' = job
    BY <2>1 DEF Leaves
  <2>3. OrderOf(db) /\ \A u \in Requests : Arranges(db, tx[u], job[u])
    BY DEF OrderInv, OneOrder, OrderOf
  <2>4. OrderOf(rows)
    BY <1>2, <2>2, <2>3, StepOrder
  <2>5. ASSUME NEW u \in Requests, u # t
        PROVE  Arranges(rows, txs[u], job[u])
    <3>1. txs[u] = tx[u] /\ \A r \in DOMAIN tx[u].mine : rows[r] = db[r]
      BY <2>1, <2>2, <2>5, About, ReadCommittedAssumption DEF Leaves
    <3> QED
      BY <2>3, <3>1, ArrangesOutlives
  <2>6. Arranges(rows, txs[t], job[t])
    <3>1. CASE Finish(t)
      BY <2>2, <3>1, FinishGoes, BlankIs, PlainArranges
    <3>2. CASE ~Finish(t)
      <4>1. Arranges(db, txs[t], job[t])
        BY <1>2, <2>2, <2>3, <3>2, StepArranges
      <4>2. CASE job[t].do # "reorder"
        BY <4>2 DEF Arranges
      <4>3. CASE job[t].do = "reorder"
        <5>1. \A f \in Features : rows[f] = db[f]
          BY <1>2, <2>2, <3>2, AsideOrFinish, RowsAre DEF Aside
        <5>2. \A m : InPlace(db, txs[t], Group(m)) => InPlace(rows, txs[t], Group(m))
          BY <5>1, OneGroup DEF InPlace
        <5> QED
          BY <4>1, <5>2 DEF Arranges
      <4> QED
        BY <4>2, <4>3
    <3> QED
      BY <3>1, <3>2
  <2>7. (OneOrder)' <=> OrderOf(rows)
    BY <2>2 DEF OneOrder, OrderOf
  <2> QED
    BY <2>2, <2>4, <2>5, <2>6, <2>7 DEF OrderInv
<1> QED
  BY <1>1, <1>2, NextStep

LEMMA OrderBegin == Init => OrderInv
<1> SUFFICES ASSUME Init PROVE OrderInv
  OBVIOUS
<1>1. OneOrder
  BY DEF Init, Tidy
<1>2. ASSUME NEW t \in Requests
      PROVE  Arranges(db, tx[t], job[t])
  <2>1. tx[t] = Blank("begin")
    BY DEF Init, Begun
  <2> QED
    BY <2>1, BlankIs, PlainArranges
<1> QED
  BY <1>1, <1>2 DEF OrderInv

\* The features of a module, and the modules, have places of their own, however many people arrange the
\* menu at once (reorder-features.js).
THEOREM TheMenuKeepsOneOrder == Spec => []OneOrder
<1>1. Init => BInv /\ OrderInv
  BY BeginKnows, OrderBegin
<1>2. BInv /\ OrderInv /\ [Next]_vars => (BInv /\ OrderInv)'
  BY NextKeeps, OrderNext
<1>3. OrderInv => OneOrder
  BY DEF OrderInv
<1> QED
  BY <1>1, <1>2, <1>3, PTL DEF Spec

-----------------------------------------------------------------------------
(* What an instance keeps *)

\* What is kept, by the rows: the features that are off, what a role grants, the menu.
OffIn(rows) == {f \in Features : rows[f].is # "On" \/ (Parent[f] # Nothing /\ rows[Parent[f]].is # "On")}
GrantedIn(rows, role) == IF rows[role].is = "Active" THEN rows[role].grants ELSE {}
MenuIn(rows) == [f \in Features |-> rows[f]]

\* What an account was found to hold is none too much.
HeldFits(rows, a, held) == held = {} \/ (rows[a].is # "None" /\ held \subseteq GrantedIn(rows, rows[a].role))

\* A value that was read at a version is true while that is current, and versions do not go back.
TrueAt(rows, at, fine) == at \in Nat /\ at <= rows[ConfigVersion] /\ (at = rows[ConfigVersion] => fine)

\* What was read of an account is true as long as its edited_on is what it was.
WasSo(rows, a, edited, must) ==
    /\ a \in Accounts /\ rows[a].is # "None"
    /\ edited \in Nat /\ edited <= rows[a].version /\ (edited = rows[a].version => must = rows[a].must)

\* What a payload shows is what is true for its role.
ShowsTruth(rows, role, p) ==
    /\ p.grants = GrantedIn(rows, role) /\ p.menu = build_menu(MenuIn(rows), p.grants)
    /\ p.off = {FeatureOf[action] : action \in p.grants} \cap OffIn(rows)
    /\ p.settings = rows[Settings].business

GoodPayload(rows, p) ==
    \E version \in 0 .. rows[ConfigVersion], role \in Roles, edited \in 0 .. rows[p.who].version :
        /\ p.etag = payload_etag(version, role, p.who, edited)
        /\ WasSo(rows, p.who, edited, p.must)
        /\ TrueAt(rows, version, ShowsTruth(rows, role, p))

\* The instance's memory.
GoodMemory(rows, k) ==
    /\ k = [off |-> k.off, settings |-> k.settings, permissions |-> k.permissions, payloads |-> k.payloads]
    /\ TrueAt(rows, k.off.at, k.off.value = OffIn(rows))
    /\ TrueAt(rows, k.settings.at, k.settings.value = rows[Settings])
    /\ k.permissions = [a \in Accounts |-> k.permissions[a]]
    /\ \A a \in Accounts : TrueAt(rows, k.permissions[a].at, HeldFits(rows, a, k.permissions[a].value))
    /\ \A p \in k.payloads : GoodPayload(rows, p)

\* What a query of LoadPart finds, by the rows.
PartIn(rows, role, part) ==
    CASE part = "grants" -> GrantedIn(rows, role) [] part = "menu" -> MenuIn(rows) [] OTHER -> rows[Settings].business

Parts == {"grants", "menu", "settings"}

\* Whoever builds a payload has the account as it was, and the parts it loaded as they are at its version.
Builds(rows, x, a) ==
    /\ x.seen.role \in Roles /\ WasSo(rows, a, x.seen.edited, x.seen.must)
    /\ IF x.pc = "version" THEN {"role", "edited", "must"} \subseteq DOMAIN x.seen ELSE TrueAt(rows, x.seen.version, TRUE)
    /\ x.pc = "load" => x.todo \subseteq Parts
    /\ x.pc \in {"load", "off", "keep_off", "keep_payload"} =>
            \A part \in Parts : (x.pc = "load" => part \notin x.todo) =>
                part \in DOMAIN x.fit /\ TrueAt(rows, x.seen.version, x.fit[part] = PartIn(rows, x.seen.role, part))

\* What a request that goes by the memory knows: the version it read first, and what it read since.
Reader(rows, x, j) ==
    /\ j.do \in {"enter", "info"} /\ x.pc = "off" => TrueAt(rows, x.seen.version, TRUE)
    /\ j.do \in {"enter", "info"} /\ x.pc \in {"keep_off", "keep_payload"} =>
            TrueAt(rows, x.seen.version, x.todo = OffIn(rows))
    /\ j.do = "settings" /\ x.pc = "row" => TrueAt(rows, x.seen, TRUE)
    /\ j.do = "settings" /\ x.pc = "keep_row" => TrueAt(rows, x.seen, x.fit = rows[Settings])
    /\ j.do = "may" /\ x.pc = "codes" => TrueAt(rows, x.seen, TRUE)
    /\ j.do = "may" /\ x.pc = "keep_codes" => TrueAt(rows, x.seen, HeldFits(rows, j.by, x.fit))
    /\ j.do = "info" /\ x.pc \in {"version", "payload", "load", "off", "keep_off", "keep_payload"} => Builds(rows, x, j.by)

CachesInv == GoodMemory(db, kept) /\ \A t \in Requests : Reader(db, tx[t], job[t])

\* What is kept is as it was.
Same(rows, new) ==
    /\ new[ConfigVersion] = rows[ConfigVersion]
    /\ \A r \in Roles \cup Features \cup {Settings} : new[r] = rows[r]
    /\ \A a \in Accounts : rows[a].is # "None" => new[a].role = rows[a].role

\* What a step makes of the rows: accounts stay, and are edited under another version; and either what is
\* kept is as it was, or config_version is raised.
Onward(rows, new) ==
    /\ rows[ConfigVersion] \in Nat /\ new[ConfigVersion] \in Nat /\ \A a \in Accounts : rows[a].role \in Roles
    /\ \A a \in Accounts : rows[a].is # "None" =>
        /\ new[a].is # "None" /\ rows[a].version \in Nat /\ new[a].version \in Nat
        /\ new[a].version > rows[a].version \/ (new[a].version = rows[a].version /\ new[a].must = rows[a].must)
    /\ Same(rows, new) \/ new[ConfigVersion] > rows[ConfigVersion]

LEMMA RowTypes ==
    ASSUME BInv
    PROVE  /\ db[ConfigVersion] \in Nat /\ \A a \in Accounts : db[a] \in AccountType
           /\ \A a \in Accounts : db[a].role \in Roles /\ db[a].version \in Nat
<1>1. \A r \in Rows : Fits(r, db[r])
  BY DEF BInv
<1>2. db[ConfigVersion] \in Nat /\ \A a \in Accounts : db[a] \in AccountType
  BY <1>1, RowsAre, TypesAre
<1> QED
  BY <1>2 DEF AccountType

LEMMA StepOnward ==
    ASSUME BInv, NEW t \in Requests, StepBy(t)
    PROVE  Onward(db, db')
<1>1. PICK rows : rows = db'
  OBVIOUS
<1>2. \A a \in Accounts : Moves(db[a], rows[a], job[t], a)
  BY <1>1, StepLeaves DEF Leaves
<1>3. BInv' /\ rows[ConfigVersion] \in Nat /\ \A a \in Accounts : rows[a].version \in Nat
  <2>1. BInv'
    BY FormStepKeeps, AdminStepKeeps, OwnStepKeeps, FinishKeeps, RefuseKeeps, CacheStepKeeps DEF StepBy
  <2>2. \A r \in Rows : Fits(r, rows[r])
    BY <1>1, <2>1 DEF BInv
  <2>3. rows[ConfigVersion] \in Nat /\ \A a \in Accounts : rows[a] \in AccountType
    BY <2>2, RowsAre, TypesAre
  <2> QED
    BY <2>1, <2>3 DEF AccountType
<1>4. ASSUME NEW a \in Accounts, db[a].is # "None"
      PROVE  /\ rows[a].is # "None"
             /\ rows[a].version > db[a].version \/ (rows[a].version = db[a].version /\ rows[a].must = db[a].must)
  BY <1>2, <1>4 DEF Moves
<1>5. Same(db, rows) \/ rows[ConfigVersion] > db[ConfigVersion]
  <2>1. CASE Aside(t)
    BY <1>1, <2>1, RowsAre DEF Aside, Same
  <2>2. CASE Finish(t)
    <3>1. tx[t].pc = "commit" /\ \A r \in Rows : rows[r] = IF r \in DOMAIN tx[t].mine THEN tx[t].mine[r] ELSE db[r]
      BY <1>1, <2>2, FinishIs
    <3>2. CASE ConfigVersion \in DOMAIN tx[t].mine
      <4>1. rows[ConfigVersion] = db[ConfigVersion] + 1
        BY <3>1, <3>2, About, RowsAre DEF Knows
      <4> QED
        BY <4>1, RowTypes
    <3>3. CASE ConfigVersion \notin DOMAIN tx[t].mine
      <4>1. Clean(db, tx[t].mine)
        BY <3>1, <3>3, About DEF Knows, Pending
      <4>2. rows[ConfigVersion] = db[ConfigVersion]
        BY <3>1, <3>3, RowsAre
      <4>3. \A r \in Roles \cup Features \cup {Settings} : rows[r] = db[r]
        BY <3>1, <4>1, RowsAre DEF Clean
      <4>4. \A a \in Accounts : db[a].is # "None" => rows[a].role = db[a].role
        BY <3>1, <4>1, RowsAre DEF Clean
      <4> QED
        BY <4>2, <4>3, <4>4 DEF Same
    <3> QED
      BY <3>2, <3>3
  <2> QED
    BY <2>1, <2>2, AsideOrFinish
<1> QED
  BY <1>1, <1>3, <1>4, <1>5, RowTypes DEF Onward

\* What is kept does not depend on the rest.
LEMMA SameIs ==
    ASSUME NEW rows, NEW new, Same(rows, new)
    PROVE  /\ OffIn(new) = OffIn(rows) /\ MenuIn(new) = MenuIn(rows) /\ new[Settings] = rows[Settings]
           /\ \A role \in Roles : GrantedIn(new, role) = GrantedIn(rows, role)
           /\ \A role \in Roles : \A part : PartIn(new, role, part) = PartIn(rows, role, part)
<1>1. OffIn(new) = OffIn(rows)
  BY OneGroup DEF OffIn, Same
<1>2. MenuIn(new) = MenuIn(rows)
  BY DEF MenuIn, Same
<1>3. new[Settings] = rows[Settings] /\ \A role \in Roles : GrantedIn(new, role) = GrantedIn(rows, role)
  BY DEF Same, GrantedIn
<1> QED
  BY <1>1, <1>2, <1>3 DEF PartIn

LEMMA WasSoOutlives ==
    ASSUME NEW rows, NEW new, Onward(rows, new), NEW a, NEW edited, NEW must, WasSo(rows, a, edited, must)
    PROVE  WasSo(new, a, edited, must)
BY DEF Onward, WasSo

LEMMA HeldFitsOutlives ==
    ASSUME NEW rows, NEW new, Onward(rows, new), Same(rows, new), NEW a \in Accounts, NEW held, HeldFits(rows, a, held)
    PROVE  HeldFits(new, a, held)
BY SameIs DEF Onward, Same, HeldFits

LEMMA GoodPayloadOutlives ==
    ASSUME NEW rows, NEW new, Onward(rows, new), NEW p, GoodPayload(rows, p)
    PROVE  GoodPayload(new, p)
<1>1. PICK version \in 0 .. rows[ConfigVersion], role \in Roles, edited \in 0 .. rows[p.who].version :
        /\ p.etag = payload_etag(version, role, p.who, edited)
        /\ WasSo(rows, p.who, edited, p.must)
        /\ TrueAt(rows, version, ShowsTruth(rows, role, p))
  BY DEF GoodPayload
<1>2. WasSo(new, p.who, edited, p.must)
  BY <1>1, WasSoOutlives
<1>3. ShowsTruth(rows, role, p) /\ Same(rows, new) => ShowsTruth(new, role, p)
  BY SameIs DEF ShowsTruth
<1>4. TrueAt(new, version, ShowsTruth(new, role, p))
  BY <1>1, <1>3 DEF TrueAt, Onward, Same
<1>5. version \in 0 .. new[ConfigVersion] /\ edited \in 0 .. new[p.who].version
  BY <1>2, <1>4 DEF TrueAt, WasSo, Onward
<1> QED
  BY <1>1, <1>2, <1>4, <1>5 DEF GoodPayload

LEMMA GoodMemoryOutlives ==
    ASSUME NEW rows, NEW new, Onward(rows, new), NEW k, GoodMemory(rows, k)
    PROVE  GoodMemory(new, k)
<1>1. TrueAt(new, k.off.at, k.off.value = OffIn(new))
  BY SameIs DEF GoodMemory, TrueAt, Onward, Same
<1>2. TrueAt(new, k.settings.at, k.settings.value = new[Settings])
  BY SameIs DEF GoodMemory, TrueAt, Onward, Same
<1>3. ASSUME NEW a \in Accounts
      PROVE  TrueAt(new, k.permissions[a].at, HeldFits(new, a, k.permissions[a].value))
  <2>1. TrueAt(rows, k.permissions[a].at, HeldFits(rows, a, k.permissions[a].value))
    BY DEF GoodMemory
  <2>2. HeldFits(rows, a, k.permissions[a].value) /\ Same(rows, new) => HeldFits(new, a, k.permissions[a].value)
    BY HeldFitsOutlives
  <2> QED
    BY <2>1, <2>2 DEF TrueAt, Onward, Same
<1>4. \A p \in k.payloads : GoodPayload(new, p)
  BY GoodPayloadOutlives DEF GoodMemory
<1> QED
  BY <1>1, <1>2, <1>3, <1>4 DEF GoodMemory

LEMMA BuildsOutlives ==
    ASSUME NEW rows, NEW new, Onward(rows, new), NEW x, NEW a, Builds(rows, x, a)
    PROVE  Builds(new, x, a)
<1>1. x.seen.role \in Roles /\ WasSo(new, a, x.seen.edited, x.seen.must)
  BY WasSoOutlives DEF Builds
<1>2. IF x.pc = "version" THEN {"role", "edited", "must"} \subseteq DOMAIN x.seen ELSE TrueAt(new, x.seen.version, TRUE)
  BY DEF Builds, TrueAt, Onward, Same
<1>3. ASSUME x.pc \in {"load", "off", "keep_off", "keep_payload"}, NEW part \in Parts, x.pc = "load" => part \notin x.todo
      PROVE  part \in DOMAIN x.fit /\ TrueAt(new, x.seen.version, x.fit[part] = PartIn(new, x.seen.role, part))
  <2>1. part \in DOMAIN x.fit /\ TrueAt(rows, x.seen.version, x.fit[part] = PartIn(rows, x.seen.role, part))
    BY <1>3 DEF Builds
  <2>2. Same(rows, new) => PartIn(new, x.seen.role, part) = PartIn(rows, x.seen.role, part)
    BY <1>1, SameIs
  <2> QED
    BY <2>1, <2>2 DEF TrueAt, Onward, Same
<1> QED
  BY <1>1, <1>2, <1>3 DEF Builds

LEMMA ReaderOutlives ==
    ASSUME NEW rows, NEW new, Onward(rows, new), NEW x, NEW j, Reader(rows, x, j), j.do = "may" => j.by \in Accounts
    PROVE  Reader(new, x, j)
<1>1. j.do \in {"enter", "info"} /\ x.pc = "off" => TrueAt(new, x.seen.version, TRUE)
  BY DEF Reader, TrueAt, Onward, Same
<1>2. j.do \in {"enter", "info"} /\ x.pc \in {"keep_off", "keep_payload"} =>
            TrueAt(new, x.seen.version, x.todo = OffIn(new))
  BY SameIs DEF Reader, TrueAt, Onward, Same
<1>3. j.do = "settings" /\ x.pc = "row" => TrueAt(new, x.seen, TRUE)
  BY DEF Reader, TrueAt, Onward, Same
<1>4. j.do = "settings" /\ x.pc = "keep_row" => TrueAt(new, x.seen, x.fit = new[Settings])
  BY SameIs DEF Reader, TrueAt, Onward, Same
<1>5. j.do = "may" /\ x.pc = "codes" => TrueAt(new, x.seen, TRUE)
  BY DEF Reader, TrueAt, Onward, Same
<1>6. ASSUME j.do = "may" /\ x.pc = "keep_codes"
      PROVE  TrueAt(new, x.seen, HeldFits(new, j.by, x.fit))
  <2>1. TrueAt(rows, x.seen, HeldFits(rows, j.by, x.fit))
    BY <1>6 DEF Reader
  <2>2. HeldFits(rows, j.by, x.fit) /\ Same(rows, new) => HeldFits(new, j.by, x.fit)
    BY <1>6, HeldFitsOutlives
  <2> QED
    BY <2>1, <2>2 DEF TrueAt, Onward, Same
<1>7. j.do = "info" /\ x.pc \in {"version", "payload", "load", "off", "keep_off", "keep_payload"} => Builds(new, x, j.by)
  BY BuildsOutlives DEF Reader
<1> QED
  BY <1>1, <1>2, <1>3, <1>4, <1>5, <1>6, <1>7 DEF Reader

\* A value is kept.
LEMMA KeepsOff ==
    ASSUME NEW rows, NEW k, GoodMemory(rows, k), NEW at, NEW value, TrueAt(rows, at, value = OffIn(rows)),
           NEW m, m = [k EXCEPT !.off = [at |-> at, value |-> value]]
    PROVE  GoodMemory(rows, m)
<1>0. PICK e : e = [at |-> at, value |-> value]
  OBVIOUS
<1>1. e = [at |-> at, value |-> value] /\ e.at = at /\ e.value = value
  BY <1>0
<1>2. k = [off |-> k.off, settings |-> k.settings, permissions |-> k.permissions, payloads |-> k.payloads]
  BY DEF GoodMemory
<1>3. m = [off |-> e, settings |-> k.settings, permissions |-> k.permissions, payloads |-> k.payloads]
  BY <1>1, <1>2
<1>4. m.off = e /\ m.settings = k.settings /\ m.permissions = k.permissions /\ m.payloads = k.payloads
  BY <1>3
<1> QED
  BY <1>1, <1>3, <1>4 DEF GoodMemory

LEMMA KeepsSettings ==
    ASSUME NEW rows, NEW k, GoodMemory(rows, k), NEW at, NEW value, TrueAt(rows, at, value = rows[Settings]),
           NEW m, m = [k EXCEPT !.settings = [at |-> at, value |-> value]]
    PROVE  GoodMemory(rows, m)
<1>0. PICK e : e = [at |-> at, value |-> value]
  OBVIOUS
<1>1. e = [at |-> at, value |-> value] /\ e.at = at /\ e.value = value
  BY <1>0
<1>2. k = [off |-> k.off, settings |-> k.settings, permissions |-> k.permissions, payloads |-> k.payloads]
  BY DEF GoodMemory
<1>3. m = [off |-> k.off, settings |-> e, permissions |-> k.permissions, payloads |-> k.payloads]
  BY <1>1, <1>2
<1>4. m.off = k.off /\ m.settings = e /\ m.permissions = k.permissions /\ m.payloads = k.payloads
  BY <1>3
<1> QED
  BY <1>1, <1>3, <1>4 DEF GoodMemory

LEMMA KeepsPermissions ==
    ASSUME NEW rows, NEW k, GoodMemory(rows, k), NEW a \in Accounts, NEW at, NEW value,
           TrueAt(rows, at, HeldFits(rows, a, value)),
           NEW m, m = [k EXCEPT !.permissions[a] = [at |-> at, value |-> value]]
    PROVE  GoodMemory(rows, m)
<1>0. PICK e : e = [at |-> at, value |-> value]
  OBVIOUS
<1>1. e = [at |-> at, value |-> value] /\ e.at = at /\ e.value = value
  BY <1>0
<1>2. k = [off |-> k.off, settings |-> k.settings, permissions |-> k.permissions, payloads |-> k.payloads]
  BY DEF GoodMemory
<1>3. PICK f : f = [k.permissions EXCEPT ![a] = e]
  OBVIOUS
<1>4. m = [off |-> k.off, settings |-> k.settings, permissions |-> f, payloads |-> k.payloads]
  BY <1>1, <1>2, <1>3
<1>5. m.off = k.off /\ m.settings = k.settings /\ m.permissions = f /\ m.payloads = k.payloads
  BY <1>4
<1>6. f = [b \in Accounts |-> f[b]] /\ f[a] = e /\ \A b \in Accounts : b # a => f[b] = k.permissions[b]
  BY <1>3 DEF GoodMemory
<1>7. ASSUME NEW b \in Accounts
      PROVE  TrueAt(rows, f[b].at, HeldFits(rows, b, f[b].value))
  <2>1. CASE b = a
    BY <1>1, <1>6, <2>1
  <2>2. CASE b # a
    BY <1>6, <2>2 DEF GoodMemory
  <2> QED
    BY <2>1, <2>2
<1> QED
  BY <1>4, <1>5, <1>6, <1>7 DEF GoodMemory

LEMMA KeepsPayload ==
    ASSUME NEW rows, NEW k, GoodMemory(rows, k), NEW p, GoodPayload(rows, p), NEW gone,
           NEW m, m = [k EXCEPT !.payloads = (@ \ gone) \cup {p}]
    PROVE  GoodMemory(rows, m)
<1>1. PICK ps : ps = (k.payloads \ gone) \cup {p}
  OBVIOUS
<1>2. k = [off |-> k.off, settings |-> k.settings, permissions |-> k.permissions, payloads |-> k.payloads]
  BY DEF GoodMemory
<1>3. m = [off |-> k.off, settings |-> k.settings, permissions |-> k.permissions, payloads |-> ps]
  BY <1>1, <1>2
<1>4. m.off = k.off /\ m.settings = k.settings /\ m.permissions = k.permissions /\ m.payloads = ps
  BY <1>3
<1>5. \A q \in ps : GoodPayload(rows, q)
  BY <1>1 DEF GoodMemory
<1> QED
  BY <1>3, <1>4, <1>5 DEF GoodMemory

\* Where nothing is asked of a reader.
LEMMA PlainReader ==
    ASSUME NEW rows, NEW y, NEW j, y.pc \notin CachePcs
    PROVE  Reader(rows, y, j)
BY DEF Reader, CachePcs

\* What the rows say is what the statements find.
LEMMA FoundIs ==
    /\ OffNow = OffIn(db) /\ MenuRows = MenuIn(db) /\ \A role : Granted(role) = GrantedIn(db, role)
    /\ \A part, role : PartValue(part, role) = PartIn(db, role, part)
BY DEF OffNow, IsOff, OffIn, MenuRows, MenuIn, Granted, GrantedIn, PartValue, PartIn

LEMMA switched_offReads ==
    ASSUME BInv, NEW t \in Requests, NEW pc, switched_off(t, tx[t].seen.version, pc), GoodMemory(db, kept),
           TrueAt(db, tx[t].seen.version, TRUE),
           tx[t].pc = "keep_off" => TrueAt(db, tx[t].seen.version, tx[t].todo = OffIn(db))
    PROVE  /\ GoodMemory(db, kept') /\ tx[t].pc \in {"off", "keep_off"}
           /\ \E y : /\ tx'[t] = y /\ y.fit = tx[t].fit /\ y.seen = tx[t].seen /\ y.pc \in {pc, "keep_off"}
                     /\ TrueAt(db, y.seen.version, y.todo = OffIn(db))
<1>1. PICK next :
        /\ ReadsOn(t, next) /\ next.fit = tx[t].fit /\ next.seen = tx[t].seen
        /\ \/ /\ tx[t].pc = "off" /\ kept.off.at = tx[t].seen.version /\ next.todo = kept.off.value /\ next.pc = pc
              /\ kept' = kept
           \/ tx[t].pc = "off" /\ next.todo = OffNow /\ next.pc = "keep_off" /\ kept' = kept
           \/ /\ tx[t].pc = "keep_off" /\ next.todo = tx[t].todo /\ next.pc = pc
              /\ kept' = [kept EXCEPT !.off = [at |-> tx[t].seen.version, value |-> tx[t].todo]]
  BY switched_offIs
<1>2. tx'[t] = next
  BY <1>1, LookGoes DEF ReadsOn
<1>3. PICK m : m = kept'
  OBVIOUS
<1>4. TrueAt(db, next.seen.version, next.todo = OffIn(db))
  <2>1. CASE kept.off.at = tx[t].seen.version /\ next.todo = kept.off.value
    BY <1>1, <2>1 DEF GoodMemory, TrueAt
  <2>2. CASE next.todo = OffNow
    BY <1>1, <2>2, FoundIs DEF TrueAt
  <2>3. CASE tx[t].pc = "keep_off" /\ next.todo = tx[t].todo
    BY <1>1, <2>3
  <2> QED
    BY <1>1, <2>1, <2>2, <2>3
<1>5. GoodMemory(db, m)
  <2>1. CASE kept' = kept
    BY <1>3, <2>1
  <2>2. CASE tx[t].pc = "keep_off" /\ kept' = [kept EXCEPT !.off = [at |-> tx[t].seen.version, value |-> tx[t].todo]]
    <3>1. PICK at, value : at = tx[t].seen.version /\ value = tx[t].todo
      OBVIOUS
    <3>2. m = [kept EXCEPT !.off = [at |-> at, value |-> value]]
      BY <1>3, <2>2, <3>1
    <3>3. TrueAt(db, at, value = OffIn(db))
      BY <2>2, <3>1
    <3> QED
      BY <3>2, <3>3, KeepsOff
  <2> QED
    BY <1>1, <2>1, <2>2
<1> QED
  BY <1>1, <1>2, <1>3, <1>4, <1>5

\* What a reader's step has to show.
Fine(t) == GoodMemory(db, kept') /\ Reader(db, tx'[t], job[t])

LEMMA LeaveReads ==
    ASSUME BInv, NEW t \in Requests, NEW pc \in {"done", "failed"}, Leave(t, pc), kept' = kept, GoodMemory(db, kept)
    PROVE  Fine(t)
<1>1. PICK y : y = tx'[t] /\ y.pc = pc
  BY LeaveIs, BlankIs DEF Moved, BInv
<1>2. Reader(db, y, job[t])
  BY <1>1, PlainReader DEF CachePcs
<1> QED
  BY <1>1, <1>2 DEF Fine

LEMMA requirePermissionReads ==
    ASSUME BInv, NEW t \in Requests, requirePermission(t), GoodMemory(db, kept), Reader(db, tx[t], job[t])
    PROVE  Fine(t)
<1>1. job[t].do = "enter"
  BY requirePermissionIs
<1>2. CASE (Leave(t, "failed") \/ Leave(t, "done")) /\ kept' = kept
  BY <1>2, LeaveReads
<1>3. ASSUME NEW next, ReadsOn(t, next), next.pc = "off", next.seen = [version |-> db[ConfigVersion]], kept' = kept
      PROVE  Fine(t)
  <2>1. tx'[t] = next
    BY <1>3, LookGoes DEF ReadsOn
  <2>2. next.seen.version = db[ConfigVersion]
    BY <1>3
  <2>3. TrueAt(db, next.seen.version, TRUE)
    BY <2>2, RowTypes DEF TrueAt
  <2>4. Reader(db, next, job[t])
    BY <1>1, <1>3, <2>3 DEF Reader
  <2> QED
    BY <1>3, <2>1, <2>4 DEF Fine
<1>4. CASE switched_off(t, tx[t].seen.version, "verdict")
  <2>0. tx[t].pc \in {"off", "keep_off"}
    BY <1>4 DEF switched_off, At
  <2>1. /\ TrueAt(db, tx[t].seen.version, TRUE)
        /\ tx[t].pc = "keep_off" => TrueAt(db, tx[t].seen.version, tx[t].todo = OffIn(db))
    BY <1>1, <2>0 DEF Reader, TrueAt
  <2>2. /\ GoodMemory(db, kept')
        /\ \E y : /\ tx'[t] = y /\ y.pc \in {"verdict", "keep_off"} /\ TrueAt(db, y.seen.version, y.todo = OffIn(db))
    BY <1>4, <2>1, switched_offReads
  <2>3. PICK y : /\ tx'[t] = y /\ y.pc \in {"verdict", "keep_off"} /\ TrueAt(db, y.seen.version, y.todo = OffIn(db))
    BY <2>2
  <2>4. Reader(db, y, job[t])
    BY <1>1, <2>3 DEF Reader
  <2> QED
    BY <2>2, <2>3, <2>4 DEF Fine
<1> QED
  BY <1>2, <1>3, <1>4, requirePermissionIs

LEMMA getSettingsReads ==
    ASSUME BInv, NEW t \in Requests, getSettings(t), GoodMemory(db, kept), Reader(db, tx[t], job[t])
    PROVE  Fine(t)
<1>1. job[t].do = "settings"
  BY getSettingsIs
<1>2. CASE Leave(t, "done") /\ kept' = kept
  BY <1>2, LeaveReads
<1>3. ASSUME NEW next, ReadsOn(t, next), next.pc = "row", next.seen = db[ConfigVersion], kept' = kept
      PROVE  Fine(t)
  <2>1. tx'[t] = next
    BY <1>3, LookGoes DEF ReadsOn
  <2>2. Reader(db, next, job[t])
    BY <1>1, <1>3, RowTypes DEF Reader, TrueAt
  <2> QED
    BY <1>3, <2>1, <2>2 DEF Fine
<1>4. ASSUME NEW next, ReadsOn(t, next), next.pc = "keep_row", next.seen = tx[t].seen, next.fit = db[Settings],
             tx[t].pc = "row", kept' = kept
      PROVE  Fine(t)
  <2>1. tx'[t] = next
    BY <1>4, LookGoes DEF ReadsOn
  <2>2. Reader(db, next, job[t])
    BY <1>1, <1>4 DEF Reader, TrueAt
  <2> QED
    BY <1>4, <2>1, <2>2 DEF Fine
<1>5. CASE /\ Look(t, Blank("done")) /\ tx[t].pc = "keep_row"
           /\ kept' = [kept EXCEPT !.settings = [at |-> tx[t].seen, value |-> tx[t].fit]]
  <2>1. PICK y : y = tx'[t] /\ y.pc = "done"
    BY <1>5, LookGoes, BlankIs
  <2>2. Reader(db, y, job[t])
    BY <2>1, PlainReader DEF CachePcs
  <2>3. PICK m, at, value : m = kept' /\ at = tx[t].seen /\ value = tx[t].fit
    OBVIOUS
  <2>4. m = [kept EXCEPT !.settings = [at |-> at, value |-> value]]
    BY <1>5, <2>3
  <2>5. TrueAt(db, at, value = db[Settings])
    BY <1>1, <1>5, <2>3 DEF Reader
  <2>6. GoodMemory(db, m)
    BY <2>4, <2>5, KeepsSettings
  <2> QED
    BY <2>1, <2>2, <2>3, <2>6 DEF Fine
<1> QED
  BY <1>2, <1>3, <1>4, <1>5, getSettingsIs

LEMMA permissions_forReads ==
    ASSUME BInv, NEW t \in Requests, permissions_for(t), GoodMemory(db, kept), Reader(db, tx[t], job[t])
    PROVE  Fine(t)
<1>1. job[t].do = "may" /\ By(t) = job[t].by /\ By(t) \in Accounts
  BY permissions_forIs, About DEF Form, By
<1>2. CASE Leave(t, "done") /\ kept' = kept
  BY <1>2, LeaveReads
<1>3. ASSUME NEW next, ReadsOn(t, next), next.pc = "codes", next.seen = db[ConfigVersion], kept' = kept
      PROVE  Fine(t)
  <2>1. tx'[t] = next
    BY <1>3, LookGoes DEF ReadsOn
  <2>2. Reader(db, next, job[t])
    BY <1>1, <1>3, RowTypes DEF Reader, TrueAt
  <2> QED
    BY <1>3, <2>1, <2>2 DEF Fine
<1>4. ASSUME NEW next, ReadsOn(t, next), next.pc = "keep_codes", next.seen = tx[t].seen, next.fit = Held(By(t)),
             tx[t].pc = "codes", kept' = kept
      PROVE  Fine(t)
  <2>1. tx'[t] = next
    BY <1>4, LookGoes DEF ReadsOn
  <2>2. HeldFits(db, job[t].by, next.fit)
    BY <1>1, <1>4 DEF Held, HeldFits, GrantedIn
  <2>3. TrueAt(db, next.seen, TRUE)
    BY <1>1, <1>4 DEF Reader
  <2>4. TrueAt(db, next.seen, HeldFits(db, job[t].by, next.fit))
    BY <2>2, <2>3 DEF TrueAt
  <2>5. Reader(db, next, job[t])
    BY <1>1, <1>4, <2>4 DEF Reader
  <2> QED
    BY <1>4, <2>1, <2>5 DEF Fine
<1>5. CASE /\ Look(t, Blank("done")) /\ tx[t].pc = "keep_codes"
           /\ kept' = [kept EXCEPT !.permissions[By(t)] = [at |-> tx[t].seen, value |-> tx[t].fit]]
  <2>1. PICK y : y = tx'[t] /\ y.pc = "done"
    BY <1>5, LookGoes, BlankIs
  <2>2. Reader(db, y, job[t])
    BY <2>1, PlainReader DEF CachePcs
  <2>3. PICK m, at, value : m = kept' /\ at = tx[t].seen /\ value = tx[t].fit
    OBVIOUS
  <2>4. PICK a \in Accounts : a = By(t) /\ a = job[t].by
    BY <1>1
  <2>5. m = [kept EXCEPT !.permissions[a] = [at |-> at, value |-> value]]
    BY <1>5, <2>3, <2>4
  <2>6. TrueAt(db, at, HeldFits(db, a, value))
    BY <1>1, <1>5, <2>3, <2>4 DEF Reader
  <2>7. GoodMemory(db, m)
    BY <2>5, <2>6, KeepsPermissions
  <2> QED
    BY <2>1, <2>2, <2>3, <2>7 DEF Fine
<1> QED
  BY <1>2, <1>3, <1>4, <1>5, permissions_forIs

\* One of the three queries is answered.
LEMMA LoadPartReads ==
    ASSUME BInv, NEW t \in Requests, LoadPart(t), NEW a, Builds(db, tx[t], a)
    PROVE  kept' = kept /\ \E y : tx'[t] = y /\ y.pc = "load" /\ Builds(db, y, a)
<1>1. PICK part \in tx[t].todo : \E next :
        /\ ReadsOn(t, next) /\ next.pc = "load" /\ next.seen = tx[t].seen /\ next.todo = tx[t].todo \ {part}
        /\ next.fit = Version(part, PartValue(part, tx[t].seen.role)) ++ tx[t].fit
        /\ tx[t].pc = "load" /\ kept' = kept
  BY LoadPartIs
<1>2. PICK next, value, new :
        /\ ReadsOn(t, next) /\ next.pc = "load" /\ next.seen = tx[t].seen /\ next.todo = tx[t].todo \ {part}
        /\ value = PartValue(part, tx[t].seen.role) /\ new = Version(part, value) /\ next.fit = new ++ tx[t].fit
        /\ tx[t].pc = "load" /\ kept' = kept
  BY <1>1
<1>3. tx'[t] = next
  BY <1>2, LookGoes DEF ReadsOn
<1>4. DOMAIN new = {part} /\ new[part] = value
  BY <1>2, OneVersion
<1>5. Newest(next.fit, new, tx[t].fit)
  BY <1>2, NewestCounts
<1>6. DOMAIN next.fit = DOMAIN tx[t].fit \cup {part} /\ next.fit[part] = PartIn(db, tx[t].seen.role, part)
  BY <1>2, <1>4, <1>5, FoundIs DEF Newest
<1>7. \A q \in DOMAIN tx[t].fit : q # part => next.fit[q] = tx[t].fit[q]
  BY <1>4, <1>5 DEF Newest
<1>8. TrueAt(db, next.seen.version, TRUE) /\ next.seen.role = tx[t].seen.role
  BY <1>2 DEF Builds
<1>9. ASSUME NEW q \in Parts, q \notin next.todo
      PROVE  q \in DOMAIN next.fit /\ TrueAt(db, next.seen.version, next.fit[q] = PartIn(db, next.seen.role, q))
  <2>1. CASE q = part
    BY <1>6, <1>8, <2>1 DEF TrueAt
  <2>2. CASE q # part
    <3>1. q \notin tx[t].todo
      BY <1>2, <1>9, <2>2
    <3>2. q \in DOMAIN tx[t].fit /\ TrueAt(db, tx[t].seen.version, tx[t].fit[q] = PartIn(db, tx[t].seen.role, q))
      BY <1>2, <3>1 DEF Builds
    <3> QED
      BY <1>2, <1>6, <1>7, <2>2, <3>2
  <2> QED
    BY <2>1, <2>2
<1>10. next.seen.role \in Roles /\ WasSo(db, a, next.seen.edited, next.seen.must) /\ next.todo \subseteq Parts
  BY <1>2 DEF Builds
<1>11. Builds(db, next, a)
  BY <1>2, <1>8, <1>9, <1>10 DEF Builds
<1> QED
  BY <1>2, <1>3, <1>11

\* The payload that was put together is a good one.
LEMMA PayloadIsGood ==
    ASSUME NEW t \in Requests, Builds(db, tx[t], By(t)), tx[t].pc = "keep_payload",
           TrueAt(db, tx[t].seen.version, tx[t].todo = OffIn(db)), db[ConfigVersion] \in Nat, db[By(t)].version \in Nat
    PROVE  GoodPayload(db, Payload(t))
<1>1. PICK x, a : x = tx[t] /\ a = By(t)
  OBVIOUS
<1>2. PICK etag, menu, off : /\ etag = payload_etag(x.seen.version, x.seen.role, a, x.seen.edited)
                             /\ menu = build_menu(x.fit.menu, x.fit.grants)
                             /\ off = {f \in {FeatureOf[action] : action \in x.fit.grants} : f \in x.todo}
  OBVIOUS
<1>3. PICK p : p = [etag |-> etag, who |-> a, role |-> x.seen.name, must |-> x.seen.must, grants |-> x.fit.grants,
                    menu |-> menu, settings |-> x.fit.settings, off |-> off]
  OBVIOUS
<1>4. Payload(t) = p
  BY <1>1, <1>2, <1>3 DEF Payload, Etag
<1>5. /\ p.etag = etag /\ p.who = a /\ p.must = x.seen.must /\ p.grants = x.fit.grants
      /\ p.menu = menu /\ p.settings = x.fit.settings /\ p.off = off
  BY <1>3
<1>6. /\ x.seen.role \in Roles /\ WasSo(db, a, x.seen.edited, x.seen.must) /\ TrueAt(db, x.seen.version, TRUE)
      /\ \A part \in Parts : TrueAt(db, x.seen.version, x.fit[part] = PartIn(db, x.seen.role, part))
      /\ TrueAt(db, x.seen.version, x.todo = OffIn(db))
  BY <1>1 DEF Builds
<1>7. ASSUME x.seen.version = db[ConfigVersion]
      PROVE  ShowsTruth(db, x.seen.role, p)
  <2>1. \A part \in Parts : x.fit[part] = PartIn(db, x.seen.role, part)
    BY <1>6, <1>7 DEF TrueAt
  <2>2. x.fit.grants = GrantedIn(db, x.seen.role) /\ x.fit.menu = MenuIn(db) /\ x.fit.settings = db[Settings].business
    BY <2>1 DEF PartIn, Parts
  <2>3. x.todo = OffIn(db)
    BY <1>6, <1>7 DEF TrueAt
  <2>4. off = {FeatureOf[action] : action \in x.fit.grants} \cap OffIn(db)
    BY <1>2, <2>3
  <2>5. menu = build_menu(MenuIn(db), x.fit.grants)
    BY <1>2, <2>2
  <2> QED
    BY <1>5, <2>2, <2>4, <2>5 DEF ShowsTruth
<1>8. TrueAt(db, x.seen.version, ShowsTruth(db, x.seen.role, p))
  BY <1>6, <1>7 DEF TrueAt
<1>9. x.seen.version \in 0 .. db[ConfigVersion] /\ x.seen.edited \in 0 .. db[a].version
  BY <1>1, <1>6 DEF TrueAt, WasSo
<1>10. GoodPayload(db, p)
  BY <1>2, <1>5, <1>6, <1>8, <1>9 DEF GoodPayload
<1> QED
  BY <1>4, <1>10

LEMMA get_user_infoReads ==
    ASSUME BInv, NEW t \in Requests, get_user_info(t), GoodMemory(db, kept), Reader(db, tx[t], job[t])
    PROVE  Fine(t)
<1>1. job[t].do = "info" /\ By(t) = job[t].by /\ By(t) \in Accounts
  BY get_user_infoIs, About DEF Form, By
<1>2. PICK a \in Accounts : a = By(t) /\ a = job[t].by
  BY <1>1
<1>3. CASE (Leave(t, "failed") \/ Leave(t, "done")) /\ kept' = kept
  BY <1>3, LeaveReads
<1>4. ASSUME NEW next, ReadsOn(t, next), kept' = kept, Builds(db, next, a),
             next.pc \in {"version", "payload", "load"} \/ (next.pc = "off" /\ TrueAt(db, next.seen.version, TRUE))
      PROVE  Fine(t)
  <2>1. tx'[t] = next
    BY <1>4, LookGoes DEF ReadsOn
  <2>2. Reader(db, next, job[t])
    BY <1>1, <1>2, <1>4 DEF Reader
  <2> QED
    BY <1>4, <2>1, <2>2 DEF Fine
<1>5. ASSUME NEW next, ReadsOn(t, next), next.pc = "version", kept' = kept, db[By(t)].is # "None",
             next.seen = [role |-> db[By(t)].role, name |-> db[db[By(t)].role].name,
                          edited |-> db[By(t)].version, must |-> db[By(t)].must]
      PROVE  Fine(t)
  <2>1. PICK seen, n : /\ n = db[db[a].role].name /\ seen = next.seen
                       /\ seen = [role |-> db[a].role, name |-> n, edited |-> db[a].version, must |-> db[a].must]
    BY <1>2, <1>5
  <2>2. /\ seen.role = db[a].role /\ seen.edited = db[a].version /\ seen.must = db[a].must
        /\ DOMAIN seen = {"role", "name", "edited", "must"}
    BY <2>1
  <2>3. Builds(db, next, a)
    BY <1>2, <1>5, <2>1, <2>2, RowTypes DEF Builds, WasSo
  <2> QED
    BY <1>4, <1>5, <2>3
<1>6. ASSUME NEW next, ReadsOn(t, next), next.pc = "payload", tx[t].pc = "version", kept' = kept,
             next.seen = [version |-> db[ConfigVersion]] ++ tx[t].seen
      PROVE  Fine(t)
  <2>1. PICK v, seen : v = [version |-> db[ConfigVersion]] /\ seen = next.seen /\ seen = v ++ tx[t].seen
    BY <1>6
  <2>2. DOMAIN v = {"version"} /\ v.version = db[ConfigVersion]
    BY <2>1
  <2>3. Newest(seen, v, tx[t].seen)
    BY <2>1, NewestCounts
  <2>4. Builds(db, tx[t], a) /\ {"role", "edited", "must"} \subseteq DOMAIN tx[t].seen
    BY <1>1, <1>2, <1>6 DEF Reader, Builds
  <2>5. /\ seen.version = db[ConfigVersion] /\ seen.role = tx[t].seen.role /\ seen.edited = tx[t].seen.edited
        /\ seen.must = tx[t].seen.must
    BY <2>2, <2>3, <2>4 DEF Newest
  <2>6. TrueAt(db, next.seen.version, TRUE)
    BY <2>1, <2>5, RowTypes DEF TrueAt
  <2>7. Builds(db, next, a)
    BY <1>6, <2>1, <2>4, <2>5, <2>6 DEF Builds
  <2> QED
    BY <1>4, <1>6, <2>7
<1>7. ASSUME NEW next, ReadsOn(t, next), next.pc = "answer", kept' = kept
      PROVE  Fine(t)
  <2>1. tx'[t] = next
    BY <1>7, LookGoes DEF ReadsOn
  <2>2. Reader(db, next, job[t])
    BY <1>1, <1>7 DEF Reader
  <2> QED
    BY <1>7, <2>1, <2>2 DEF Fine
<1>8. ASSUME NEW next, ReadsOn(t, next), next.pc = "load", tx[t].pc = "payload", kept' = kept, next.seen = tx[t].seen,
             next.todo = {"grants", "menu", "settings"}
      PROVE  Fine(t)
  <2>1. Builds(db, tx[t], a)
    BY <1>1, <1>2, <1>8 DEF Reader
  <2>2. Builds(db, next, a)
    BY <1>8, <2>1 DEF Builds, Parts
  <2> QED
    BY <1>4, <1>8, <2>2
<1>9. CASE LoadPart(t)
  <2>1. Builds(db, tx[t], a)
    BY <1>1, <1>2, <1>9 DEF Reader, LoadPart, At
  <2>2. PICK y : kept' = kept /\ tx'[t] = y /\ y.pc = "load" /\ Builds(db, y, a)
    BY <1>9, <2>1, LoadPartReads
  <2>3. Reader(db, y, job[t])
    BY <1>1, <1>2, <2>2 DEF Reader
  <2> QED
    BY <2>2, <2>3 DEF Fine
<1>10. ASSUME NEW next, ReadsOn(t, next), next.pc = "off", tx[t].pc = "load", kept' = kept, next.seen = tx[t].seen,
              next.fit = tx[t].fit, tx[t].todo = {}
       PROVE  Fine(t)
  <2>1. Builds(db, tx[t], a)
    BY <1>1, <1>2, <1>10 DEF Reader
  <2>2. Builds(db, next, a) /\ TrueAt(db, next.seen.version, TRUE)
    BY <1>10, <2>1 DEF Builds
  <2> QED
    BY <1>4, <1>10, <2>2
<1>11. CASE switched_off(t, tx[t].seen.version, "keep_payload")
  <2>0. tx[t].pc \in {"off", "keep_off"}
    BY <1>11 DEF switched_off, At
  <2>1. /\ TrueAt(db, tx[t].seen.version, TRUE)
        /\ tx[t].pc = "keep_off" => TrueAt(db, tx[t].seen.version, tx[t].todo = OffIn(db))
    BY <1>1, <2>0 DEF Reader, TrueAt
  <2>2. /\ GoodMemory(db, kept')
        /\ \E y : /\ tx'[t] = y /\ y.fit = tx[t].fit /\ y.seen = tx[t].seen /\ y.pc \in {"keep_payload", "keep_off"}
                  /\ TrueAt(db, y.seen.version, y.todo = OffIn(db))
    BY <1>11, <2>1, switched_offReads
  <2>3. PICK y : /\ tx'[t] = y /\ y.fit = tx[t].fit /\ y.seen = tx[t].seen /\ y.pc \in {"keep_payload", "keep_off"}
                 /\ TrueAt(db, y.seen.version, y.todo = OffIn(db))
    BY <2>2
  <2>4. Builds(db, tx[t], a)
    BY <1>1, <1>2, <2>0 DEF Reader
  <2>5. Builds(db, y, a)
    BY <2>0, <2>3, <2>4 DEF Builds
  <2>6. Reader(db, y, job[t])
    BY <1>1, <1>2, <2>3, <2>5 DEF Reader
  <2> QED
    BY <2>2, <2>3, <2>6 DEF Fine
<1>12. ASSUME NEW next, ReadsOn(t, next), next.pc = "answer", tx[t].pc = "keep_payload",
              kept' = [kept EXCEPT !.payloads = (@ \ {p \in kept.payloads : p.etag = Etag(t)}) \cup {Payload(t)}]
       PROVE  Fine(t)
  <2>1. tx'[t] = next
    BY <1>12, LookGoes DEF ReadsOn
  <2>2. Reader(db, next, job[t])
    BY <1>1, <1>12 DEF Reader
  <2>3. PICK m, p, gone : m = kept' /\ p = Payload(t) /\ gone = {q \in kept.payloads : q.etag = Etag(t)}
    OBVIOUS
  <2>4. m = [kept EXCEPT !.payloads = (@ \ gone) \cup {p}]
    BY <1>12, <2>3
  <2>5. Builds(db, tx[t], By(t)) /\ TrueAt(db, tx[t].seen.version, tx[t].todo = OffIn(db))
    BY <1>1, <1>12 DEF Reader
  <2>6. GoodPayload(db, p)
    BY <1>1, <1>12, <2>3, <2>5, RowTypes, PayloadIsGood
  <2>7. GoodMemory(db, m)
    BY <2>4, <2>6, KeepsPayload
  <2> QED
    BY <2>1, <2>2, <2>3, <2>7 DEF Fine
<1> QED
  BY <1>3, <1>5, <1>6, <1>7, <1>8, <1>9, <1>10, <1>11, <1>12, get_user_infoIs

\* A reader's steps change no row, and the others neither what is kept nor what a reader knows.
LEMMA StepReads ==
    ASSUME BInv, NEW t \in Requests, StepBy(t), CacheStep(t) \/ kept' = kept, CachesInv
    PROVE  \/ db' = db /\ GoodMemory(db, kept') /\ Reader(db, tx'[t], job[t])
           \/ GoodMemory(db, kept') /\ \A rows : Reader(rows, tx'[t], job[t])
<1>1. GoodMemory(db, kept) /\ Reader(db, tx[t], job[t])
  BY DEF CachesInv
<1>2. CASE CacheStep(t)
  <2>1. db' = db
    BY <1>2, CacheUnseen DEF Unseen
  <2>2. Fine(t)
    BY <1>1, <1>2, requirePermissionReads, getSettingsReads, permissions_forReads, get_user_infoReads DEF CacheStep
  <2> QED
    BY <2>1, <2>2 DEF Fine
<1>3. CASE kept' = kept /\ job[t].do \notin {"enter", "settings", "may", "info"}
  BY <1>1, <1>3 DEF Reader
<1>4. CASE kept' = kept /\ (Finish(t) \/ Refuse(t))
  <2>1. PICK y : y = tx'[t] /\ y.pc \in {"done", "failed"}
    BY <1>4, FinishGoes, BlankIs, RefuseGoes
  <2>2. \A rows : Reader(rows, y, job[t])
    BY <2>1, PlainReader DEF CachePcs
  <2> QED
    BY <1>1, <1>4, <2>1, <2>2
<1> QED
  BY <1>2, <1>3, <1>4, Kinds DEF Raisers

LEMMA CachesNext == BInv /\ CachesInv /\ [Next]_vars => CachesInv'
<1> SUFFICES ASSUME BInv, CachesInv, [Next]_vars PROVE CachesInv'
  OBVIOUS
<1>1. CASE db' = db /\ tx' = tx /\ job' = job /\ kept' = kept
  BY <1>1 DEF CachesInv
<1>2. ASSUME NEW t \in Requests, StepBy(t), CacheStep(t) \/ kept' = kept
      PROVE  CachesInv'
  <2>1. PICK rows, txs, k : rows = db' /\ txs = tx' /\ k = kept' /\ job' = job
    BY <1>2, StepLeaves DEF Leaves
  <2>2. Onward(db, rows)
    BY <1>2, <2>1, StepOnward
  <2>3. GoodMemory(db, k)
    BY <1>2, <2>1, StepReads
  <2>4. GoodMemory(rows, k)
    BY <2>2, <2>3, GoodMemoryOutlives
  <2>5. ASSUME NEW u \in Requests
        PROVE  Reader(rows, txs[u], job[u])
    <3>1. CASE u = t
      BY <1>2, <2>1, <3>1, StepReads
    <3>2. CASE u # t
      <4>1. txs[u] = tx[u] /\ Reader(db, tx[u], job[u])
        BY <1>2, <2>1, <3>2, StepLeaves DEF Leaves, CachesInv
      <4>2. job[u].do = "may" => job[u].by \in Accounts
        BY About DEF Form
      <4> QED
        BY <2>2, <4>1, <4>2, ReaderOutlives
    <3> QED
      BY <3>1, <3>2
  <2> QED
    BY <2>1, <2>4, <2>5 DEF CachesInv
<1>3. \/ db' = db /\ tx' = tx /\ job' = job /\ kept' = kept
      \/ \E t \in Requests : StepBy(t) /\ (CacheStep(t) \/ kept' = kept)
  BY NextIs DEF StepBy
<1> QED
  BY <1>1, <1>2, <1>3

LEMMA CachesBegin == Init => CachesInv
<1> SUFFICES ASSUME Init PROVE CachesInv
  OBVIOUS
<1>1. BInv /\ db[ConfigVersion] > 0
  BY BeginKnows DEF Init, Tidy
<1>2. PICK e : e = [at |-> 0, value |-> {}]
  OBVIOUS
<1>3. e.at = 0
  BY <1>2
<1>4. kept = [off |-> e, settings |-> e, permissions |-> [a \in Accounts |-> e], payloads |-> {}]
  BY <1>2 DEF Init, NothingKept
<1>5. /\ kept.off = e /\ kept.settings = e /\ kept.permissions = [a \in Accounts |-> e] /\ kept.payloads = {}
      /\ kept = [off |-> kept.off, settings |-> kept.settings, permissions |-> kept.permissions, payloads |-> kept.payloads]
  BY <1>4
<1>7. GoodMemory(db, kept)
  BY <1>1, <1>3, <1>5, RowTypes DEF GoodMemory, TrueAt
<1>8. ASSUME NEW t \in Requests
      PROVE  Reader(db, tx[t], job[t])
  <2>1. tx[t] = Blank("begin")
    BY DEF Init, Begun
  <2> QED
    BY <2>1, BlankIs, PlainReader DEF CachePcs
<1> QED
  BY <1>7, <1>8 DEF CachesInv

\* What is kept and still gone by is true.
LEMMA MemoryIsTrue ==
    ASSUME BInv, CachesInv
    PROVE  CachesAreTrue
<1>1. GoodMemory(db, kept)
  BY DEF CachesInv
<1>2. kept.off.at = db[ConfigVersion] => kept.off.value = OffNow
  BY <1>1, FoundIs DEF GoodMemory, TrueAt
<1>3. kept.settings.at = db[ConfigVersion] => kept.settings.value = db[Settings]
  BY <1>1 DEF GoodMemory, TrueAt
<1>4. ASSUME NEW a \in Accounts, kept.permissions[a].at = db[ConfigVersion]
      PROVE  kept.permissions[a].value \subseteq Granted(db[a].role)
  <2>1. HeldFits(db, a, kept.permissions[a].value)
    BY <1>1, <1>4 DEF GoodMemory, TrueAt
  <2> QED
    BY <2>1, FoundIs DEF HeldFits
<1>5. ASSUME NEW p \in kept.payloads, NEW a \in Accounts, p.etag = EtagNow(a)
      PROVE  /\ p.grants = Granted(db[a].role)
             /\ p.menu = build_menu(MenuRows, p.grants)
             /\ p.off = {FeatureOf[action] : action \in p.grants} \cap OffNow
             /\ p.settings = db[Settings].business
             /\ p.who = a => p.must = db[a].must
  <2>1. PICK version \in 0 .. db[ConfigVersion], role \in Roles, edited \in 0 .. db[p.who].version :
            /\ p.etag = payload_etag(version, role, p.who, edited)
            /\ WasSo(db, p.who, edited, p.must)
            /\ TrueAt(db, version, ShowsTruth(db, role, p))
    BY <1>1 DEF GoodMemory, GoodPayload
  <2>2. PICK x, y : /\ x = (IF edited = 0 THEN << >> ELSE <<p.who, edited>>)
                    /\ y = (IF db[a].version = 0 THEN << >> ELSE <<a, db[a].version>>)
    OBVIOUS
  <2>3. <<version, role, x>> = <<db[ConfigVersion], db[a].role, y>>
    BY <1>5, <2>1, <2>2 DEF EtagNow, payload_etag
  <2>4. version = db[ConfigVersion] /\ role = db[a].role /\ x = y
    BY <2>3
  <2>5. ShowsTruth(db, db[a].role, p)
    BY <2>1, <2>4 DEF TrueAt
  <2>6. ASSUME p.who = a
        PROVE  p.must = db[a].must
    <3>1. edited = db[a].version
      <4>1. CASE edited = 0 /\ db[a].version = 0
        BY <4>1
      <4>2. CASE edited = 0 /\ db[a].version # 0
        BY <2>2, <2>4, <4>2
      <4>3. CASE edited # 0 /\ db[a].version = 0
        BY <2>2, <2>4, <4>3
      <4>4. CASE edited # 0 /\ db[a].version # 0
        <5>1. <<p.who, edited>> = <<a, db[a].version>>
          BY <2>2, <2>4, <4>4
        <5> QED
          BY <5>1
      <4> QED
        BY <4>1, <4>2, <4>3, <4>4
    <3> QED
      BY <2>1, <2>6, <3>1 DEF WasSo
  <2> QED
    BY <2>5, <2>6, FoundIs DEF ShowsTruth
<1>6. CachesTellTheTruth
  BY <1>2, <1>3, <1>4 DEF CachesTellTheTruth
<1>7. PayloadIsCurrent
  BY <1>5 DEF PayloadIsCurrent
<1> QED
  BY <1>6, <1>7, TypesHold DEF CachesAreTrue

\* What an instance keeps of permissions, features and settings is true while the version it was read at is
\* current, and a boot payload while its ETag is the one its account would be given, whatever is changed
\* between the queries it is put together from (require-permission.js, switched-off.js, get-user-info.js).
THEOREM CachesTellTheTruthAlways == Spec => []CachesAreTrue
<1>1. Init => BInv /\ CachesInv
  BY BeginKnows, CachesBegin
<1>2. BInv /\ CachesInv /\ [Next]_vars => (BInv /\ CachesInv)'
  BY NextKeeps, CachesNext
<1>3. BInv /\ CachesInv => CachesAreTrue
  BY MemoryIsTrue
<1> QED
  BY <1>1, <1>2, <1>3, PTL DEF Spec
=============================================================================
