--------------------------- MODULE SessionTxProofs ---------------------------
(***************************************************************************)
(* However the statements of renewals, sign-ins and everything that ends   *)
(* sessions interleave, every COMMIT is one event of Sessions, so an open  *)
(* session can be renewed in one way; an answered sign-out is the end of   *)
(* the sessions it named; and what is about one device is never part of a  *)
(* deadlock.                                                               *)
(*                                                                         *)
(* What a request knows between its statements (Knows) is about committed  *)
(* rows and its own record.  The COMMITs of others leave it, because the   *)
(* tokens of a session are only touched by who has the session locked, and *)
(* what was issued or opened stays what it is (Kept).                      *)
(***************************************************************************)
EXTENDS SessionTx, TLAPS

\* Sessions again, with what is proved of it.
Lasting == INSTANCE SessionsProofs WITH
    account <- [l \in Logins |-> db[Login(l)]],
    session <- [s \in SessionIds |-> db[Session(s)]],
    token <- [k \in Tokens |-> db[Token(k)]]

-----------------------------------------------------------------------------
(* The invariant *)

\* The shape of a request's own record.
IsTx(x) == x \in [pc : {x.pc}, mine : {x.mine}, todo : {x.todo}, fit : {x.fit}, seen : {x.seen}]

\* Where a request has nothing locked.
Unlocked == {"find", "snapshot", "lock", "serve", "user", "begin", "found", "login", "reach", "done", "failed"}

\* The sessions x has ended, for itself.
Over(x) == {s \in SessionIds : Session(s) \in DOMAIN x.mine /\ x.mine[Session(s)].status # "Active"}

\* Those of them whose tokens are still to be revoked.
Loud(x) == IF x.pc = "end" THEN x.fit ELSE {}

\* All that x wrote of sessions and tokens, but for the rows of `new`, is the end of open sessions.
EndsOnly(rows, x, how, new) ==
    /\ \A s \in SessionIds : Session(s) \in DOMAIN x.mine \ new =>
        /\ rows[Session(s)].status = "Active"
        /\ x.mine[Session(s)] \in {rows[Session(s)], [rows[Session(s)] EXCEPT !.status = how]}
    /\ \A k \in Tokens : Token(k) \in DOMAIN x.mine \ new =>
        /\ rows[Token(k)].status = "Active" /\ rows[Token(k)].session \in Over(x)
        /\ x.mine[Token(k)] = [rows[Token(k)] EXCEPT !.status = "Revoked"]
    /\ \A k \in Tokens : rows[Token(k)].status = "Active" /\ rows[Token(k)].session \in Over(x) \ Loud(x) =>
        Token(k) \in DOMAIN x.mine
    /\ Loud(x) \subseteq Over(x)

\* A renewal has session s locked, open and in time.
Holds(rows, x, s, b) ==
    /\ s \in SessionIds /\ Session(s) \in DOMAIN x.mine /\ x.mine[Session(s)] = rows[Session(s)]
    /\ rows[Session(s)].status = "Active" /\ b < rows[Session(s)].until

\* Token k was traded moments ago for one that nobody has used.
Retradable(rows, k, b) ==
    /\ rows[Token(k)].status = "Rotated" /\ b < rows[Token(k)].rotated + Grace
    /\ rows[Token(k)].next \in Tokens /\ k < rows[Token(k)].next
    /\ rows[Token(rows[Token(k)].next)].status = "Active"
    /\ rows[Token(rows[Token(k)].next)].session = rows[Token(k)].session

\* Token k has its first replacement taken back.
TookBack(rows, x, k) ==
    LET c == rows[Token(k)].next
    IN  Token(c) \in DOMAIN x.mine /\ x.mine[Token(c)] = [rows[Token(c)] EXCEPT !.status = "Revoked"]

\* The live token k is about to be traded, or k is traded again: its row and what it says are known.
Tradable(rows, k, b) == rows[Token(k)].status = "Active" /\ b < rows[Token(k)].until

\* A renewal before its trade.
KnowsTrade(rows, x, k, s, b) ==
    /\ Holds(rows, x, s, b)
    /\ \/ x.seen = {"Active"} /\ Tradable(rows, k, b) /\ DOMAIN x.mine = {Session(s)}
       \/ /\ x.seen = {"Rotated"} /\ Retradable(rows, k, b) /\ TookBack(rows, x, k)
          /\ DOMAIN x.mine = {Session(s), Token(rows[Token(k)].next)}

\* A renewal that traded k for n, which is new and issued after all others of the session.
KnowsTraded(rows, x, k, s, n, b) ==
    /\ Holds(rows, x, s, b)
    /\ n \in Tokens /\ rows[Token(n)].status = "None"
    /\ \A i \in Tokens : rows[Token(i)].session = s => i < n
    /\ {Token(k), Token(n)} \subseteq DOMAIN x.mine
    /\ x.mine[Token(n)] = [status |-> "Active", session |-> s, next |-> 0, rotated |-> 0, until |-> b + Idle]
    /\ \/ /\ Tradable(rows, k, b) /\ DOMAIN x.mine = {Session(s), Token(k), Token(n)}
          /\ x.mine[Token(k)] = [rows[Token(k)] EXCEPT !.status = "Rotated", !.next = n, !.rotated = b]
       \/ /\ Retradable(rows, k, b) /\ TookBack(rows, x, k)
          /\ DOMAIN x.mine = {Session(s), Token(k), Token(n), Token(rows[Token(k)].next)}
          /\ x.mine[Token(k)] = [rows[Token(k)] EXCEPT !.status = "Rotated", !.next = n, !.rotated = rows[Token(k)].rotated]

\* A renewal that found its session over ends it.
KnowsRenewEnd(rows, x, s) ==
    \E how \in {"Expired", "Revoked"} :
        /\ EndsOnly(rows, x, how, {}) /\ x.seen = {how}
        /\ DOMAIN x.mine \subseteq {Session(s)} \cup {Token(k) : k \in Tokens}
        /\ Session(s) \in DOMAIN x.mine
        /\ x.pc = "end" => x.todo \subseteq {s} /\ x.fit \subseteq {s}

\* What a renewal knows, of the token it presents and the session it is of.
KnowsRenew(rows, x, k, b) ==
    LET s == rows[Token(k)].session
    IN  /\ x.pc \in {"find", "snapshot", "lock", "token", "successor", "trade", "end", "commit", "done", "failed"}
        /\ x.pc \notin {"find", "done", "failed"} => k \in Tokens /\ s \in SessionIds
        /\ x.pc = "token" => Holds(rows, x, s, b) /\ DOMAIN x.mine = {Session(s)} /\ x.fit = {}
        /\ x.pc = "successor" => Holds(rows, x, s, b) /\ DOMAIN x.mine = {Session(s)} /\ Retradable(rows, k, b)
        /\ x.pc = "trade" => KnowsTrade(rows, x, k, s, b)
        /\ x.pc = "end" => KnowsRenewEnd(rows, x, s)
        /\ x.pc = "commit" => KnowsRenewEnd(rows, x, s) \/ \E n \in Tokens : KnowsTraded(rows, x, k, s, n, b)

\* What turning an account on knows.
KnowsSwitchOn(rows, x, l) ==
    /\ x.pc \in {"login", "commit", "done", "failed"}
    /\ x.pc = "commit" => /\ DOMAIN x.mine = {Login(l)} /\ l \in Logins
                          /\ rows[Login(l)] = "Inactive" /\ x.mine[Login(l)] = "Active"

\* What becomes of an account that is turned off or deleted, and how a request ends sessions.
Turning(j) == j.kind \in {"switchOff", "delete"}
To(j) == IF j.kind = "switchOff" THEN "Inactive" ELSE "Deleted"
How(j) == IF j.kind \in {"signIn", "signOut"} THEN "SignedOut" ELSE "Revoked"

\* The sessions x has yet to end.
Pending(x) == IF x.pc = "end" THEN x.todo ELSE {}

\* The accounts x has locked are as they were, or it is the one being turned off, and its own sessions end.
KnowsAccounts(rows, x, j) ==
    /\ \A l \in Logins : Login(l) \in DOMAIN x.mine =>
        IF Turning(j) THEN l = j.login /\ x.mine[Login(l)] = To(j) ELSE x.mine[Login(l)] = rows[Login(l)]
    /\ Turning(j) =>
        /\ Login(j.login) \in DOMAIN x.mine /\ rows[Login(j.login)] \notin {To(j), "Deleted"}
        /\ \A s \in Over(x) \cup Pending(x) : rows[Session(s)].login = j.login

\* Requests that end sessions in one go have one thing to go by.
SelectsOnce(x, j) ==
    j.kind \notin {"signIn", "signOutEveryone"} =>
        /\ x.pc = "select" => x.seen = {IF j.kind = "signOut" THEN 1 ELSE j.login}
        /\ x.pc = "end" => x.seen = {}

\* What is about one device locks nothing before the session it ends.
LocksOne(x, j) ==
    j.kind \in {"signOut", "device"} =>
        /\ x.pc = "select" => DOMAIN x.mine = {}
        /\ x.pc = "end" => x.todo = {} \/ (DOMAIN x.mine = {} /\ \E s \in SessionIds : x.todo = {s})

\* A sign-in at its COMMIT has a new session with one token.
KnowsSignIn(rows, x, l, b) ==
    \E s \in SessionIds, n \in Tokens :
        /\ EndsOnly(rows, x, "SignedOut", {Session(s), Token(n)})
        /\ {Session(s), Token(n)} \subseteq DOMAIN x.mine
        /\ rows[Session(s)].status = "None" /\ rows[Token(n)].status = "None"
        /\ x.mine[Session(s)] = [status |-> "Active", login |-> l, until |-> b + Lifetime]
        /\ x.mine[Token(n)] = [status |-> "Active", session |-> s, next |-> 0, rotated |-> 0, until |-> b + Idle]

\* What a request that ends sessions knows.
KnowsEnds(rows, x, j, b) ==
    /\ x.pc \in {"serve", "user", "begin", "found", "login", "reach", "logins", "select", "end", "open", "commit",
                 "done", "failed"}
    /\ x.pc = "serve" => j.kind \in {"device", "everywhere", "others", "changePassword"}
    /\ x.pc \in {"user", "begin", "open"} => j.kind = "signIn"
    /\ x.pc = "found" => j.kind = "signOut"
    /\ x.pc = "login" => j.kind \in {"changePassword", "resetPassword", "switchOff", "delete", "signOutUser"}
    /\ x.pc \in {"reach", "logins"} => j.kind = "signOutEveryone"
    /\ x.pc = "logins" => x.todo \subseteq Logins /\ DOMAIN x.mine \subseteq {Login(l) : l \in Logins}
    /\ x.pc \in {"logins", "select"} => x.fit = {}
    /\ x.pc = "end" => \A s \in x.todo : s \in SessionIds /\ rows[Session(s)].status # "None"
    /\ x.pc \in {"logins", "select", "end", "open", "commit"} => KnowsAccounts(rows, x, j)
    /\ x.pc \in {"select", "end", "open"} \/ (x.pc = "commit" /\ j.kind # "signIn") => EndsOnly(rows, x, How(j), {})
    /\ x.pc = "commit" /\ j.kind = "signIn" => KnowsSignIn(rows, x, j.login, b)
    /\ SelectsOnce(x, j) /\ LocksOne(x, j)

\* The sessions the steps of a sign-in or a sign-out name, in committed rows.
Named(rows, j, c, s) ==
    LET k == j.token
        held == IF k = 0 THEN 0 ELSE rows[Token(k)].session
    IN  IF j.kind = "signIn"
        THEN IF c = 1 THEN s = held ELSE s = j.session /\ rows[Session(s)].login = j.login
        ELSE s = IF held # 0 THEN held ELSE j.from

\* The steps it has behind it.
Passed(x, j) ==
    LET all == IF j.kind = "signIn" THEN {1, 2} ELSE {1}
    IN  CASE x.pc \in {"select", "end"} -> all \ x.seen
          [] x.pc \in {"open", "commit", "done"} -> all
          [] OTHER -> {}

\* The status of session s as x sees it.
StatusTo(rows, x, s) == IF Session(s) \in DOMAIN x.mine THEN x.mine[Session(s)].status ELSE rows[Session(s)].status

\* What its steps named is over, or it is about to end it; and it named what there is.
KnowsNamed(rows, x, j) ==
    /\ j.token # 0 => rows[Token(j.token)].status # "None"
    /\ \A s \in {j.session, j.from} \ {0} : rows[Session(s)].status # "None"
    /\ \A c \in Passed(x, j), s \in SessionIds :
        Named(rows, j, c, s) => StatusTo(rows, x, s) # "Active" \/ s \in Pending(x)

\* What a request knows, wherever it is.
Knows(rows, x, j, b) ==
    /\ IsTx(x)
    /\ x.pc \in Unlocked => DOMAIN x.mine = {} /\ x.fit = {}
    /\ j.kind = "renew" => KnowsRenew(rows, x, j.token, b)
    /\ j.kind = "switchOn" => KnowsSwitchOn(rows, x, j.login)
    /\ j.kind \notin {"renew", "switchOn"} => KnowsEnds(rows, x, j, b)
    /\ j.kind \in {"signIn", "signOut"} => KnowsNamed(rows, x, j)

\* Rows that satisfy the invariant of Sessions: what the steps go by.
RowsFit(rows) ==
    /\ \A l \in Logins : rows[Login(l)] \in Now!AccountStatus
    /\ \A s \in SessionIds : rows[Session(s)] \in Now!SessionRow
    /\ \A k \in Tokens :
        /\ rows[Token(k)] \in Now!TokenRow
        /\ rows[Token(k)].status = "None" => rows[Token(k)].session = 0
        /\ rows[Token(k)].status # "None" =>
             rows[Token(k)].session \in SessionIds /\ rows[Session(rows[Token(k)].session)].status # "None"
        /\ rows[Token(k)].status = "Rotated" =>
             LET n == rows[Token(k)].next
             IN  n \in Tokens /\ k < n /\ rows[Token(n)].session = rows[Token(k)].session

\* The inductive invariant.
SInv ==
    /\ TypeOK /\ Now!Inv
    /\ job \in Starts
    /\ tx = [t \in Requests |-> tx[t]]
    /\ \A t \in Requests : Knows(db, tx[t], job[t], began[t])

-----------------------------------------------------------------------------
(* Rows and records *)

\* Rows of different tables differ, and rows of one table differ with their ids.
LEMMA RowNames ==
    /\ \A a, b : Login(a) = Login(b) => a = b
    /\ \A a, b : Session(a) = Session(b) => a = b
    /\ \A a, b : Token(a) = Token(b) => a = b
    /\ \A a, b : Login(a) # Session(b) /\ Login(a) # Token(b) /\ Session(a) # Token(b)
BY DEF Login, Session, Token

\* What is not of an account, a session or a token is no row.
LEMMA RowsAre ==
    /\ \A l \in Logins : Login(l) \in Rows
    /\ \A s \in SessionIds : Session(s) \in Rows
    /\ \A k \in Tokens : Token(k) \in Rows
    /\ \A r \in Rows : \/ \E l \in Logins : r = Login(l)
                       \/ \E s \in SessionIds : r = Session(s)
                       \/ \E k \in Tokens : r = Token(k)
BY SessionRowsAssumption

\* Zero is no id.
LEMMA NoZero == 0 \notin Logins /\ 0 \notin SessionIds /\ 0 \notin Tokens
BY SessionTxAssumption

\* A new version hides the older one.
Newest(h, f, g) ==
    /\ DOMAIN h = DOMAIN f \cup DOMAIN g
    /\ \A r \in DOMAIN f : h[r] = f[r]
    /\ \A r \in DOMAIN g : r \notin DOMAIN f => h[r] = g[r]

\* `++` gives the newest version of every row.
LEMMA NewestCounts == ASSUME NEW f, NEW g PROVE Newest(f ++ g, f, g)
BY DEF ++, Newest

\* A statement that writes one row writes that row.
LEMMA OneVersion ==
    ASSUME NEW r, NEW v
    PROVE  DOMAIN Version(r, v) = {r} /\ Version(r, v)[r] = v
BY DEF Version

\* The invariant of Sessions in terms of the rows.
LEMMA InvFits == Now!Inv => RowsFit(db)
<1> SUFFICES ASSUME Now!Inv PROVE RowsFit(db)
  OBVIOUS
<1>1. /\ \A l \in Logins : db[Login(l)] \in Now!AccountStatus
      /\ \A s \in SessionIds : db[Session(s)] \in Now!SessionRow
      /\ \A k \in Tokens : db[Token(k)] \in Now!TokenRow
  BY DEF Now!Inv, Now!TypeOK
<1>2. ASSUME NEW k \in Tokens
      PROVE  IF db[Token(k)].status # "None"
             THEN db[Token(k)].session \in SessionIds /\ db[Session(db[Token(k)].session)].status # "None"
             ELSE db[Token(k)].session = 0
  BY DEF Now!Inv, Now!TokensHaveSessions, Now!Issued
<1>3. ASSUME NEW k \in Tokens, db[Token(k)].status = "Rotated"
      PROVE  LET n == db[Token(k)].next
             IN  n \in Tokens /\ k < n /\ db[Token(n)].session = db[Token(k)].session
  <2>1. Now!LeadsOn(k)
    BY <1>3 DEF Now!Inv, Now!TradesLeadOn
  <2> QED
    BY <2>1 DEF Now!LeadsOn
<1> QED
  BY <1>1, <1>2, <1>3 DEF RowsFit

\* The steps of Sessions keep its invariant: what SessionsProofs proves, of these rows.
LEMMA StepLasts == ASSUME Now!Inv, [Now!Next]_(Now!vars) PROVE Now!Inv'
<1>1. Lasting!Inv
  BY DEF Now!Inv, Lasting!Inv, Now!TypeOK, Lasting!TypeOK, Now!AccountStatus, Lasting!AccountStatus,
       Now!SessionRow, Lasting!SessionRow, Now!TokenRow, Lasting!TokenRow, Now!EndStatus, Lasting!EndStatus,
       Now!TokensHaveSessions, Lasting!TokensHaveSessions, Now!OneWayToRenew, Lasting!OneWayToRenew,
       Now!TradesLeadOn, Lasting!TradesLeadOn, Now!LeadsOn, Lasting!LeadsOn, Now!EachReplacesOne,
       Lasting!EachReplacesOne, Now!Issued, Lasting!Issued, Now!Open, Lasting!Open, Now!Live, Lasting!Live,
       Now!Of, Lasting!Of
<1>2. [Lasting!Next]_(Lasting!vars)
  BY DEF Now!Next, Lasting!Next, Now!vars, Lasting!vars, Now!Renew, Lasting!Renew, Now!Reissue, Lasting!Reissue,
       Now!End, Lasting!End, Now!TurnOff, Lasting!TurnOff, Now!TurnOn, Lasting!TurnOn, Now!SignIn, Lasting!SignIn,
       Now!Tick, Lasting!Tick, Now!Fresh, Lasting!Fresh, Now!CanRenew, Lasting!CanRenew, Now!NewToken,
       Lasting!NewToken, Now!Ended, Lasting!Ended, Now!Silenced, Lasting!Silenced, Now!OpenSessions,
       Lasting!OpenSessions, Now!Open, Lasting!Open, Now!Of, Lasting!Of, Now!Issued, Lasting!Issued,
       Now!EndStatus, Lasting!EndStatus
<1>3. Lasting!Inv'
  BY <1>1, <1>2, Lasting!NextKeepsInv, SessionTxAssumption
<1> QED
  BY <1>3 DEF Now!Inv, Lasting!Inv, Now!TypeOK, Lasting!TypeOK, Now!AccountStatus, Lasting!AccountStatus,
       Now!SessionRow, Lasting!SessionRow, Now!TokenRow, Lasting!TokenRow, Now!EndStatus, Lasting!EndStatus,
       Now!TokensHaveSessions, Lasting!TokensHaveSessions, Now!OneWayToRenew, Lasting!OneWayToRenew,
       Now!TradesLeadOn, Lasting!TradesLeadOn, Now!LeadsOn, Lasting!LeadsOn, Now!EachReplacesOne,
       Lasting!EachReplacesOne, Now!Issued, Lasting!Issued, Now!Open, Lasting!Open, Now!Live, Lasting!Live,
       Now!Of, Lasting!Of

\* The record of a request with nothing locked.
LEMMA BlankIs ==
    ASSUME NEW pc
    PROVE  /\ IsTx(Blank(pc)) /\ Blank(pc).pc = pc /\ DOMAIN Blank(pc).mine = {}
           /\ Blank(pc).todo = {} /\ Blank(pc).fit = {} /\ Blank(pc).seen = {}
BY DEF IsTx, Blank

\* The record after a statement that locks.
LEMMA Advanced ==
    ASSUME NEW x, IsTx(x), NEW new
    PROVE  LET y == [x EXCEPT !.mine = new ++ @] IN
           IsTx(y) /\ y.pc = x.pc /\ y.mine = new ++ x.mine /\ y.todo = x.todo /\ y.fit = x.fit /\ y.seen = x.seen
BY DEF IsTx

-----------------------------------------------------------------------------
(* One statement of one request *)

\* A step of t that commits nothing: t's record becomes y, t has locked what y has versions of, and its
\* transaction began at b.
Quiet(t, y, b) ==
    /\ db' = db /\ job' = job /\ now' = now
    /\ tx' = [tx EXCEPT ![t] = y]
    /\ began' = [began EXCEPT ![t] = b]
    /\ DOMAIN y.mine \subseteq Rows
    /\ lock' \in [Rows -> Requests \cup {NoRequest}]
    /\ \A r \in Rows : lock'[r] = t <=> r \in DOMAIN y.mine
    /\ \A r \in Rows : \A u \in Requests : u # t => (lock'[r] = u <=> lock[r] = u)

\* The clock stands still in a step whose transaction began at b.
Since(t, b) == now' = now /\ began' = [began EXCEPT ![t] = b] /\ b \in 0..now

\* A statement that locks rows commits nothing, and leaves its versions in the request's record.
LEMMA WriteQuiet ==
    ASSUME SInv, NEW t \in Requests, NEW new, NEW next, Write(t, new, next), NEW b, Since(t, b),
           IsTx(next), next.mine = tx[t].mine, DOMAIN new \subseteq Rows
    PROVE  Quiet(t, [next EXCEPT !.mine = new ++ @], b)
<1> DEFINE y == [next EXCEPT !.mine = new ++ @]
<1>1. y.mine = new ++ tx[t].mine
  BY Advanced
<1>2. DOMAIN y.mine = DOMAIN new \cup DOMAIN tx[t].mine
  <2>1. Newest(new ++ tx[t].mine, new, tx[t].mine)
    BY NewestCounts
  <2> QED
    BY <1>1, <2>1 DEF Newest
<1>3. \A u \in Requests : {r \in Rows : lock[r] = u} = DOMAIN tx[u].mine
  BY DEF SInv, TypeOK
<1>4. db' = db /\ job' = job /\ tx' = [tx EXCEPT ![t] = y] /\ now' = now /\ began' = [began EXCEPT ![t] = b]
  BY DEF Write, Since
<1>5. /\ lock' = [r \in Rows |-> IF r \in DOMAIN new THEN t ELSE lock[r]]
      /\ \A r \in DOMAIN new : lock[r] \in {NoRequest, t}
  BY DEF Write, Free
<1>6. lock \in [Rows -> Requests \cup {NoRequest}] /\ NoRequest \notin Requests
  BY ReadCommittedAssumption DEF SInv, TypeOK
<1> HIDE DEF y
<1>7. lock' \in [Rows -> Requests \cup {NoRequest}]
  BY <1>5, <1>6
<1>8. \A r \in Rows : lock'[r] = t <=> r \in DOMAIN y.mine
  BY <1>2, <1>3, <1>5
<1>9. \A r \in Rows : \A u \in Requests : u # t => (lock'[r] = u <=> lock[r] = u)
  BY <1>5, <1>6
<1>10. DOMAIN y.mine \subseteq Rows
  BY <1>2, <1>3
<1> QED
  BY <1>4, <1>7, <1>8, <1>9, <1>10 DEF Quiet, y

\* A statement that reads commits nothing.
LEMMA ReadQuiet ==
    ASSUME SInv, NEW t \in Requests, NEW next, Read(t, next), NEW b, Since(t, b), next.mine = tx[t].mine
    PROVE  Quiet(t, next, b)
<1>1. {r \in Rows : lock[r] = t} = DOMAIN tx[t].mine /\ lock \in [Rows -> Requests \cup {NoRequest}]
  BY DEF SInv, TypeOK
<1> QED
  BY <1>1 DEF Read, Quiet, Since

\* A ROLLBACK commits nothing.
LEMMA EndQuiet ==
    ASSUME SInv, NEW t \in Requests, NEW pc, End(t, pc), UNCHANGED db, NEW b, Since(t, b)
    PROVE  Quiet(t, Blank(pc), b)
<1>1. lock \in [Rows -> Requests \cup {NoRequest}] /\ NoRequest \notin Requests
  BY ReadCommittedAssumption DEF SInv, TypeOK
<1> QED
  BY <1>1, BlankIs DEF End, Quiet, Since

\* A step that commits nothing keeps the invariant if its own request still knows what it is to know.
LEMMA QuietKeeps ==
    ASSUME SInv, NEW t \in Requests, NEW y, NEW b \in 0..now, Quiet(t, y, b), Knows(db, y, job[t], b)
    PROVE  SInv'
<1>1. /\ tx' = [tx EXCEPT ![t] = y] /\ tx = [u \in Requests |-> tx[u]]
      /\ began' = [began EXCEPT ![t] = b] /\ began \in [Requests -> 0..now]
  BY DEF Quiet, SInv, TypeOK
<1>2. tx' = [u \in Requests |-> IF u = t THEN y ELSE tx[u]]
  BY <1>1
<1>3. tx'[t] = y /\ \A u \in Requests : u # t => tx'[u] = tx[u]
  BY <1>2
<1>4. tx' = [u \in Requests |-> tx'[u]]
  BY <1>2
<1>5. began'[t] = b /\ (\A u \in Requests : u # t => began'[u] = began[u]) /\ began' \in [Requests -> 0..now']
  BY <1>1 DEF Quiet
<1>6. Now!Inv'
  <2>1. db' = db /\ now' = now
    BY DEF Quiet
  <2>2. UNCHANGED Now!vars
    BY <2>1 DEF Now!vars
  <2> QED
    BY <2>2, StepLasts DEF SInv
<1>7. TypeOK'
  <2>1. Now!TypeOK'
    BY <1>6 DEF Now!Inv
  <2>2. ASSUME NEW u \in Requests
        PROVE  {r \in Rows : lock'[r] = u} = DOMAIN tx'[u].mine
    <3>1. CASE u = t
      BY <1>3, <3>1 DEF Quiet
    <3>2. CASE u # t
      <4>1. {r \in Rows : lock[r] = u} = DOMAIN tx[u].mine
        BY DEF SInv, TypeOK
      <4> QED
        BY <1>3, <3>2, <4>1 DEF Quiet
    <3> QED
      BY <3>1, <3>2
  <2>3. now' \in 0..Horizon /\ lock' \in [Rows -> Requests \cup {NoRequest}]
    BY DEF Quiet, SInv, TypeOK
  <2> QED
    BY <1>5, <2>1, <2>2, <2>3 DEF TypeOK
<1>8. \A u \in Requests : Knows(db', tx'[u], job'[u], began'[u])
  BY <1>3, <1>5 DEF SInv, Quiet
<1>9. job' \in Starts
  BY DEF SInv, Quiet
<1> QED
  BY <1>4, <1>6, <1>7, <1>8, <1>9 DEF SInv

\* Whoever is done, or was refused, knows nothing but what a sign-in or a sign-out named.
LEMMA BlankKnows ==
    ASSUME NEW rows, NEW j, NEW c, NEW pc \in {"done", "failed"},
           j.kind \in {"signIn", "signOut"} => KnowsNamed(rows, Blank(pc), j)
    PROVE  Knows(rows, Blank(pc), j, c)
<1> DEFINE y == Blank(pc)
<1>1. IsTx(y) /\ y.pc = pc /\ DOMAIN y.mine = {} /\ y.todo = {} /\ y.fit = {} /\ y.seen = {}
  BY BlankIs
<1>2. j.kind \in {"signIn", "signOut"} => KnowsNamed(rows, y, j)
  OBVIOUS
<1> HIDE DEF y
<1>3. j.kind = "renew" => KnowsRenew(rows, y, j.token, c)
  BY <1>1 DEF KnowsRenew
<1>4. j.kind = "switchOn" => KnowsSwitchOn(rows, y, j.login)
  BY <1>1 DEF KnowsSwitchOn
<1>5. j.kind \notin {"renew", "switchOn"} => KnowsEnds(rows, y, j, c)
  BY <1>1 DEF KnowsEnds, SelectsOnce, LocksOne
<1> QED
  BY <1>1, <1>2, <1>3, <1>4, <1>5 DEF Knows, y

\* Refused at any time, or done with nothing to end, a request still knows it.
LEMMA RestKnows ==
    ASSUME NEW rows, NEW x, NEW j, NEW b, NEW c, Knows(rows, x, j, b), NEW pc \in {"done", "failed"},
           pc = "failed" \/ j.kind \notin {"signIn", "signOut"}
    PROVE  Knows(rows, Blank(pc), j, c)
<1>1. Blank(pc).pc = pc
  BY BlankIs
<1>2. j.kind \in {"signIn", "signOut"} => KnowsNamed(rows, Blank(pc), j)
  BY <1>1 DEF Knows, KnowsNamed, Passed
<1> QED
  BY <1>2, BlankKnows

\* A refusal keeps the invariant.
LEMMA FailKeeps ==
    ASSUME SInv, NEW t \in Requests, Fail(t), NEW b, Since(t, b)
    PROVE  SInv'
<1>1. Knows(db, tx[t], job[t], began[t])
  BY DEF SInv
<1>2. Knows(db, Blank("failed"), job[t], b)
  BY <1>1, RestKnows
<1>3. Quiet(t, Blank("failed"), b)
  BY EndQuiet DEF Fail
<1> QED
  BY <1>2, <1>3, QuietKeeps DEF Since

\* So does an answer without a write to who signs nobody in or out.
LEMMA DoneKeeps ==
    ASSUME SInv, NEW t \in Requests, End(t, "done"), UNCHANGED db, NEW b, Since(t, b),
           job[t].kind \notin {"signIn", "signOut"}
    PROVE  SInv'
<1>1. Knows(db, tx[t], job[t], began[t])
  BY DEF SInv
<1>2. Knows(db, Blank("done"), job[t], b)
  BY <1>1, RestKnows
<1>3. Quiet(t, Blank("done"), b)
  BY EndQuiet
<1> QED
  BY <1>2, <1>3, QuietKeeps DEF Since

\* What a request's statement starts from.
LEMMA About ==
    ASSUME SInv, NEW t \in Requests
    PROVE  /\ IsTx(tx[t]) /\ Knows(db, tx[t], job[t], began[t])
           /\ DOMAIN tx[t].mine \subseteq Rows
           /\ \A r \in Rows : View(t, r) = IF r \in DOMAIN tx[t].mine THEN tx[t].mine[r] ELSE db[r]
           /\ \A r \in Rows : lock[r] = t <=> r \in DOMAIN tx[t].mine
           /\ RowsFit(db)
           /\ began[t] \in 0..now /\ now \in Nat
           /\ job[t] \in JobType
           /\ job[t].kind \notin {"renew", "signOut", "signOutEveryone"} => job[t].login \in Logins
<1>1. {r \in Rows : lock[r] = t} = DOMAIN tx[t].mine
  BY DEF SInv, TypeOK
<1>2. job[t] \in JobType /\ (job[t].kind \notin {"renew", "signOut", "signOutEveryone"} => job[t].login \in Logins)
  BY SessionStartsAssumption DEF SInv
<1>3. Knows(db, tx[t], job[t], began[t]) /\ IsTx(tx[t])
  BY DEF SInv, Knows
<1>4. \A r \in Rows : View(t, r) = IF r \in DOMAIN tx[t].mine THEN tx[t].mine[r] ELSE db[r]
  BY <1>1 DEF View
<1>5. RowsFit(db) /\ began[t] \in 0..now /\ now \in Nat
  BY InvFits, SessionTxAssumption DEF SInv, TypeOK
<1> QED
  BY <1>1, <1>2, <1>3, <1>4, <1>5

\* A statement that reads keeps the invariant if its request still knows what it is to know.
LEMMA ReadKeeps ==
    ASSUME SInv, NEW t \in Requests, NEW next, Read(t, next), NEW b, Since(t, b),
           next.mine = tx[t].mine, Knows(db, next, job[t], b)
    PROVE  SInv'
BY ReadQuiet, QuietKeeps DEF Since

\* A statement that locks `new` keeps the invariant if its request then knows what it is to know.
LEMMA WriteKeeps ==
    ASSUME SInv, NEW t \in Requests, NEW new, NEW next, Write(t, new, next), NEW b, Since(t, b),
           IsTx(next), next.mine = tx[t].mine, DOMAIN new \subseteq Rows,
           \A y : /\ IsTx(y) /\ y.pc = next.pc /\ y.todo = next.todo /\ y.fit = next.fit /\ y.seen = next.seen
                  /\ Newest(y.mine, new, tx[t].mine)
                  => Knows(db, y, job[t], b)
    PROVE  SInv'
<1> DEFINE y == [next EXCEPT !.mine = new ++ @]
<1>1. IsTx(y) /\ y.pc = next.pc /\ y.todo = next.todo /\ y.fit = next.fit /\ y.seen = next.seen
      /\ Newest(y.mine, new, tx[t].mine)
  BY Advanced, NewestCounts
<1>2. Quiet(t, y, b)
  BY WriteQuiet
<1> HIDE DEF y
<1>3. Knows(db, y, job[t], b)
  BY <1>1
<1> QED
  BY <1>2, <1>3, QuietKeeps DEF Since

\* A statement of a transaction under way.
LEMMA Meanwhile ==
    ASSUME SInv, NEW t \in Requests, UNCHANGED <<now, began>>
    PROVE  Since(t, began[t])
BY DEF SInv, TypeOK, Since

-----------------------------------------------------------------------------
(* The statements of a renewal *)

\* Only renewals come by here.
LEMMA OnlyRenewals ==
    ASSUME NEW rows, NEW x, NEW j, NEW b, Knows(rows, x, j, b),
           x.pc \in {"find", "snapshot", "lock", "token", "successor", "trade"}
    PROVE  j.kind = "renew" /\ KnowsRenew(rows, x, j.token, b)
BY DEF Knows, KnowsSwitchOn, KnowsEnds

\* The session of a token without uncommitted changes.
LEMMA SessionOfIs ==
    ASSUME SInv, NEW t \in Requests, NEW k \in Tokens \cup {0}, k # 0 => Token(k) \notin DOMAIN tx[t].mine
    PROVE  /\ SessionOf(t, k) # 0 => k \in Tokens /\ SessionOf(t, k) \in SessionIds
           /\ k \in Tokens => SessionOf(t, k) = db[Token(k)].session
<1>1. k \in Tokens => k # 0 /\ View(t, Token(k)) = db[Token(k)] /\ db[Token(k)] \in Now!TokenRow
  BY About, RowsAre, NoZero DEF RowsFit
<1> QED
  BY <1>1 DEF SessionOf, Now!TokenRow

LEMMA FindTokenKeeps ==
    ASSUME SInv, NEW t \in Requests, FindToken(t), Since(t, now)
    PROVE  SInv'
<1> DEFINE k == job[t].token
           y == [tx[t] EXCEPT !.pc = "snapshot"]
<1>1. tx[t].pc = "find" /\ IsTx(tx[t]) /\ Knows(db, tx[t], job[t], began[t]) /\ job[t].kind = "renew"
      /\ DOMAIN tx[t].mine = {} /\ tx[t].fit = {} /\ k \in Tokens \cup {0}
  BY About, OnlyRenewals DEF FindToken, At, Knows, Unlocked, JobType
<1>2. CASE SessionOf(t, k) # 0
  <2>1. k \in Tokens /\ db[Token(k)].session \in SessionIds
    BY <1>1, <1>2, SessionOfIs
  <2>2. IsTx(y) /\ y.pc = "snapshot" /\ y.mine = tx[t].mine /\ y.fit = {}
    BY <1>1 DEF IsTx
  <2> HIDE DEF y
  <2>3. Knows(db, y, job[t], now)
    BY <1>1, <2>1, <2>2 DEF Knows, KnowsRenew
  <2>4. Read(t, y)
    BY <1>2 DEF FindToken, y
  <2> QED
    BY <2>2, <2>3, <2>4, ReadKeeps
<1>3. CASE ~(SessionOf(t, k) # 0)
  BY <1>3, FailKeeps DEF FindToken
<1> QED
  BY <1>2, <1>3

LEMMA ReadAccountKeeps ==
    ASSUME SInv, NEW t \in Requests, ReadAccount(t), UNCHANGED <<now, began>>
    PROVE  SInv'
<1>1. tx[t].pc = "snapshot" /\ IsTx(tx[t]) /\ Knows(db, tx[t], job[t], began[t]) /\ job[t].kind = "renew"
      /\ KnowsRenew(db, tx[t], job[t].token, began[t]) /\ DOMAIN tx[t].mine = {} /\ tx[t].fit = {}
  BY About, OnlyRenewals DEF ReadAccount, At, Knows, Unlocked
<1>2. PICK seen : Read(t, [tx[t] EXCEPT !.pc = "lock", !.seen = seen])
  BY DEF ReadAccount
<1> DEFINE y == [tx[t] EXCEPT !.pc = "lock", !.seen = seen]
<1>3. IsTx(y) /\ y.pc = "lock" /\ y.mine = tx[t].mine /\ y.fit = {}
  BY <1>1 DEF IsTx
<1>4. Read(t, y)
  BY <1>2
<1> HIDE DEF y
<1>5. Knows(db, y, job[t], began[t])
  BY <1>1, <1>3 DEF Knows, KnowsRenew
<1> QED
  BY <1>3, <1>4, <1>5, Meanwhile, ReadKeeps

\* A renewal that has its session locked, open, and nothing else is about to end it.
LEMMA EndingKnows ==
    ASSUME NEW rows, NEW y, NEW j, NEW b, IsTx(y), j.kind = "renew", j.token \in Tokens,
           NEW s \in SessionIds, rows[Token(j.token)].session = s,
           rows[Session(s)].status = "Active", DOMAIN y.mine = {Session(s)}, y.mine[Session(s)] = rows[Session(s)],
           NEW how \in {"Expired", "Revoked"}, y.pc = "end", y.todo = {s}, y.fit = {}, y.seen = {how}
    PROVE  Knows(rows, y, j, b)
<1>1. Over(y) = {} /\ Loud(y) = {}
  BY RowNames DEF Over, Loud
<1>2. EndsOnly(rows, y, how, {})
  BY <1>1, RowNames DEF EndsOnly
<1>3. KnowsRenewEnd(rows, y, s)
  BY <1>2 DEF KnowsRenewEnd
<1> QED
  BY <1>3 DEF Knows, KnowsRenew, Unlocked

LEMMA LockSessionKeeps ==
    ASSUME SInv, NEW t \in Requests, LockSession(t), UNCHANGED <<now, began>>
    PROVE  SInv'
<1> DEFINE x == tx[t]
           k == job[t].token
           s == db[Token(k)].session
           b == began[t]
<1>1. x.pc = "lock" /\ IsTx(x) /\ Knows(db, x, job[t], b) /\ job[t].kind = "renew"
      /\ k \in Tokens /\ s \in SessionIds /\ DOMAIN x.mine = {} /\ x.fit = {}
  BY About, OnlyRenewals DEF LockSession, At, Knows, Unlocked, KnowsRenew
<1>2. SessionOf(t, k) = s
  BY <1>1, SessionOfIs
<1>3. View(t, Session(s)) = db[Session(s)] /\ Session(s) \in Rows /\ db[Session(s)] \in Now!SessionRow /\ b \in Nat
  BY <1>1, About, RowsAre DEF RowsFit
<1>4. CASE ~IsActive(t, Session(s))
  <2>1. Fail(t)
    BY <1>2, <1>4 DEF LockSession
  <2> QED
    BY <2>1, FailKeeps, Meanwhile
<1>5. CASE IsActive(t, Session(s))
  <2> DEFINE next == AfterLocking(t, s)
             new == Version(Session(s), db[Session(s)])
  <2>1. Write(t, new, next)
    BY <1>2, <1>3, <1>5 DEF LockSession, Lock
  <2>2. DOMAIN new = {Session(s)} /\ new[Session(s)] = db[Session(s)]
    BY OneVersion
  <2>3. db[Session(s)].status = "Active" /\ db[Session(s)].until \in Nat
    BY <1>3, <1>5 DEF IsActive, Now!SessionRow
  <2>4. /\ IsTx(next) /\ next.mine = x.mine /\ next.fit = {}
        /\ \/ \E how \in {"Expired", "Revoked"} : next.pc = "end" /\ next.todo = {s} /\ next.seen = {how}
           \/ next.pc = "token" /\ b < db[Session(s)].until
    <3>1. CASE "Active" \notin x.seen
      BY <1>1, <3>1 DEF IsTx, AfterLocking, ToEnd
    <3>2. CASE "Active" \in x.seen /\ View(t, Session(s)).until <= b
      BY <1>1, <3>2 DEF IsTx, AfterLocking, ToEnd
    <3>3. CASE "Active" \in x.seen /\ ~(View(t, Session(s)).until <= b)
      <4>1. next = [x EXCEPT !.pc = "token", !.seen = {}]
        BY <3>3 DEF AfterLocking
      <4>2. b < db[Session(s)].until
        BY <1>3, <2>3, <3>3
      <4> QED
        BY <1>1, <4>1, <4>2 DEF IsTx
    <3> QED
      BY <3>1, <3>2, <3>3
  <2> HIDE DEF new, next
  <2>5. ASSUME NEW y, IsTx(y), y.pc = next.pc, y.todo = next.todo, y.fit = next.fit, y.seen = next.seen,
               Newest(y.mine, new, x.mine)
        PROVE  Knows(db, y, job[t], b)
    <3>1. DOMAIN y.mine = {Session(s)} /\ y.mine[Session(s)] = db[Session(s)]
      BY <1>1, <2>2, <2>5 DEF Newest
    <3>2. CASE \E how \in {"Expired", "Revoked"} : next.pc = "end" /\ next.todo = {s} /\ next.seen = {how}
      BY <1>1, <2>3, <2>4, <2>5, <3>1, <3>2, EndingKnows
    <3>3. CASE next.pc = "token" /\ b < db[Session(s)].until
      <4>1. Holds(db, y, s, b)
        BY <1>1, <2>3, <3>1, <3>3 DEF Holds
      <4> QED
        BY <1>1, <2>4, <2>5, <3>1, <3>3, <4>1 DEF Knows, KnowsRenew, Unlocked
    <3> QED
      BY <2>4, <3>2, <3>3
  <2> QED
    BY <1>3, <2>1, <2>2, <2>4, <2>5, Meanwhile, WriteKeeps
<1> QED
  BY <1>4, <1>5

\* Who has only a session locked sees the tokens as committed.
LEMMA TokensUntouched ==
    ASSUME SInv, NEW t \in Requests, NEW s, DOMAIN tx[t].mine = {Session(s)}
    PROVE  \A i \in Tokens : View(t, Token(i)) = db[Token(i)]
BY About, RowsAre, RowNames

LEMMA ReadTokenKeeps ==
    ASSUME SInv, NEW t \in Requests, ReadToken(t), UNCHANGED <<now, began>>
    PROVE  SInv'
<1> DEFINE x == tx[t]
           k == job[t].token
           it == db[Token(k)]
           s == it.session
           b == began[t]
<1>1. x.pc = "token" /\ IsTx(x) /\ Knows(db, x, job[t], b) /\ job[t].kind = "renew"
      /\ k \in Tokens /\ s \in SessionIds /\ DOMAIN x.mine = {Session(s)} /\ x.fit = {} /\ Holds(db, x, s, b)
  BY About, OnlyRenewals DEF ReadToken, At, Knows, KnowsRenew
<1>2. \A i \in Tokens : View(t, Token(i)) = db[Token(i)]
  BY <1>1, TokensUntouched
<1>3. it \in Now!TokenRow /\ it.status # "None" /\ b \in Nat
  BY <1>1, About, NoZero DEF RowsFit
<1>4. ASSUME NEW how \in {"Expired", "Revoked"}, Read(t, ToEnd(t, s, how))
      PROVE  SInv'
  <2> DEFINE y == ToEnd(t, s, how)
  <2>1. IsTx(y) /\ y.mine = x.mine /\ y.pc = "end" /\ y.todo = {s} /\ y.fit = {} /\ y.seen = {how}
    BY <1>1 DEF IsTx, ToEnd
  <2>2. Read(t, y)
    BY <1>4
  <2> HIDE DEF y
  <2>3. Knows(db, y, job[t], b)
    BY <1>1, <2>1, EndingKnows DEF Holds
  <2> QED
    BY <2>1, <2>2, <2>3, Meanwhile, ReadKeeps
<1>5. CASE it.status = "Revoked"
  <2>1. Fail(t)
    BY <1>1, <1>2, <1>5 DEF ReadToken
  <2> QED
    BY <2>1, FailKeeps, Meanwhile
<1>6. CASE it.status = "Rotated"
  <2>1. it.next \in Tokens /\ k < it.next /\ db[Token(it.next)].session = s
    BY <1>1, <1>6, About DEF RowsFit
  <2>2. CASE b < it.rotated + Grace /\ IsActive(t, Token(it.next))
    <3> DEFINE y == [x EXCEPT !.pc = "successor"]
    <3>1. Read(t, y)
      BY <1>1, <1>2, <1>6, <2>2 DEF ReadToken
    <3>2. IsTx(y) /\ y.mine = x.mine /\ y.pc = "successor"
      BY <1>1 DEF IsTx
    <3> HIDE DEF y
    <3>3. Retradable(db, k, b)
      BY <1>2, <1>6, <2>1, <2>2 DEF Retradable, IsActive
    <3>4. Holds(db, y, s, b)
      BY <1>1, <3>2 DEF Holds
    <3>5. Knows(db, y, job[t], b)
      BY <1>1, <3>2, <3>3, <3>4 DEF Knows, KnowsRenew, Unlocked
    <3> QED
      BY <3>1, <3>2, <3>5, Meanwhile, ReadKeeps
  <2>3. CASE ~(b < it.rotated + Grace /\ IsActive(t, Token(it.next)))
    <3>1. Read(t, ToEnd(t, s, "Revoked"))
      BY <1>1, <1>2, <1>6, <2>3 DEF ReadToken
    <3> QED
      BY <1>4, <3>1
  <2> QED
    BY <2>2, <2>3
<1>7. CASE it.status = "Active"
  <2>1. CASE b < it.until
    <3> DEFINE y == [x EXCEPT !.pc = "trade", !.seen = {"Active"}]
    <3>1. Read(t, y)
      BY <1>1, <1>2, <1>7, <2>1 DEF ReadToken
    <3>2. IsTx(y) /\ y.mine = x.mine /\ y.pc = "trade" /\ y.seen = {"Active"}
      BY <1>1 DEF IsTx
    <3> HIDE DEF y
    <3>3. KnowsTrade(db, y, k, s, b)
      BY <1>1, <1>7, <2>1, <3>2 DEF Holds, KnowsTrade, Tradable
    <3>4. Knows(db, y, job[t], b)
      BY <1>1, <3>2, <3>3 DEF Knows, KnowsRenew, Unlocked
    <3> QED
      BY <3>1, <3>2, <3>4, Meanwhile, ReadKeeps
  <2>2. CASE ~(b < it.until)
    <3>1. Read(t, ToEnd(t, s, "Expired"))
      BY <1>1, <1>2, <1>7, <2>2 DEF ReadToken
    <3> QED
      BY <1>4, <3>1
  <2> QED
    BY <2>1, <2>2
<1> QED
  BY <1>3, <1>5, <1>6, <1>7 DEF Now!TokenRow

LEMMA RevokeSuccessorKeeps ==
    ASSUME SInv, NEW t \in Requests, RevokeSuccessor(t), UNCHANGED <<now, began>>
    PROVE  SInv'
<1> DEFINE x == tx[t]
           k == job[t].token
           it == db[Token(k)]
           s == it.session
           c == it.next
           b == began[t]
           taken == [db[Token(c)] EXCEPT !.status = "Revoked"]
           next == [x EXCEPT !.pc = "trade", !.seen = {"Rotated"}]
           new == Version(Token(c), taken)
<1>1. x.pc = "successor" /\ IsTx(x) /\ Knows(db, x, job[t], b) /\ job[t].kind = "renew"
      /\ k \in Tokens /\ s \in SessionIds /\ DOMAIN x.mine = {Session(s)}
      /\ Holds(db, x, s, b) /\ Retradable(db, k, b)
  BY About, OnlyRenewals DEF RevokeSuccessor, At, Knows, KnowsRenew
<1>2. \A i \in Tokens : View(t, Token(i)) = db[Token(i)]
  BY <1>1, TokensUntouched
<1>3. c \in Tokens /\ IsActive(t, Token(c))
  BY <1>1, <1>2 DEF Retradable, IsActive
<1>4. Write(t, new, next)
  BY <1>1, <1>2, <1>3 DEF RevokeSuccessor, Becomes
<1>5. DOMAIN new = {Token(c)} /\ new[Token(c)] = taken
  BY OneVersion
<1>6. IsTx(next) /\ next.mine = x.mine /\ next.pc = "trade" /\ next.seen = {"Rotated"}
  BY <1>1 DEF IsTx
<1> HIDE DEF new, next
<1>7. ASSUME NEW y, IsTx(y), y.pc = next.pc, y.seen = next.seen, Newest(y.mine, new, x.mine)
      PROVE  Knows(db, y, job[t], b)
  <2>1. /\ DOMAIN y.mine = {Session(s), Token(c)} /\ y.mine[Token(c)] = taken
        /\ y.mine[Session(s)] = x.mine[Session(s)]
    BY <1>1, <1>5, <1>7, RowNames DEF Newest
  <2>2. Holds(db, y, s, b)
    BY <1>1, <2>1 DEF Holds
  <2>3. TookBack(db, y, k)
    BY <2>1 DEF TookBack
  <2>4. KnowsTrade(db, y, k, s, b)
    BY <1>1, <1>6, <1>7, <2>1, <2>2, <2>3 DEF KnowsTrade
  <2> QED
    BY <1>1, <1>6, <1>7, <2>4 DEF Knows, KnowsRenew, Unlocked
<1>8. DOMAIN new \subseteq Rows
  BY <1>3, <1>5, RowsAre
<1> QED
  BY <1>4, <1>6, <1>7, <1>8, Meanwhile, WriteKeeps

\* The next token is not issued, not even uncommitted, and comes after all that are.
LEMMA NextTokenIs ==
    ASSUME SInv, NEW n \in Tokens, IsNextToken(n)
    PROVE  /\ db[Token(n)].status = "None" /\ lock[Token(n)] = NoRequest
           /\ \A i \in Tokens : db[Token(i)].status # "None" => i < n
<1>1. Tokens \subseteq Nat
  BY SessionTxAssumption
<1>2. \A j \in Tokens : j >= n => Unused(Token(j))
  BY <1>1 DEF IsNextToken
<1> QED
  BY <1>1, <1>2 DEF Unused

LEMMA TradeTokenKeeps ==
    ASSUME SInv, NEW t \in Requests, TradeToken(t), UNCHANGED <<now, began>>
    PROVE  SInv'
<1> DEFINE x == tx[t]
           k == job[t].token
           it == db[Token(k)]
           s == it.session
           b == began[t]
<1>1. x.pc = "trade" /\ IsTx(x) /\ Knows(db, x, job[t], b) /\ job[t].kind = "renew"
      /\ k \in Tokens /\ s \in SessionIds /\ KnowsTrade(db, x, k, s, b)
  BY About, OnlyRenewals DEF TradeToken, At, Knows, KnowsRenew
<1>2. Token(k) \notin DOMAIN x.mine /\ DOMAIN x.mine \subseteq Rows
  BY <1>1, About, RowNames, SessionTxAssumption DEF KnowsTrade, Retradable
<1>3. View(t, Token(k)) = it
  BY <1>1, <1>2, About, RowsAre
<1>4. it \in Now!TokenRow /\ it.status \in {"Active", "Rotated"} /\ it.status \in x.seen /\ b \in Nat
  BY <1>1, About DEF RowsFit, KnowsTrade, Tradable, Retradable
<1>5. PICK n \in Tokens : IsNextToken(n) /\ Traded(t, it, n, n, TimeOfTrade(t, it))
  BY <1>3 DEF TradeToken
<1> DEFINE fresh == NewToken(t, s)
           old == [it EXCEPT !.status = "Rotated", !.next = n, !.rotated = TimeOfTrade(t, it)]
           new == Version(Token(n), fresh) ++ Version(Token(k), old)
           next == [x EXCEPT !.pc = "commit"]
<1>6. Write(t, new, next)
  BY <1>4, <1>5 DEF Traded
<1>7. /\ db[Token(n)].status = "None" /\ lock[Token(n)] = NoRequest
      /\ \A i \in Tokens : db[Token(i)].status # "None" => i < n
  BY <1>5, NextTokenIs
<1>8. n # k /\ Token(n) # Token(k) /\ Token(n) \notin DOMAIN x.mine /\ Token(n) \in Rows /\ Token(k) \in Rows
  BY <1>1, <1>4, <1>7, About, RowsAre, RowNames, ReadCommittedAssumption
<1>9. \A i \in Tokens : db[Token(i)].session = s => i < n
  BY <1>1, <1>7, About, NoZero DEF RowsFit
<1>10. IsTx(next) /\ next.mine = x.mine /\ next.pc = "commit"
  BY <1>1 DEF IsTx
<1>11. fresh = [status |-> "Active", session |-> s, next |-> 0, rotated |-> 0, until |-> b + Idle]
  BY DEF NewToken
<1>12. old = [it EXCEPT !.status = "Rotated", !.next = n, !.rotated = IF it.status = "Rotated" THEN it.rotated ELSE b]
  BY DEF TimeOfTrade
<1> HIDE DEF fresh, old
<1>13. DOMAIN new = {Token(n), Token(k)} /\ new[Token(n)] = fresh /\ new[Token(k)] = old
  <2>1. PICK f, g : f = Version(Token(n), fresh) /\ g = Version(Token(k), old)
    OBVIOUS
  <2>2. DOMAIN f = {Token(n)} /\ f[Token(n)] = fresh /\ DOMAIN g = {Token(k)} /\ g[Token(k)] = old
    BY <2>1, OneVersion
  <2>3. Newest(new, f, g)
    BY <2>1, NewestCounts
  <2> HIDE DEF new
  <2> QED
    BY <1>8, <2>2, <2>3 DEF Newest
<1> HIDE DEF new, next
<1>14. ASSUME NEW y, IsTx(y), y.pc = next.pc, Newest(y.mine, new, x.mine)
       PROVE  Knows(db, y, job[t], b)
  <2>1. /\ DOMAIN y.mine = {Token(n), Token(k)} \cup DOMAIN x.mine
        /\ y.mine[Token(n)] = fresh /\ y.mine[Token(k)] = old
        /\ \A r \in DOMAIN x.mine : y.mine[r] = x.mine[r]
    BY <1>2, <1>8, <1>13, <1>14 DEF Newest
  <2>2. Holds(db, y, s, b)
    BY <1>1, <2>1 DEF KnowsTrade, Holds
  <2>3. \/ /\ Tradable(db, k, b) /\ DOMAIN y.mine = {Session(s), Token(k), Token(n)}
           /\ y.mine[Token(k)] = [it EXCEPT !.status = "Rotated", !.next = n, !.rotated = b]
        \/ /\ Retradable(db, k, b) /\ TookBack(db, y, k)
           /\ DOMAIN y.mine = {Session(s), Token(k), Token(n), Token(it.next)}
           /\ y.mine[Token(k)] = [it EXCEPT !.status = "Rotated", !.next = n, !.rotated = it.rotated]
    <3>1. CASE Tradable(db, k, b) /\ DOMAIN x.mine = {Session(s)}
      BY <1>12, <2>1, <3>1 DEF Tradable
    <3>2. CASE Retradable(db, k, b) /\ TookBack(db, x, k) /\ DOMAIN x.mine = {Session(s), Token(it.next)}
      <4>1. TookBack(db, y, k)
        BY <2>1, <3>2 DEF TookBack
      <4> QED
        BY <1>12, <2>1, <3>2, <4>1 DEF Retradable
    <3> QED
      BY <1>1, <3>1, <3>2 DEF KnowsTrade
  <2>4. KnowsTraded(db, y, k, s, n, b)
    BY <1>5, <1>7, <1>9, <1>11, <2>1, <2>2, <2>3 DEF KnowsTraded
  <2> QED
    BY <1>1, <1>5, <1>10, <1>14, <2>4 DEF Knows, KnowsRenew, Unlocked
<1>15. DOMAIN new \subseteq Rows
  BY <1>8, <1>13
<1> QED
  BY <1>6, <1>10, <1>14, <1>15, Meanwhile, WriteKeeps

-----------------------------------------------------------------------------
(* Ending sessions *)

\* What x wrote is still all the end of sessions when it has only moved on.
LEMMA SameEnds ==
    ASSUME NEW rows, NEW x, NEW y, NEW how, EndsOnly(rows, x, how, {}), y.mine = x.mine, Loud(x) = Loud(y)
    PROVE  EndsOnly(rows, y, how, {}) /\ Over(y) = Over(x)
BY DEF EndsOnly, Over

\* One more open session ends.
LEMMA EndsOneMore ==
    ASSUME NEW rows, RowsFit(rows), NEW x, NEW y, NEW how, how # "Active", EndsOnly(rows, x, how, {}),
           NEW s \in SessionIds, rows[Session(s)].status = "Active",
           NEW new, DOMAIN new = {Session(s)}, new[Session(s)] = [rows[Session(s)] EXCEPT !.status = how],
           Newest(y.mine, new, x.mine), x.pc = "end", y.pc = "end", y.fit = x.fit \cup {s}
    PROVE  EndsOnly(rows, y, how, {}) /\ Over(y) = Over(x) \cup {s} /\ y.mine[Session(s)].status = how
<1>1. rows[Session(s)] \in Now!SessionRow
  BY DEF RowsFit
<1>2. new[Session(s)].status = how
  BY <1>1 DEF Now!SessionRow
<1>3. /\ DOMAIN y.mine = DOMAIN x.mine \cup {Session(s)} /\ y.mine[Session(s)] = new[Session(s)]
      /\ \A r \in DOMAIN x.mine : r # Session(s) => y.mine[r] = x.mine[r]
  BY DEF Newest
<1>4. Over(y) = Over(x) \cup {s}
  BY <1>2, <1>3, RowNames DEF Over
<1>5. Loud(x) = x.fit /\ Loud(y) = x.fit \cup {s}
  BY DEF Loud
<1>6. ASSUME NEW r \in SessionIds, Session(r) \in DOMAIN y.mine
      PROVE  rows[Session(r)].status = "Active" /\ y.mine[Session(r)] \in {rows[Session(r)], [rows[Session(r)] EXCEPT !.status = how]}
  <2>1. CASE r = s
    BY <1>3, <2>1
  <2>2. CASE r # s
    <3>1. Session(r) # Session(s) /\ Session(r) \in DOMAIN x.mine
      BY <1>3, <1>6, <2>2, RowNames
    <3> QED
      BY <1>3, <3>1 DEF EndsOnly
  <2> QED
    BY <2>1, <2>2
<1>7. ASSUME NEW k \in Tokens, Token(k) \in DOMAIN y.mine
      PROVE  /\ rows[Token(k)].status = "Active" /\ rows[Token(k)].session \in Over(y)
             /\ y.mine[Token(k)] = [rows[Token(k)] EXCEPT !.status = "Revoked"]
  <2>1. Token(k) # Session(s) /\ Token(k) \in DOMAIN x.mine
    BY <1>3, <1>7, RowNames
  <2> QED
    BY <1>3, <1>4, <2>1 DEF EndsOnly
<1>8. ASSUME NEW k \in Tokens, rows[Token(k)].status = "Active", rows[Token(k)].session \in Over(y) \ Loud(y)
      PROVE  Token(k) \in DOMAIN y.mine
  BY <1>3, <1>4, <1>5, <1>8 DEF EndsOnly
<1>9. Loud(y) \subseteq Over(y)
  BY <1>4, <1>5 DEF EndsOnly
<1> QED
  BY <1>2, <1>3, <1>4, <1>6, <1>7, <1>8, <1>9 DEF EndsOnly

\* The versions `new` revoke what live tokens the sessions just ended still have.
Silences(rows, x, new) ==
    /\ \A r \in DOMAIN new : \E k \in Tokens : r = Token(k)
    /\ \A k \in Tokens : Token(k) \in DOMAIN new <=>
        Token(k) \notin DOMAIN x.mine /\ rows[Token(k)].status = "Active" /\ rows[Token(k)].session \in x.fit
    /\ \A k \in Tokens : Token(k) \in DOMAIN new => new[Token(k)] = [rows[Token(k)] EXCEPT !.status = "Revoked"]

\* The tokens of the sessions just ended are revoked.
LEMMA EndsTheirTokens ==
    ASSUME NEW rows, NEW x, NEW y, NEW how, EndsOnly(rows, x, how, {}),
           NEW new, Silences(rows, x, new), Newest(y.mine, new, x.mine), x.pc = "end", y.pc # "end"
    PROVE  EndsOnly(rows, y, how, {}) /\ Over(y) = Over(x)
<1>1. /\ DOMAIN y.mine = DOMAIN new \cup DOMAIN x.mine
      /\ \A k \in Tokens : Token(k) \in DOMAIN new => y.mine[Token(k)] = [rows[Token(k)] EXCEPT !.status = "Revoked"]
      /\ \A r \in DOMAIN x.mine : r \notin DOMAIN new => y.mine[r] = x.mine[r]
  BY DEF Newest, Silences
<1>2. \A r \in SessionIds : /\ Session(r) \notin DOMAIN new
                            /\ Session(r) \in DOMAIN y.mine <=> Session(r) \in DOMAIN x.mine
                            /\ Session(r) \in DOMAIN x.mine => y.mine[Session(r)] = x.mine[Session(r)]
  <2>1. \A r \in SessionIds : Session(r) \notin DOMAIN new
    BY RowNames DEF Silences
  <2> QED
    BY <1>1, <2>1
<1>3. Over(y) = Over(x)
  BY <1>2 DEF Over
<1>4. Loud(x) = x.fit /\ Loud(y) = {} /\ x.fit \subseteq Over(x)
  BY DEF Loud, EndsOnly
<1>5. ASSUME NEW r \in SessionIds, Session(r) \in DOMAIN y.mine
      PROVE  rows[Session(r)].status = "Active" /\ y.mine[Session(r)] \in {rows[Session(r)], [rows[Session(r)] EXCEPT !.status = how]}
  BY <1>2, <1>5 DEF EndsOnly
<1>6. ASSUME NEW k \in Tokens, Token(k) \in DOMAIN y.mine
      PROVE  /\ rows[Token(k)].status = "Active" /\ rows[Token(k)].session \in Over(y)
             /\ y.mine[Token(k)] = [rows[Token(k)] EXCEPT !.status = "Revoked"]
  <2>1. CASE Token(k) \in DOMAIN new
    BY <1>1, <1>3, <1>4, <2>1 DEF Silences
  <2>2. CASE Token(k) \notin DOMAIN new
    <3>1. Token(k) \notin DOMAIN new /\ Token(k) \in DOMAIN x.mine
      BY <1>1, <1>6, <2>2, RowNames
    <3> QED
      BY <1>1, <1>3, <3>1 DEF EndsOnly
  <2> QED
    BY <2>1, <2>2
<1>7. ASSUME NEW k \in Tokens, rows[Token(k)].status = "Active", rows[Token(k)].session \in Over(y) \ Loud(y)
      PROVE  Token(k) \in DOMAIN y.mine
  <2>1. CASE rows[Token(k)].session \in x.fit
    BY <1>1, <1>7, <2>1 DEF Silences
  <2>2. CASE rows[Token(k)].session \notin x.fit
    BY <1>1, <1>3, <1>4, <1>7, <2>2 DEF EndsOnly
  <2> QED
    BY <2>1, <2>2
<1> QED
  BY <1>3, <1>4, <1>5, <1>6, <1>7 DEF EndsOnly

\* What a request at "end" has: all it wrote is the end of sessions, in one way.
LEMMA AtTheEnd ==
    ASSUME SInv, NEW t \in Requests, tx[t].pc = "end"
    PROVE  /\ \E how \in {"SignedOut", "Expired", "Revoked"} :
                EndsOnly(db, tx[t], how, {}) /\ HowItEnds(t) = how /\ (job[t].kind # "renew" => how = How(job[t]))
                /\ (job[t].kind = "renew" => tx[t].seen = {how})
           /\ job[t].kind = "renew" => KnowsRenew(db, tx[t], job[t].token, began[t]) /\ tx[t].todo \subseteq SessionIds
           /\ job[t].kind # "renew" => KnowsEnds(db, tx[t], job[t], began[t]) /\ job[t].kind # "switchOn"
<1> DEFINE x == tx[t]
           s == db[Token(job[t].token)].session
<1>1. Knows(db, x, job[t], began[t]) /\ IsTx(x)
  BY About
<1>2. CASE job[t].kind = "renew"
  <2>1. KnowsRenew(db, x, job[t].token, began[t]) /\ KnowsRenewEnd(db, x, s) /\ s \in SessionIds
    BY <1>1, <1>2 DEF Knows, KnowsRenew
  <2>2. PICK how \in {"Expired", "Revoked"} : EndsOnly(db, x, how, {}) /\ x.seen = {how}
    BY <2>1 DEF KnowsRenewEnd
  <2>3. HowItEnds(t) = how
    BY <1>2, <2>2 DEF HowItEnds, Kind
  <2>4. x.todo \subseteq SessionIds
    BY <2>1 DEF KnowsRenewEnd
  <2> QED
    BY <1>2, <2>1, <2>2, <2>3, <2>4
<1>3. CASE job[t].kind # "renew"
  <2>1. job[t].kind # "switchOn" /\ KnowsEnds(db, x, job[t], began[t])
    BY <1>1, <1>3 DEF Knows, KnowsSwitchOn
  <2>2. EndsOnly(db, x, How(job[t]), {})
    BY <2>1 DEF KnowsEnds
  <2>3. HowItEnds(t) = How(job[t])
    BY <1>3 DEF HowItEnds, How, Kind
  <2>4. How(job[t]) \in {"SignedOut", "Expired", "Revoked"}
    BY DEF How
  <2> QED
    BY <1>3, <2>1, <2>2, <2>3, <2>4
<1> QED
  BY <1>2, <1>3

\* What x named and passed is over when it has ended one more session.
LEMMA NamedMore ==
    ASSUME NEW rows, NEW x, NEW y, NEW j, KnowsNamed(rows, x, j), x.pc = "end", y.pc = "end", y.seen = x.seen,
           NEW s, y.todo = x.todo \ {s},
           \A r \in SessionIds : IF r = s THEN StatusTo(rows, y, r) # "Active" ELSE StatusTo(rows, y, r) = StatusTo(rows, x, r)
    PROVE  KnowsNamed(rows, y, j)
<1>1. Passed(y, j) = Passed(x, j) /\ Pending(x) = x.todo /\ Pending(y) = y.todo
  BY DEF Passed, Pending
<1> QED
  BY <1>1 DEF KnowsNamed

LEMMA EndSessionKeeps ==
    ASSUME SInv, NEW t \in Requests, NEW s \in SessionIds, EndSession(t, s), UNCHANGED <<now, began>>
    PROVE  SInv'
<1> DEFINE x == tx[t]
           j == job[t]
           b == began[t]
           s0 == db[Token(j.token)].session
<1>1. x.pc = "end" /\ s \in x.todo /\ IsTx(x) /\ Knows(db, x, j, b) /\ RowsFit(db)
  BY About DEF EndSession, At
<1>2. PICK how \in {"SignedOut", "Expired", "Revoked"} :
          EndsOnly(db, x, how, {}) /\ HowItEnds(t) = how /\ (j.kind # "renew" => how = How(j))
          /\ (j.kind = "renew" => x.seen = {how})
  BY <1>1, AtTheEnd
<1>3. /\ j.kind = "renew" => KnowsRenew(db, x, j.token, b)
      /\ j.kind # "renew" => KnowsEnds(db, x, j, b) /\ j.kind # "switchOn"
  BY <1>1, AtTheEnd
<1>4. Session(s) \in Rows /\ View(t, Session(s)) = IF Session(s) \in DOMAIN x.mine THEN x.mine[Session(s)] ELSE db[Session(s)]
  BY About, RowsAre
\* Whatever it does to s, it goes on with one session less to end.
<1>5. ASSUME NEW y, IsTx(y), y.pc = "end", y.todo = x.todo \ {s}, y.seen = x.seen, EndsOnly(db, y, how, {}),
             Over(y) \subseteq Over(x) \cup {s}, y.fit \subseteq x.fit \cup {s},
             DOMAIN y.mine \subseteq DOMAIN x.mine \cup {Session(s)}, DOMAIN x.mine \subseteq DOMAIN y.mine,
             \A r \in DOMAIN x.mine : r # Session(s) => y.mine[r] = x.mine[r],
             StatusTo(db, y, s) # "Active"
      PROVE  Knows(db, y, j, b)
  <2>1. \A r \in SessionIds : r # s => StatusTo(db, y, r) = StatusTo(db, x, r)
    <3> SUFFICES ASSUME NEW r \in SessionIds, r # s
                 PROVE  StatusTo(db, y, r) = StatusTo(db, x, r)
      OBVIOUS
    <3>1. Session(r) # Session(s)
      BY RowNames
    <3> QED
      BY <1>5, <3>1 DEF StatusTo
  <2>2. CASE j.kind = "renew"
    <3>1. KnowsRenewEnd(db, x, s0) /\ j.token \in Tokens /\ s0 \in SessionIds
      BY <1>1, <1>3, <2>2 DEF KnowsRenew
    <3>2. how # "SignedOut" /\ x.seen = {how}
      BY <1>2, <2>2, <3>1 DEF KnowsRenewEnd
    <3>3. s = s0 /\ x.fit \subseteq {s0} /\ Session(s0) \in DOMAIN x.mine
          /\ DOMAIN x.mine \subseteq {Session(s0)} \cup {Token(k) : k \in Tokens}
      BY <1>1, <3>1 DEF KnowsRenewEnd
    <3>4. KnowsRenewEnd(db, y, s0)
      <4>1. how \in {"Expired", "Revoked"} /\ y.seen = {how}
        BY <1>5, <3>2
      <4>2. DOMAIN y.mine \subseteq {Session(s0)} \cup {Token(k) : k \in Tokens} /\ Session(s0) \in DOMAIN y.mine
        BY <1>5, <3>3
      <4>3. y.todo \subseteq {s0} /\ y.fit \subseteq {s0}
        BY <1>1, <1>5, <3>1, <3>3 DEF KnowsRenewEnd
      <4> QED
        BY <1>5, <4>1, <4>2, <4>3 DEF KnowsRenewEnd
    <3> QED
      BY <1>5, <2>2, <3>1, <3>4 DEF Knows, KnowsRenew, Unlocked
  <2>3. CASE j.kind # "renew"
    <3>1. KnowsEnds(db, x, j, b) /\ j.kind # "switchOn"
      BY <1>3, <2>3
    <3>2. KnowsAccounts(db, y, j)
      <4>1. KnowsAccounts(db, x, j)
        BY <1>1, <3>1 DEF KnowsEnds
      <4>2. \A l \in Logins : /\ Login(l) \in DOMAIN y.mine <=> Login(l) \in DOMAIN x.mine
                              /\ Login(l) \in DOMAIN x.mine => y.mine[Login(l)] = x.mine[Login(l)]
        BY <1>5, RowNames
      <4>3. Over(y) \cup Pending(y) \subseteq Over(x) \cup Pending(x)
        BY <1>1, <1>5 DEF Pending
      <4>4. Turning(j) => j.login \in Logins
        BY About DEF Turning
      <4> QED
        BY <4>1, <4>2, <4>3, <4>4 DEF KnowsAccounts
    <3>3. SelectsOnce(y, j)
      BY <1>1, <1>5, <3>1 DEF KnowsEnds, SelectsOnce
    <3>4. LocksOne(y, j)
      <4>1. j.kind \in {"signOut", "device"} => y.todo = {}
        BY <1>1, <1>5, <3>1 DEF KnowsEnds, LocksOne
      <4> QED
        BY <1>5, <4>1 DEF LocksOne
    <3>5. how = How(j) /\ \A r \in y.todo : r \in SessionIds /\ db[Session(r)].status # "None"
      BY <1>1, <1>2, <1>5, <2>3, <3>1 DEF KnowsEnds
    <3>6. KnowsEnds(db, y, j, b)
      BY <1>5, <3>2, <3>3, <3>4, <3>5 DEF KnowsEnds
    <3>7. j.kind \in {"signIn", "signOut"} => KnowsNamed(db, y, j)
      <4> SUFFICES ASSUME j.kind \in {"signIn", "signOut"} PROVE KnowsNamed(db, y, j)
        OBVIOUS
      <4>1. KnowsNamed(db, x, j)
        BY <1>1 DEF Knows
      <4> QED
        BY <1>1, <1>5, <2>1, <4>1, NamedMore
    <3> QED
      BY <1>5, <2>3, <3>1, <3>6, <3>7 DEF Knows, Unlocked
  <2> QED
    BY <2>2, <2>3
<1>6. CASE IsActive(t, Session(s))
  <2> DEFINE ended == [View(t, Session(s)) EXCEPT !.status = how]
             new == Version(Session(s), ended)
             next == [x EXCEPT !.todo = @ \ {s}, !.fit = @ \cup {s}]
  <2>1. db[Session(s)] \in Now!SessionRow
    BY <1>1 DEF RowsFit
  <2>2. View(t, Session(s)) = db[Session(s)] /\ db[Session(s)].status = "Active"
    <3>1. CASE Session(s) \notin DOMAIN x.mine
      BY <1>4, <1>6, <3>1 DEF IsActive
    <3>2. CASE Session(s) \in DOMAIN x.mine
      <4>1. db[Session(s)].status = "Active" /\ x.mine[Session(s)] \in {db[Session(s)], [db[Session(s)] EXCEPT !.status = how]}
        BY <1>2, <3>2 DEF EndsOnly
      <4>2. [db[Session(s)] EXCEPT !.status = how].status = how
        BY <2>1 DEF Now!SessionRow
      <4> QED
        BY <1>4, <1>6, <3>2, <4>1, <4>2 DEF IsActive
    <3> QED
      BY <3>1, <3>2
  <2>3. Write(t, new, next)
    BY <1>2, <1>6 DEF EndSession, Becomes
  <2>4. DOMAIN new = {Session(s)} /\ new[Session(s)] = ended /\ ended = [db[Session(s)] EXCEPT !.status = how]
    BY <2>2, OneVersion
  <2>5. IsTx(next) /\ next.mine = x.mine /\ next.pc = "end" /\ next.todo = x.todo \ {s} /\ next.fit = x.fit \cup {s}
        /\ next.seen = x.seen
    BY <1>1 DEF IsTx
  <2> HIDE DEF new, next, ended
  <2>6. ASSUME NEW y, IsTx(y), y.pc = next.pc, y.todo = next.todo, y.fit = next.fit, y.seen = next.seen,
               Newest(y.mine, new, x.mine)
        PROVE  Knows(db, y, j, b)
    <3>1. EndsOnly(db, y, how, {}) /\ Over(y) = Over(x) \cup {s} /\ y.mine[Session(s)].status = how
      BY <1>1, <1>2, <2>2, <2>4, <2>5, <2>6, EndsOneMore
    <3>2. DOMAIN y.mine = DOMAIN x.mine \cup {Session(s)} /\ \A r \in DOMAIN x.mine : r # Session(s) => y.mine[r] = x.mine[r]
      BY <2>4, <2>6 DEF Newest
    <3>3. StatusTo(db, y, s) # "Active"
      BY <3>1, <3>2 DEF StatusTo
    <3> QED
      BY <1>5, <2>5, <2>6, <3>1, <3>2, <3>3
  <2> QED
    BY <1>4, <2>3, <2>4, <2>5, <2>6, Meanwhile, WriteKeeps
<1>7. CASE ~IsActive(t, Session(s))
  <2> DEFINE y == [x EXCEPT !.todo = @ \ {s}]
  <2>1. Read(t, y)
    BY <1>7 DEF EndSession
  <2>2. IsTx(y) /\ y.mine = x.mine /\ y.pc = "end" /\ y.todo = x.todo \ {s} /\ y.fit = x.fit /\ y.seen = x.seen
    BY <1>1 DEF IsTx
  <2> HIDE DEF y
  <2>3. EndsOnly(db, y, how, {}) /\ Over(y) = Over(x)
    <3>1. Loud(x) = Loud(y)
      BY <1>1, <2>2 DEF Loud
    <3> QED
      BY <1>2, <2>2, <3>1, SameEnds
  <2>4. StatusTo(db, y, s) # "Active"
    BY <1>4, <1>7, <2>2 DEF IsActive, StatusTo
  <2>5. Knows(db, y, j, b)
    BY <1>5, <2>2, <2>3, <2>4
  <2> QED
    BY <2>1, <2>2, <2>5, Meanwhile, ReadKeeps
<1> QED
  BY <1>6, <1>7

\* Where a request goes when it has revoked the tokens of what it ended.
LEMMA AfterEndingIs ==
    ASSUME SInv, NEW t \in Requests, tx[t].pc = "end", tx[t].todo = {}
    PROVE  LET x == tx[t]
               j == job[t]
               next == AfterEnding(t)
           IN  /\ IsTx(next) /\ next.mine = x.mine /\ next.todo = {} /\ next.seen = x.seen
               /\ j.kind = "renew" => next.pc = "commit"
               /\ j.kind # "renew" =>
                    /\ next.fit = {}
                    /\ \/ next.pc = "select" /\ x.seen # {} /\ j.kind \in {"signIn", "signOutEveryone"}
                       \/ next.pc = "open" /\ x.seen = {} /\ j.kind = "signIn"
                       \/ next.pc = "commit" /\ x.seen = {} /\ j.kind # "signIn"
<1> DEFINE x == tx[t]
           j == job[t]
           next == AfterEnding(t)
<1>1. IsTx(x)
  BY About
<1>2. CASE j.kind = "renew"
  <2>1. next = [x EXCEPT !.pc = "commit"]
    BY <1>2 DEF AfterEnding, Kind
  <2> QED
    BY <1>1, <1>2, <2>1 DEF IsTx
<1>3. CASE j.kind # "renew"
  <2>1. KnowsEnds(db, x, j, began[t])
    BY <1>3, AtTheEnd
  <2>2. j.kind \notin {"signIn", "signOutEveryone"} => x.seen = {}
    BY <2>1 DEF KnowsEnds, SelectsOnce
  <2>3. CASE x.seen # {}
    <3>1. next = [x EXCEPT !.pc = "select", !.fit = {}]
      BY <1>3, <2>3 DEF AfterEnding, Kind
    <3> QED
      BY <1>1, <1>3, <2>2, <2>3, <3>1 DEF IsTx
  <2>4. CASE x.seen = {} /\ j.kind = "signIn"
    <3>1. next = [x EXCEPT !.pc = "open", !.fit = {}]
      BY <2>4 DEF AfterEnding, Kind
    <3> QED
      BY <1>1, <1>3, <2>4, <3>1 DEF IsTx
  <2>5. CASE x.seen = {} /\ j.kind # "signIn"
    <3>1. next = [x EXCEPT !.pc = "commit", !.fit = {}]
      BY <1>3, <2>5 DEF AfterEnding, Kind
    <3> QED
      BY <1>1, <1>3, <2>5, <3>1 DEF IsTx
  <2> QED
    BY <2>3, <2>4, <2>5
<1> QED
  BY <1>2, <1>3

LEMMA RevokeTokensKeeps ==
    ASSUME SInv, NEW t \in Requests, RevokeTokens(t), UNCHANGED <<now, began>>
    PROVE  SInv'
<1> DEFINE x == tx[t]
           j == job[t]
           b == began[t]
           s0 == db[Token(j.token)].session
           live == {k \in Tokens : IsActive(t, Token(k)) /\ SessionOf(t, k) \in x.fit}
           new == [r \in {Token(k) : k \in live} |-> [View(t, r) EXCEPT !.status = "Revoked"]]
           next == AfterEnding(t)
<1>1. x.pc = "end" /\ x.todo = {} /\ IsTx(x) /\ Knows(db, x, j, b) /\ RowsFit(db)
  BY About DEF RevokeTokens, At
<1>2. PICK how \in {"SignedOut", "Expired", "Revoked"} :
          EndsOnly(db, x, how, {}) /\ (j.kind # "renew" => how = How(j)) /\ (j.kind = "renew" => x.seen = {how})
  BY <1>1, AtTheEnd
<1>3. /\ j.kind = "renew" => KnowsRenew(db, x, j.token, b)
      /\ j.kind # "renew" => KnowsEnds(db, x, j, b) /\ j.kind # "switchOn"
  BY <1>1, AtTheEnd
<1>4. CASE Fail(t)
  BY <1>4, FailKeeps, Meanwhile
<1>5. CASE Write(t, new, next)
  <2>1. ASSUME NEW k \in Tokens
        PROVE  /\ k \in live <=> Token(k) \notin DOMAIN x.mine /\ db[Token(k)].status = "Active" /\ db[Token(k)].session \in x.fit
               /\ k \in live => View(t, Token(k)) = db[Token(k)]
    <3>1. k # 0 /\ View(t, Token(k)) = IF Token(k) \in DOMAIN x.mine THEN x.mine[Token(k)] ELSE db[Token(k)]
      BY About, RowsAre, NoZero
    <3>2. Token(k) \in DOMAIN x.mine => x.mine[Token(k)] = [db[Token(k)] EXCEPT !.status = "Revoked"]
      BY <1>2 DEF EndsOnly
    <3>3. db[Token(k)] \in Now!TokenRow
      BY <1>1 DEF RowsFit
    <3>4. Token(k) \in DOMAIN x.mine => View(t, Token(k)).status = "Revoked"
      BY <3>1, <3>2, <3>3 DEF Now!TokenRow
    <3> QED
      BY <3>1, <3>4 DEF IsActive, SessionOf
  <2>2. DOMAIN new = {Token(k) : k \in live} /\ \A k \in live : new[Token(k)] = [db[Token(k)] EXCEPT !.status = "Revoked"]
    BY <2>1
  <2>3. live \in SUBSET Tokens /\ DOMAIN new \subseteq Rows
    BY <2>2, RowsAre
  <2>4. /\ IsTx(next) /\ next.mine = x.mine /\ next.todo = {} /\ next.seen = x.seen
        /\ j.kind = "renew" => next.pc = "commit"
        /\ j.kind # "renew" =>
             /\ next.fit = {}
             /\ \/ next.pc = "select" /\ x.seen # {} /\ j.kind \in {"signIn", "signOutEveryone"}
                \/ next.pc = "open" /\ x.seen = {} /\ j.kind = "signIn"
                \/ next.pc = "commit" /\ x.seen = {} /\ j.kind # "signIn"
    BY <1>1, AfterEndingIs
  <2>5. next.pc \in {"select", "open", "commit"}
    BY <2>4
  <2> HIDE DEF new, next, live
  <2>6. ASSUME NEW y, IsTx(y), y.pc = next.pc, y.todo = next.todo, y.fit = next.fit, y.seen = next.seen,
               Newest(y.mine, new, x.mine)
        PROVE  Knows(db, y, j, b)
    <3>1. EndsOnly(db, y, how, {}) /\ Over(y) = Over(x)
      <4>1. y.pc # "end"
        BY <2>5, <2>6
      <4>2. /\ \A r \in DOMAIN new : \E k \in Tokens : r = Token(k)
            /\ \A k \in Tokens : Token(k) \in DOMAIN new => new[Token(k)] = [db[Token(k)] EXCEPT !.status = "Revoked"]
            /\ \A k \in Tokens : Token(k) \in DOMAIN new <=> k \in live
        BY <2>2, <2>3, RowNames
      <4>3. \A k \in Tokens : Token(k) \in DOMAIN new <=>
                Token(k) \notin DOMAIN x.mine /\ db[Token(k)].status = "Active" /\ db[Token(k)].session \in x.fit
        BY <2>1, <4>2
      <4>4. Silences(db, x, new)
        BY <4>2, <4>3 DEF Silences
      <4> QED
        BY <1>1, <1>2, <2>6, <4>1, <4>4, EndsTheirTokens
    <3>2. /\ DOMAIN y.mine = DOMAIN new \cup DOMAIN x.mine
          /\ \A r \in DOMAIN x.mine : r \notin DOMAIN new => y.mine[r] = x.mine[r]
      BY <2>6 DEF Newest
    <3>3. CASE j.kind = "renew"
      <4>1. KnowsRenewEnd(db, x, s0) /\ j.token \in Tokens /\ s0 \in SessionIds
        BY <1>1, <1>3, <3>3 DEF KnowsRenew
      <4>2. how \in {"Expired", "Revoked"} /\ x.seen = {how} /\ Session(s0) \in DOMAIN x.mine
            /\ DOMAIN x.mine \subseteq {Session(s0)} \cup {Token(k) : k \in Tokens}
        BY <1>2, <3>3, <4>1 DEF KnowsRenewEnd
      <4>3. Session(s0) \in DOMAIN y.mine /\ DOMAIN y.mine \subseteq {Session(s0)} \cup {Token(k) : k \in Tokens}
        BY <2>2, <2>3, <3>2, <4>2
      <4>4. y.pc = "commit" /\ y.seen = {how}
        BY <2>4, <2>6, <3>3, <4>2
      <4>5. KnowsRenewEnd(db, y, s0)
        BY <3>1, <4>2, <4>3, <4>4 DEF KnowsRenewEnd
      <4> QED
        BY <2>6, <3>3, <4>1, <4>4, <4>5 DEF Knows, KnowsRenew, Unlocked
    <3>4. CASE j.kind # "renew"
      <4>1. KnowsEnds(db, x, j, b) /\ j.kind # "switchOn" /\ how = How(j)
        BY <1>2, <1>3, <3>4
      <4>2. KnowsAccounts(db, y, j)
        <5>1. KnowsAccounts(db, x, j)
          BY <1>1, <4>1 DEF KnowsEnds
        <5>2. \A l \in Logins : Login(l) \notin DOMAIN new
          BY <2>2, RowNames
        <5>3. Pending(y) = {}
          BY <2>4, <2>6 DEF Pending
        <5>4. Turning(j) => j.login \in Logins
          BY About DEF Turning
        <5> QED
          BY <3>1, <3>2, <5>1, <5>2, <5>3, <5>4 DEF KnowsAccounts
      <4>3. SelectsOnce(y, j) /\ LocksOne(y, j)
        BY <2>4, <2>6, <3>4 DEF SelectsOnce, LocksOne
      <4>4. KnowsEnds(db, y, j, b)
        BY <2>4, <2>6, <3>1, <3>4, <4>1, <4>2, <4>3 DEF KnowsEnds
      <4>5. ASSUME j.kind \in {"signIn", "signOut"}
            PROVE  KnowsNamed(db, y, j)
        <5>1. KnowsNamed(db, x, j)
          BY <1>1, <4>5 DEF Knows
        <5>2. Passed(y, j) = Passed(x, j)
          BY <1>1, <2>4, <2>6, <3>4, <4>5 DEF Passed
        <5>3. \A r \in SessionIds : StatusTo(db, y, r) = StatusTo(db, x, r)
          <6>1. \A r \in SessionIds : Session(r) \notin DOMAIN new
            BY <2>2, RowNames
          <6> QED
            BY <3>2, <6>1 DEF StatusTo
        <5>4. Pending(x) = {}
          BY <1>1 DEF Pending
        <5> QED
          BY <5>1, <5>2, <5>3, <5>4 DEF KnowsNamed
      <4> QED
        BY <2>4, <2>6, <3>4, <4>1, <4>4, <4>5 DEF Knows, Unlocked
    <3> QED
      BY <3>3, <3>4
  <2> QED
    BY <1>5, <2>3, <2>4, <2>6, Meanwhile, WriteKeeps
<1> QED
  BY <1>4, <1>5 DEF RevokeTokens

\* The sessions a step of a sign-in or sign-out names, by what the request sees, are those named in the
\* committed rows: whose a token or a session is does not change.
LEMMA NamesAreNamed ==
    ASSUME SInv, NEW t \in Requests, tx[t].pc = "select", job[t].kind \in {"signIn", "signOut"}, NEW c, NEW s \in SessionIds
    PROVE  Names(t, c, s) <=> Named(db, job[t], c, s)
<1> DEFINE x == tx[t]
           j == job[t]
<1>1. Knows(db, x, j, began[t]) /\ RowsFit(db) /\ j \in JobType
  BY About
<1>2. EndsOnly(db, x, How(j), {}) /\ KnowsNamed(db, x, j)
  BY <1>1 DEF Knows, KnowsEnds
<1>3. View(t, Session(s)).login = db[Session(s)].login
  <2>1. View(t, Session(s)) = IF Session(s) \in DOMAIN x.mine THEN x.mine[Session(s)] ELSE db[Session(s)]
    BY About, RowsAre
  <2>2. db[Session(s)] \in Now!SessionRow
    BY <1>1 DEF RowsFit
  <2>3. [db[Session(s)] EXCEPT !.status = How(j)].login = db[Session(s)].login
    BY <2>2 DEF Now!SessionRow
  <2> QED
    BY <1>2, <2>1, <2>3 DEF EndsOnly
<1>4. SessionOf(t, j.token) = IF j.token = 0 THEN 0 ELSE db[Token(j.token)].session
  <2>1. CASE j.token = 0
    BY <2>1 DEF SessionOf
  <2>2. CASE j.token # 0
    <3>1. j.token \in Tokens
      BY <1>1, <2>2 DEF JobType
    <3>2. View(t, Token(j.token)) = IF Token(j.token) \in DOMAIN x.mine THEN x.mine[Token(j.token)] ELSE db[Token(j.token)]
      BY <3>1, About, RowsAre
    <3>3. db[Token(j.token)] \in Now!TokenRow
      BY <1>1, <3>1 DEF RowsFit
    <3>4. [db[Token(j.token)] EXCEPT !.status = "Revoked"].session = db[Token(j.token)].session
      BY <3>3 DEF Now!TokenRow
    <3> QED
      BY <1>2, <2>2, <3>1, <3>2, <3>4 DEF EndsOnly, SessionOf
  <2> QED
    BY <2>1, <2>2
<1>5. CASE j.kind = "signIn"
  BY <1>3, <1>4, <1>5 DEF Names, Named, Kind
<1>6. CASE j.kind = "signOut"
  BY <1>4, <1>6 DEF Names, Named, Kind
<1> QED
  BY <1>5, <1>6

LEMMA SelectSessionsKeeps ==
    ASSUME SInv, NEW t \in Requests, NEW c, SelectSessions(t, c), UNCHANGED <<now, began>>
    PROVE  SInv'
<1> DEFINE x == tx[t]
           j == job[t]
           b == began[t]
           todo == {s \in SessionIds : IsActive(t, Session(s)) /\ Names(t, c, s)}
           y == [x EXCEPT !.pc = "end", !.seen = @ \ {c}, !.todo = todo]
<1>1. x.pc = "select" /\ c \in x.seen /\ IsTx(x) /\ Knows(db, x, j, b) /\ RowsFit(db)
  BY About DEF SelectSessions, At
<1>2. j.kind \notin {"renew", "switchOn"} /\ KnowsEnds(db, x, j, b) /\ x.fit = {}
  BY <1>1 DEF Knows, KnowsRenew, KnowsSwitchOn, KnowsEnds
<1>3. EndsOnly(db, x, How(j), {}) /\ KnowsAccounts(db, x, j) /\ SelectsOnce(x, j) /\ LocksOne(x, j)
  BY <1>1, <1>2 DEF KnowsEnds
<1>4. IsTx(y) /\ y.mine = x.mine /\ y.pc = "end" /\ y.seen = x.seen \ {c} /\ y.todo = todo /\ y.fit = {}
  BY <1>1, <1>2 DEF IsTx
<1>5. Read(t, y)
  BY DEF SelectSessions
<1>6. ASSUME NEW s \in todo
      PROVE  s \in SessionIds /\ Names(t, c, s) /\ db[Session(s)].status = "Active"
             /\ View(t, Session(s)).login = db[Session(s)].login
  <2>1. View(t, Session(s)) = IF Session(s) \in DOMAIN x.mine THEN x.mine[Session(s)] ELSE db[Session(s)]
    BY About, RowsAre
  <2>2. db[Session(s)] \in Now!SessionRow
    BY <1>1 DEF RowsFit
  <2>3. [db[Session(s)] EXCEPT !.status = How(j)].login = db[Session(s)].login
    BY <2>2 DEF Now!SessionRow
  <2>4. IsActive(t, Session(s)) /\ Names(t, c, s)
    OBVIOUS
  <2> QED
    BY <1>3, <2>1, <2>3, <2>4 DEF EndsOnly, IsActive
<1>7. ASSUME NEW s \in SessionIds, s \notin todo, Names(t, c, s)
      PROVE  StatusTo(db, x, s) # "Active"
  <2>1. View(t, Session(s)) = IF Session(s) \in DOMAIN x.mine THEN x.mine[Session(s)] ELSE db[Session(s)]
    BY About, RowsAre
  <2> QED
    BY <1>7, <2>1 DEF IsActive, StatusTo
<1>8. j.kind \in {"signOut", "device"} => todo = {} \/ \E s \in SessionIds : todo = {s}
  <2> DEFINE it == IF j.kind = "device" THEN j.session
                   ELSE IF SessionOf(t, j.token) # 0 THEN SessionOf(t, j.token) ELSE j.from
  <2> SUFFICES ASSUME j.kind \in {"signOut", "device"} PROVE \A s \in todo : s = it
    OBVIOUS
  <2>1. CASE j.kind = "signOut"
    BY <2>1 DEF Names, Kind
  <2>2. CASE j.kind = "device"
    BY <2>2 DEF Names, Kind
  <2> QED
    BY <2>1, <2>2
<1>9. Turning(j) => \A s \in todo : db[Session(s)].login = j.login
  <2> SUFFICES ASSUME Turning(j), NEW s \in todo PROVE db[Session(s)].login = j.login
    OBVIOUS
  <2>1. c = j.login
    BY <1>1, <1>3 DEF Turning, SelectsOnce
  <2>2. View(t, Session(s)).login = c
    BY <1>6 DEF Turning, Names, Kind
  <2> QED
    BY <1>6, <2>1, <2>2
<1> HIDE DEF y, todo
<1>10. EndsOnly(db, y, How(j), {}) /\ Over(y) = Over(x)
  <2>1. Loud(x) = Loud(y)
    BY <1>1, <1>4 DEF Loud
  <2> QED
    BY <1>3, <1>4, <2>1, SameEnds
<1>11. KnowsAccounts(db, y, j)
  BY <1>1, <1>3, <1>4, <1>9, <1>10 DEF KnowsAccounts, Pending
<1>12. SelectsOnce(y, j) /\ LocksOne(y, j)
  BY <1>1, <1>3, <1>4, <1>8 DEF SelectsOnce, LocksOne
<1>13. KnowsEnds(db, y, j, b)
  BY <1>4, <1>6, <1>10, <1>11, <1>12 DEF KnowsEnds
<1>14. ASSUME j.kind \in {"signIn", "signOut"}
       PROVE  KnowsNamed(db, y, j)
  <2>1. KnowsNamed(db, x, j)
    BY <1>1, <1>14 DEF Knows
  <2>2. ASSUME NEW d \in Passed(y, j), NEW s \in SessionIds, Named(db, j, d, s)
        PROVE  StatusTo(db, y, s) # "Active" \/ s \in Pending(y)
    <3>1. StatusTo(db, y, s) = StatusTo(db, x, s) /\ Pending(x) = {} /\ Pending(y) = todo
      BY <1>1, <1>4 DEF StatusTo, Pending
    <3>2. d = c \/ d \in Passed(x, j)
      BY <1>1, <1>4 DEF Passed
    <3>3. CASE d = c
      BY <1>1, <1>7, <1>14, <2>2, <3>1, <3>3, NamesAreNamed
    <3>4. CASE d \in Passed(x, j)
      BY <2>1, <2>2, <3>1, <3>4 DEF KnowsNamed
    <3> QED
      BY <3>2, <3>3, <3>4
  <2> QED
    BY <2>1, <2>2 DEF KnowsNamed
<1>15. Knows(db, y, j, b)
  BY <1>2, <1>4, <1>13, <1>14 DEF Knows, Unlocked
<1> QED
  BY <1>4, <1>5, <1>15, Meanwhile, ReadKeeps

-----------------------------------------------------------------------------
(* The other handlers *)

\* A request with nothing locked that moves on, and the kinds that do.
LEMMA AtRest ==
    ASSUME SInv, NEW t \in Requests, tx[t].pc \in {"serve", "user", "begin", "found", "login", "reach"}
    PROVE  LET x == tx[t]
               j == job[t]
           IN  /\ IsTx(x) /\ Knows(db, x, j, began[t]) /\ DOMAIN x.mine = {} /\ x.fit = {} /\ RowsFit(db)
               /\ j.kind # "renew"
               /\ j.kind = "switchOn" => x.pc = "login"
               /\ j.kind # "switchOn" => KnowsEnds(db, x, j, began[t])
               /\ j.kind \in {"signIn", "signOut"} => KnowsNamed(db, x, j)
BY About DEF Knows, KnowsRenew, KnowsSwitchOn, Unlocked

\* What a request with nothing written knows when it is about to select sessions.
LEMMA SelectKnows ==
    ASSUME NEW rows, NEW y, NEW j, NEW b, IsTx(y), y.pc = "select", y.fit = {},
           j.kind \notin {"renew", "switchOn"},
           \A r \in DOMAIN y.mine : \E l \in Logins : r = Login(l),
           KnowsAccounts(rows, y, j), SelectsOnce(y, j), LocksOne(y, j),
           j.kind \in {"signIn", "signOut"} => KnowsNamed(rows, y, j)
    PROVE  Knows(rows, y, j, b)
<1>1. EndsOnly(rows, y, How(j), {})
  BY RowNames DEF EndsOnly, Over, Loud
<1>2. KnowsEnds(rows, y, j, b)
  BY <1>1 DEF KnowsEnds
<1> QED
  BY <1>2 DEF Knows, Unlocked

LEMMA ServeKeeps ==
    ASSUME SInv, NEW t \in Requests, Serve(t), UNCHANGED <<now, began>>
    PROVE  SInv'
<1> DEFINE x == tx[t]
           j == job[t]
           b == began[t]
<1>1. x.pc = "serve" /\ IsTx(x) /\ DOMAIN x.mine = {} /\ x.fit = {} /\ KnowsEnds(db, x, j, b)
      /\ j.kind \in {"device", "everywhere", "others", "changePassword"}
  BY AtRest DEF Serve, At, KnowsEnds
<1>2. CASE Fail(t)
  BY <1>2, FailKeeps, Meanwhile
<1>3. CASE Kind(t) = "changePassword" /\ Read(t, [x EXCEPT !.pc = "login"])
  <2> DEFINE y == [x EXCEPT !.pc = "login"]
  <2>1. IsTx(y) /\ y.mine = x.mine /\ y.pc = "login" /\ y.fit = {}
    BY <1>1 DEF IsTx
  <2>2. Read(t, y)
    BY <1>3
  <2> HIDE DEF y
  <2>3. KnowsEnds(db, y, j, b)
    BY <1>3, <2>1 DEF KnowsEnds, SelectsOnce, LocksOne, Kind
  <2>4. Knows(db, y, j, b)
    BY <1>1, <1>3, <2>1, <2>3 DEF Knows, Kind
  <2> QED
    BY <2>1, <2>2, <2>4, Meanwhile, ReadKeeps
<1>4. CASE Kind(t) # "changePassword" /\ Read(t, [x EXCEPT !.pc = "select", !.seen = {j.login}])
  <2> DEFINE y == [x EXCEPT !.pc = "select", !.seen = {j.login}]
  <2>1. IsTx(y) /\ y.mine = x.mine /\ y.pc = "select" /\ y.fit = {} /\ y.seen = {j.login}
    BY <1>1 DEF IsTx
  <2>2. Read(t, y)
    BY <1>4
  <2> HIDE DEF y
  <2>3. KnowsAccounts(db, y, j)
    BY <1>1, <2>1 DEF KnowsAccounts, Turning
  <2>4. SelectsOnce(y, j) /\ LocksOne(y, j)
    BY <1>1, <2>1 DEF SelectsOnce, LocksOne
  <2>5. Knows(db, y, j, b)
    BY <1>1, <2>1, <2>3, <2>4, SelectKnows
  <2> QED
    BY <2>1, <2>2, <2>5, Meanwhile, ReadKeeps
<1> QED
  BY <1>2, <1>3, <1>4 DEF Serve

LEMMA ReadUserKeeps ==
    ASSUME SInv, NEW t \in Requests, ReadUser(t), UNCHANGED <<now, began>>
    PROVE  SInv'
<1> DEFINE x == tx[t]
           j == job[t]
           b == began[t]
           y == [x EXCEPT !.pc = "begin"]
<1>1. x.pc = "user" /\ IsTx(x) /\ DOMAIN x.mine = {} /\ x.fit = {} /\ KnowsEnds(db, x, j, b) /\ j.kind = "signIn"
      /\ KnowsNamed(db, x, j)
  BY AtRest DEF ReadUser, At, KnowsEnds
<1>2. CASE Fail(t)
  BY <1>2, FailKeeps, Meanwhile
<1>3. CASE Read(t, y)
  <2>1. IsTx(y) /\ y.mine = x.mine /\ y.pc = "begin" /\ y.fit = {}
    BY <1>1 DEF IsTx
  <2> HIDE DEF y
  <2>2. KnowsEnds(db, y, j, b)
    BY <1>1, <2>1 DEF KnowsEnds, SelectsOnce, LocksOne
  <2>3. KnowsNamed(db, y, j)
    BY <1>1, <2>1 DEF KnowsNamed, Passed
  <2>4. Knows(db, y, j, b)
    BY <1>1, <2>1, <2>2, <2>3 DEF Knows
  <2> QED
    BY <1>3, <2>1, <2>4, Meanwhile, ReadKeeps
<1> QED
  BY <1>2, <1>3 DEF ReadUser

LEMMA FindHeldSessionKeeps ==
    ASSUME SInv, NEW t \in Requests, FindHeldSession(t), Since(t, now)
    PROVE  SInv'
<1> DEFINE x == tx[t]
           j == job[t]
           y == [x EXCEPT !.pc = "select", !.seen = {1, 2}]
<1>1. x.pc = "begin" /\ IsTx(x) /\ DOMAIN x.mine = {} /\ x.fit = {} /\ j.kind = "signIn" /\ KnowsNamed(db, x, j)
  BY AtRest DEF FindHeldSession, At, KnowsEnds
<1>2. IsTx(y) /\ y.mine = x.mine /\ y.pc = "select" /\ y.fit = {} /\ y.seen = {1, 2}
  BY <1>1 DEF IsTx
<1>3. Read(t, y)
  BY DEF FindHeldSession
<1> HIDE DEF y
<1>4. KnowsAccounts(db, y, j) /\ SelectsOnce(y, j) /\ LocksOne(y, j)
  BY <1>1, <1>2 DEF KnowsAccounts, Turning, SelectsOnce, LocksOne
<1>5. KnowsNamed(db, y, j)
  BY <1>1, <1>2 DEF KnowsNamed, Passed
<1>6. Knows(db, y, j, now)
  BY <1>1, <1>2, <1>4, <1>5, SelectKnows
<1> QED
  BY <1>2, <1>3, <1>6, ReadKeeps

LEMMA FindSessionKeeps ==
    ASSUME SInv, NEW t \in Requests, FindSession(t), UNCHANGED <<now, began>>
    PROVE  SInv'
<1> DEFINE x == tx[t]
           j == job[t]
           b == began[t]
<1>1. x.pc = "found" /\ IsTx(x) /\ DOMAIN x.mine = {} /\ x.fit = {} /\ j.kind = "signOut" /\ KnowsNamed(db, x, j)
      /\ RowsFit(db) /\ j \in JobType
  BY AtRest, About DEF FindSession, At, KnowsEnds
<1>2. CASE SessionOf(t, j.token) # 0 \/ j.from # 0
  <2> DEFINE y == [x EXCEPT !.pc = "select", !.seen = {1}]
  <2>1. IsTx(y) /\ y.mine = x.mine /\ y.pc = "select" /\ y.fit = {} /\ y.seen = {1}
    BY <1>1 DEF IsTx
  <2>2. Read(t, y)
    BY <1>2 DEF FindSession
  <2> HIDE DEF y
  <2>3. KnowsAccounts(db, y, j) /\ SelectsOnce(y, j) /\ LocksOne(y, j)
    BY <1>1, <2>1 DEF KnowsAccounts, Turning, SelectsOnce, LocksOne
  <2>4. KnowsNamed(db, y, j)
    BY <1>1, <2>1 DEF KnowsNamed, Passed
  <2>5. Knows(db, y, j, b)
    BY <1>1, <2>1, <2>3, <2>4, SelectKnows
  <2> QED
    BY <2>1, <2>2, <2>5, Meanwhile, ReadKeeps
<1>3. CASE ~(SessionOf(t, j.token) # 0 \/ j.from # 0)
  <2> DEFINE y == Blank("done")
  <2>1. IsTx(y) /\ y.pc = "done" /\ DOMAIN y.mine = {} /\ y.fit = {}
    BY BlankIs
  <2>2. Quiet(t, y, b)
    BY <1>3, Meanwhile, EndQuiet DEF FindSession
  <2> HIDE DEF y
  <2>3. KnowsEnds(db, y, j, b)
    BY <1>1, <2>1 DEF KnowsEnds, SelectsOnce, LocksOne
  <2>4. ASSUME NEW c, NEW s \in SessionIds
        PROVE  ~Named(db, j, c, s)
    <3>1. j.token \in Tokens => db[Token(j.token)].session = 0
      BY <1>1, <1>3, SessionOfIs DEF JobType
    <3> QED
      BY <1>1, <1>3, <3>1, NoZero DEF Named, JobType
  <2>5. KnowsNamed(db, y, j)
    BY <1>1, <2>4 DEF KnowsNamed
  <2>6. Knows(db, y, j, b)
    BY <1>1, <2>1, <2>3, <2>5 DEF Knows
  <2> QED
    BY <2>2, <2>6, About, QuietKeeps
<1> QED
  BY <1>2, <1>3

LEMMA OpenSessionKeeps ==
    ASSUME SInv, NEW t \in Requests, OpenSession(t), UNCHANGED <<now, began>>
    PROVE  SInv'
<1> DEFINE x == tx[t]
           j == job[t]
           b == began[t]
           next == [x EXCEPT !.pc = "commit"]
<1>1. x.pc = "open" /\ IsTx(x) /\ Knows(db, x, j, b) /\ RowsFit(db) /\ DOMAIN x.mine \subseteq Rows
      /\ \A r \in Rows : lock[r] = t <=> r \in DOMAIN x.mine
  BY About DEF OpenSession, At
<1>2. j.kind = "signIn" /\ KnowsEnds(db, x, j, b) /\ KnowsNamed(db, x, j)
  BY <1>1 DEF Knows, KnowsRenew, KnowsSwitchOn, KnowsEnds
<1>3. EndsOnly(db, x, "SignedOut", {}) /\ KnowsAccounts(db, x, j)
  BY <1>1, <1>2 DEF KnowsEnds, How
<1>4. PICK s \in SessionIds, n \in Tokens :
        /\ Unused(Session(s)) /\ IsNextToken(n)
        /\ Write(t, Version(Session(s), [status |-> "Active", login |-> j.login, until |-> b + Lifetime])
                    ++ Version(Token(n), NewToken(t, s)), next)
  BY DEF OpenSession
<1>5. /\ db[Session(s)].status = "None" /\ db[Token(n)].status = "None"
      /\ Session(s) \notin DOMAIN x.mine /\ Token(n) \notin DOMAIN x.mine /\ Session(s) \in Rows /\ Token(n) \in Rows
      /\ Session(s) # Token(n)
  BY <1>1, <1>4, NextTokenIs, RowsAre, RowNames, ReadCommittedAssumption DEF Unused
<1> DEFINE opened == [status |-> "Active", login |-> j.login, until |-> b + Lifetime]
           fresh == NewToken(t, s)
           new == Version(Session(s), opened) ++ Version(Token(n), fresh)
<1>6. fresh = [status |-> "Active", session |-> s, next |-> 0, rotated |-> 0, until |-> b + Idle]
  BY DEF NewToken
<1>7. opened.status = "Active" /\ opened = [status |-> "Active", login |-> j.login, until |-> b + Lifetime]
  OBVIOUS
<1> HIDE DEF opened, fresh
<1>8. Write(t, new, next)
  BY <1>4 DEF opened, fresh
<1>9. DOMAIN new = {Session(s), Token(n)} /\ new[Session(s)] = opened /\ new[Token(n)] = fresh
  <2>1. PICK f, g : f = Version(Session(s), opened) /\ g = Version(Token(n), fresh)
    OBVIOUS
  <2>2. DOMAIN f = {Session(s)} /\ f[Session(s)] = opened /\ DOMAIN g = {Token(n)} /\ g[Token(n)] = fresh
    BY <2>1, OneVersion
  <2>3. Newest(new, f, g)
    BY <2>1, NewestCounts
  <2> HIDE DEF new
  <2> QED
    BY <1>5, <2>2, <2>3 DEF Newest
<1>10. IsTx(next) /\ next.mine = x.mine /\ next.pc = "commit" /\ next.todo = x.todo
  BY <1>1 DEF IsTx
<1> HIDE DEF new, next
<1>11. ASSUME NEW y, IsTx(y), y.pc = next.pc, y.todo = next.todo, y.fit = next.fit, y.seen = next.seen,
              Newest(y.mine, new, x.mine)
       PROVE  Knows(db, y, j, b)
  <2>1. /\ DOMAIN y.mine = {Session(s), Token(n)} \cup DOMAIN x.mine
        /\ y.mine[Session(s)] = opened /\ y.mine[Token(n)] = fresh
        /\ \A r \in DOMAIN x.mine : y.mine[r] = x.mine[r]
    BY <1>5, <1>9, <1>11 DEF Newest
  <2>2. \A r \in SessionIds : r # s => (Session(r) \in DOMAIN y.mine <=> Session(r) \in DOMAIN x.mine)
    BY <2>1, RowNames
  <2>3. Over(y) = Over(x)
    BY <1>5, <1>7, <2>1, <2>2 DEF Over
  <2>4. Loud(x) = {} /\ Loud(y) = {}
    BY <1>1, <1>10, <1>11 DEF Loud
  <2>5. EndsOnly(db, y, "SignedOut", {Session(s), Token(n)})
    BY <1>3, <2>1, <2>3, <2>4 DEF EndsOnly
  <2>6. KnowsSignIn(db, y, j.login, b)
    BY <1>5, <1>6, <1>7, <2>1, <2>5 DEF KnowsSignIn
  <2>7. KnowsAccounts(db, y, j)
    <3>1. \A l \in Logins : Login(l) \in DOMAIN y.mine => Login(l) \in DOMAIN x.mine
      BY <2>1, RowNames
    <3> QED
      BY <1>2, <1>3, <2>1, <3>1 DEF KnowsAccounts, Turning
  <2>8. KnowsEnds(db, y, j, b)
    BY <1>2, <1>10, <1>11, <2>6, <2>7 DEF KnowsEnds, SelectsOnce, LocksOne
  <2>9. ASSUME NEW c \in Passed(y, j), NEW r \in SessionIds, Named(db, j, c, r)
        PROVE  StatusTo(db, y, r) # "Active"
    <3>1. Passed(y, j) = Passed(x, j) /\ Pending(x) = {}
      BY <1>1, <1>10, <1>11 DEF Passed, Pending
    <3>2. StatusTo(db, x, r) # "Active"
      BY <1>2, <2>9, <3>1 DEF KnowsNamed
    <3>3. db[Session(r)].status # "None"
      <4>1. j.token \in Tokens \cup {0} /\ r # 0
        BY About, NoZero DEF JobType
      <4>2. CASE r = j.session
        BY <1>2, <4>1, <4>2 DEF KnowsNamed
      <4>3. CASE j.token # 0 /\ r = db[Token(j.token)].session
        BY <1>1, <1>2, <4>1, <4>3 DEF KnowsNamed, RowsFit
      <4> QED
        BY <1>2, <2>9, <4>1, <4>2, <4>3 DEF Named
    <3>4. StatusTo(db, y, r) = StatusTo(db, x, r)
      BY <1>5, <2>1, <2>2, <3>3 DEF StatusTo
    <3> QED
      BY <3>2, <3>4
  <2>10. KnowsNamed(db, y, j)
    BY <1>2, <2>9 DEF KnowsNamed
  <2> QED
    BY <1>2, <1>10, <1>11, <2>8, <2>10 DEF Knows, Unlocked
<1>12. DOMAIN new \subseteq Rows
  BY <1>5, <1>9
<1> QED
  BY <1>8, <1>10, <1>11, <1>12, Meanwhile, WriteKeeps

LEMMA ChangeAccountKeeps ==
    ASSUME SInv, NEW t \in Requests, ChangeAccount(t), UNCHANGED <<now, began>>
    PROVE  SInv'
<1> DEFINE x == tx[t]
           j == job[t]
           b == began[t]
           l == j.login
           status == db[Login(l)]
<1>1. x.pc = "login" /\ IsTx(x) /\ DOMAIN x.mine = {} /\ x.fit = {} /\ RowsFit(db)
      /\ j.kind \in {"changePassword", "resetPassword", "switchOff", "switchOn", "delete", "signOutUser"}
  BY AtRest DEF ChangeAccount, At, KnowsEnds
<1>2. l \in Logins /\ Login(l) \in Rows /\ View(t, Login(l)) = status
  BY <1>1, About, RowsAre
<1>3. status \in {"Active", "Inactive", "Deleted"}
  BY <1>1, <1>2 DEF RowsFit, Now!AccountStatus
<1>4. ASSUME NEW v, Write(t, Version(Login(l), v), [x EXCEPT !.pc = "select", !.seen = {l}]), j.kind # "switchOn",
             IF Turning(j) THEN v = To(j) /\ status \notin {To(j), "Deleted"} ELSE v = status
      PROVE  SInv'
  <2> DEFINE next == [x EXCEPT !.pc = "select", !.seen = {l}]
             new == Version(Login(l), v)
  <2>1. Write(t, new, next)
    BY <1>4
  <2>2. DOMAIN new = {Login(l)} /\ new[Login(l)] = v
    BY OneVersion
  <2>3. IsTx(next) /\ next.mine = x.mine /\ next.pc = "select" /\ next.fit = {} /\ next.seen = {l}
    BY <1>1 DEF IsTx
  <2> HIDE DEF new, next
  <2>4. ASSUME NEW y, IsTx(y), y.pc = next.pc, y.todo = next.todo, y.fit = next.fit, y.seen = next.seen,
               Newest(y.mine, new, x.mine)
        PROVE  Knows(db, y, j, b)
    <3>1. DOMAIN y.mine = {Login(l)} /\ y.mine[Login(l)] = v
      BY <1>1, <2>2, <2>4 DEF Newest
    <3>2. Over(y) = {} /\ Pending(y) = {}
      BY <2>3, <2>4, <3>1, RowNames DEF Over, Pending
    <3>3. KnowsAccounts(db, y, j)
      BY <1>2, <1>4, <3>1, <3>2, RowNames DEF KnowsAccounts
    <3>4. SelectsOnce(y, j) /\ LocksOne(y, j)
      BY <1>1, <2>3, <2>4 DEF SelectsOnce, LocksOne
    <3> QED
      BY <1>1, <1>2, <1>4, <2>3, <2>4, <3>1, <3>3, <3>4, SelectKnows
  <2> QED
    BY <1>2, <2>1, <2>2, <2>3, <2>4, Meanwhile, WriteKeeps
<1>5. CASE Fail(t)
  BY <1>5, FailKeeps, Meanwhile
<1>6. CASE End(t, "done") /\ UNCHANGED db
  BY <1>1, <1>6, DoneKeeps, Meanwhile
<1>7. CASE j.kind = "switchOn" /\ status = "Inactive" /\ Write(t, Version(Login(l), "Active"), [x EXCEPT !.pc = "commit"])
  <2> DEFINE next == [x EXCEPT !.pc = "commit"]
             new == Version(Login(l), "Active")
  <2>1. Write(t, new, next)
    BY <1>7
  <2>2. DOMAIN new = {Login(l)} /\ new[Login(l)] = "Active"
    BY OneVersion
  <2>3. IsTx(next) /\ next.mine = x.mine /\ next.pc = "commit"
    BY <1>1 DEF IsTx
  <2> HIDE DEF new, next
  <2>4. ASSUME NEW y, IsTx(y), y.pc = next.pc, y.todo = next.todo, y.fit = next.fit, y.seen = next.seen,
               Newest(y.mine, new, x.mine)
        PROVE  Knows(db, y, j, b)
    <3>1. DOMAIN y.mine = {Login(l)} /\ y.mine[Login(l)] = "Active"
      BY <1>1, <2>2, <2>4 DEF Newest
    <3> QED
      BY <1>2, <1>7, <2>3, <2>4, <3>1 DEF Knows, KnowsSwitchOn, Unlocked
  <2> QED
    BY <1>2, <2>1, <2>2, <2>3, <2>4, Meanwhile, WriteKeeps
<1>8. CASE j.kind \in {"changePassword", "resetPassword"}
  BY <1>2, <1>4, <1>8 DEF ChangeAccount, Kind, Turning
<1>9. CASE j.kind = "signOutUser"
  BY <1>2, <1>4, <1>5, <1>9 DEF ChangeAccount, Kind, Turning
<1>10. CASE j.kind = "switchOff"
  BY <1>2, <1>4, <1>5, <1>6, <1>10 DEF ChangeAccount, Kind, Turning, To
<1>11. CASE j.kind = "delete"
  BY <1>2, <1>4, <1>5, <1>11 DEF ChangeAccount, Kind, Turning, To
<1>12. CASE j.kind = "switchOn"
  BY <1>2, <1>3, <1>5, <1>6, <1>7, <1>12 DEF ChangeAccount, Kind
<1> QED
  BY <1>1, <1>8, <1>9, <1>10, <1>11, <1>12

LEMMA ReachKeeps ==
    ASSUME SInv, NEW t \in Requests, Reach(t), UNCHANGED <<now, began>>
    PROVE  SInv'
<1> DEFINE x == tx[t]
           j == job[t]
           b == began[t]
<1>1. x.pc = "reach" /\ IsTx(x) /\ DOMAIN x.mine = {} /\ x.fit = {} /\ j.kind = "signOutEveryone"
  BY AtRest DEF Reach, At, KnowsEnds
<1>2. PICK todo \in SUBSET Logins : Read(t, [x EXCEPT !.pc = "logins", !.todo = todo])
  <2>1. {l \in Logins \ {j.login} : View(t, Login(l)) # "Deleted"} \in SUBSET Logins
    OBVIOUS
  <2> QED
    BY <2>1 DEF Reach
<1> DEFINE y == [x EXCEPT !.pc = "logins", !.todo = todo]
<1>3. IsTx(y) /\ y.mine = x.mine /\ y.pc = "logins" /\ y.fit = {} /\ y.todo \subseteq Logins
  BY <1>1 DEF IsTx
<1>4. Read(t, y)
  BY <1>2
<1> HIDE DEF y
<1>5. KnowsEnds(db, y, j, b)
  BY <1>1, <1>3 DEF KnowsEnds, KnowsAccounts, Turning, SelectsOnce, LocksOne
<1>6. Knows(db, y, j, b)
  BY <1>1, <1>3, <1>5 DEF Knows, Unlocked
<1> QED
  BY <1>3, <1>4, <1>6, Meanwhile, ReadKeeps

\* Who signs everyone out has accounts locked, unchanged, before the sessions are selected.
LEMMA AtLogins ==
    ASSUME SInv, NEW t \in Requests, tx[t].pc = "logins"
    PROVE  LET x == tx[t]
           IN  /\ IsTx(x) /\ x.fit = {} /\ job[t].kind = "signOutEveryone" /\ x.todo \subseteq Logins
               /\ DOMAIN x.mine \subseteq {Login(l) : l \in Logins}
               /\ \A l \in Logins : Login(l) \in DOMAIN x.mine => x.mine[Login(l)] = db[Login(l)]
<1>1. IsTx(tx[t]) /\ KnowsEnds(db, tx[t], job[t], began[t])
  BY About DEF Knows, KnowsRenew, KnowsSwitchOn
<1> QED
  BY <1>1 DEF KnowsEnds, KnowsAccounts, Turning

LEMMA LockLoginKeeps ==
    ASSUME SInv, NEW t \in Requests, NEW l \in Logins, LockLogin(t, l), UNCHANGED <<now, began>>
    PROVE  SInv'
<1> DEFINE x == tx[t]
           j == job[t]
           b == began[t]
           rest == [x EXCEPT !.todo = @ \ {l}]
           next == [x EXCEPT !.todo = @ \ {l}, !.seen = @ \cup {l}]
           new == Version(Login(l), View(t, Login(l)))
<1>1. x.pc = "logins"
  BY DEF LockLogin, At
<1>2. IsTx(x) /\ x.fit = {} /\ j.kind = "signOutEveryone" /\ x.todo \subseteq Logins
      /\ DOMAIN x.mine \subseteq {Login(m) : m \in Logins}
      /\ \A m \in Logins : Login(m) \in DOMAIN x.mine => x.mine[Login(m)] = db[Login(m)]
  BY <1>1, AtLogins
<1>3. Login(l) \in Rows /\ View(t, Login(l)) = db[Login(l)]
  BY <1>2, About, RowsAre
<1>4. ASSUME NEW y, IsTx(y), y.pc = "logins", y.fit = {}, y.todo \subseteq Logins, DOMAIN y.mine \subseteq {Login(m) : m \in Logins},
             \A m \in Logins : Login(m) \in DOMAIN y.mine => y.mine[Login(m)] = db[Login(m)]
      PROVE  Knows(db, y, j, b)
  <2>1. KnowsEnds(db, y, j, b)
    BY <1>2, <1>4 DEF KnowsEnds, KnowsAccounts, Turning, SelectsOnce, LocksOne
  <2> QED
    BY <1>2, <1>4, <2>1 DEF Knows, Unlocked
<1>5. CASE Write(t, new, next)
  <2>1. DOMAIN new = {Login(l)} /\ new[Login(l)] = db[Login(l)]
    BY <1>3, OneVersion
  <2>2. IsTx(next) /\ next.mine = x.mine /\ next.pc = "logins" /\ next.fit = {} /\ next.todo \subseteq Logins
    BY <1>1, <1>2 DEF IsTx
  <2> HIDE DEF new, next
  <2>3. ASSUME NEW y, IsTx(y), y.pc = next.pc, y.todo = next.todo, y.fit = next.fit, y.seen = next.seen,
               Newest(y.mine, new, x.mine)
        PROVE  Knows(db, y, j, b)
    <3>1. DOMAIN y.mine \subseteq {Login(m) : m \in Logins}
          /\ \A m \in Logins : Login(m) \in DOMAIN y.mine => y.mine[Login(m)] = db[Login(m)]
      BY <1>2, <2>1, <2>3, RowNames DEF Newest
    <3> QED
      BY <1>4, <2>2, <2>3, <3>1
  <2> QED
    BY <1>3, <1>5, <2>1, <2>2, <2>3, Meanwhile, WriteKeeps
<1>6. CASE Read(t, rest)
  <2>1. IsTx(rest) /\ rest.mine = x.mine /\ rest.pc = "logins" /\ rest.fit = {} /\ rest.todo \subseteq Logins
    BY <1>1, <1>2 DEF IsTx
  <2> HIDE DEF rest
  <2>2. Knows(db, rest, j, b)
    BY <1>2, <1>4, <2>1
  <2> QED
    BY <1>6, <2>1, <2>2, Meanwhile, ReadKeeps
<1> QED
  BY <1>5, <1>6 DEF LockLogin, Lock

LEMMA AllReachedKeeps ==
    ASSUME SInv, NEW t \in Requests, AllReached(t), UNCHANGED <<now, began>>
    PROVE  SInv'
<1> DEFINE x == tx[t]
           j == job[t]
           b == began[t]
           y == [x EXCEPT !.pc = IF tx[t].seen = {} THEN "commit" ELSE "select"]
<1>1. x.pc = "logins"
  BY DEF AllReached, At
<1>2. IsTx(x) /\ x.fit = {} /\ j.kind = "signOutEveryone" /\ DOMAIN x.mine \subseteq {Login(m) : m \in Logins}
      /\ \A m \in Logins : Login(m) \in DOMAIN x.mine => x.mine[Login(m)] = db[Login(m)]
  BY <1>1, AtLogins
<1>3. Read(t, y)
  BY DEF AllReached
<1>4. IsTx(y) /\ y.mine = x.mine /\ y.pc \in {"commit", "select"} /\ y.fit = {}
  BY <1>2 DEF IsTx
<1> HIDE DEF y
<1>5. KnowsAccounts(db, y, j) /\ SelectsOnce(y, j) /\ LocksOne(y, j)
  BY <1>2, <1>4 DEF KnowsAccounts, Turning, SelectsOnce, LocksOne
<1>6. EndsOnly(db, y, How(j), {})
  BY <1>2, <1>4, RowNames DEF EndsOnly, Over, Loud
<1>7. KnowsEnds(db, y, j, b)
  BY <1>2, <1>4, <1>5, <1>6 DEF KnowsEnds
<1>8. Knows(db, y, j, b)
  BY <1>2, <1>4, <1>7 DEF Knows, Unlocked
<1> QED
  BY <1>3, <1>4, <1>8, Meanwhile, ReadKeeps

-----------------------------------------------------------------------------
(* What a COMMIT leaves to the other requests *)

\* What x has written of tokens it wrote under the lock of their sessions, it takes no issued token to
\* another session, and of opened sessions it has locked open ones.
Frame(rows, x) ==
    /\ \A k \in Tokens : Token(k) \in DOMAIN x.mine =>
        /\ x.mine[Token(k)].status # "None" /\ Session(x.mine[Token(k)].session) \in DOMAIN x.mine
        /\ rows[Token(k)].status # "None" => x.mine[Token(k)].session = rows[Token(k)].session
    /\ \A s \in SessionIds : Session(s) \in DOMAIN x.mine =>
        /\ x.mine[Session(s)].status # "None"
        /\ rows[Session(s)].status # "None" =>
             rows[Session(s)].status = "Active" /\ x.mine[Session(s)].login = rows[Session(s)].login

\* The rows `new` leave x what it has locked and the tokens of the sessions it has locked; what was issued
\* and opened stays so, and what was over stays over.
Kept(rows, new, x) ==
    /\ \A r \in DOMAIN x.mine : new[r] = rows[r]
    /\ \A k \in Tokens : new[Token(k)] # rows[Token(k)] => Session(new[Token(k)].session) \notin DOMAIN x.mine
    /\ \A k \in Tokens : rows[Token(k)].status # "None" =>
        new[Token(k)].status # "None" /\ new[Token(k)].session = rows[Token(k)].session
    /\ \A s \in SessionIds : rows[Session(s)].status # "None" =>
        /\ new[Session(s)].status # "None" /\ new[Session(s)].login = rows[Session(s)].login
        /\ rows[Session(s)].status # "Active" => new[Session(s)].status # "Active"

\* What a request has ended it ended under the lock of its sessions.
LEMMA EndsFrame ==
    ASSUME NEW rows, RowsFit(rows), NEW x, NEW how \in {"SignedOut", "Expired", "Revoked"}, NEW fresh,
           EndsOnly(rows, x, how, fresh)
    PROVE  /\ \A k \in Tokens : Token(k) \in DOMAIN x.mine \ fresh =>
                /\ x.mine[Token(k)].status # "None" /\ Session(x.mine[Token(k)].session) \in DOMAIN x.mine
                /\ x.mine[Token(k)].session = rows[Token(k)].session
           /\ \A s \in SessionIds : Session(s) \in DOMAIN x.mine \ fresh =>
                /\ x.mine[Session(s)].status # "None"
                /\ rows[Session(s)].status = "Active" /\ x.mine[Session(s)].login = rows[Session(s)].login
<1>1. ASSUME NEW k \in Tokens, Token(k) \in DOMAIN x.mine \ fresh
      PROVE  /\ x.mine[Token(k)].status # "None" /\ Session(x.mine[Token(k)].session) \in DOMAIN x.mine
             /\ x.mine[Token(k)].session = rows[Token(k)].session
  <2>1. x.mine[Token(k)] = [rows[Token(k)] EXCEPT !.status = "Revoked"] /\ rows[Token(k)].session \in Over(x)
    BY <1>1 DEF EndsOnly
  <2>2. rows[Token(k)] \in Now!TokenRow
    BY DEF RowsFit
  <2>3. x.mine[Token(k)].status = "Revoked" /\ x.mine[Token(k)].session = rows[Token(k)].session
    BY <2>1, <2>2 DEF Now!TokenRow
  <2> QED
    BY <2>1, <2>3 DEF Over
<1>2. ASSUME NEW s \in SessionIds, Session(s) \in DOMAIN x.mine \ fresh
      PROVE  /\ x.mine[Session(s)].status # "None"
             /\ rows[Session(s)].status = "Active" /\ x.mine[Session(s)].login = rows[Session(s)].login
  <2>1. /\ rows[Session(s)].status = "Active"
        /\ x.mine[Session(s)] \in {rows[Session(s)], [rows[Session(s)] EXCEPT !.status = how]}
    BY <1>2 DEF EndsOnly
  <2>2. rows[Session(s)] \in Now!SessionRow
    BY DEF RowsFit
  <2> QED
    BY <2>1, <2>2 DEF Now!SessionRow
<1> QED
  BY <1>1, <1>2

\* A replacement taken back is of the session of the token that led to it.
LEMMA TookBackFrame ==
    ASSUME NEW rows, RowsFit(rows), NEW x, NEW k \in Tokens, NEW b, TookBack(rows, x, k), Retradable(rows, k, b)
    PROVE  \A c \in Tokens : c = rows[Token(k)].next =>
             /\ x.mine[Token(c)].status # "None" /\ x.mine[Token(c)].session = rows[Token(k)].session
             /\ rows[Token(c)].session = rows[Token(k)].session
<1>1. \A i \in Tokens : rows[Token(i)] \in Now!TokenRow
  BY DEF RowsFit
<1> QED
  BY <1>1 DEF TookBack, Retradable, Now!TokenRow

\* A renewal about to trade has its session and what it takes back.
LEMMA TradeFrame ==
    ASSUME NEW rows, RowsFit(rows), NEW x, NEW k \in Tokens, NEW s, rows[Token(k)].session = s, NEW b,
           KnowsTrade(rows, x, k, s, b)
    PROVE  Frame(rows, x)
<1>1. Holds(rows, x, s, b)
  BY DEF KnowsTrade
<1>2. \A r \in SessionIds : Session(r) \in DOMAIN x.mine => r = s
  BY RowNames DEF KnowsTrade
<1>3. ASSUME NEW i \in Tokens, Token(i) \in DOMAIN x.mine
      PROVE  /\ x.mine[Token(i)].status # "None" /\ x.mine[Token(i)].session = s
             /\ rows[Token(i)].session = s
  <2>1. TookBack(rows, x, k) /\ Retradable(rows, k, b) /\ i = rows[Token(k)].next
    BY <1>3, RowNames DEF KnowsTrade
  <2> QED
    BY <2>1, TookBackFrame
<1> QED
  BY <1>1, <1>2, <1>3 DEF Frame, Holds

\* A renewal that has traded has its session and its tokens.
LEMMA TradedFrame ==
    ASSUME NEW rows, RowsFit(rows), NEW x, NEW k \in Tokens, NEW s, rows[Token(k)].session = s, NEW b,
           NEW n \in Tokens, KnowsTraded(rows, x, k, s, n, b)
    PROVE  Frame(rows, x)
<1>1. Holds(rows, x, s, b)
  BY DEF KnowsTraded
<1>2. ASSUME NEW r \in SessionIds, Session(r) \in DOMAIN x.mine
      PROVE  r = s
  <2>1. Session(r) = Session(s) \/ \E i : Session(r) = Token(i)
    BY <1>2 DEF KnowsTraded
  <2> QED
    BY <2>1, RowNames
<1>3. ASSUME NEW i \in Tokens, Token(i) \in DOMAIN x.mine
      PROVE  /\ x.mine[Token(i)].status # "None" /\ x.mine[Token(i)].session = s
             /\ rows[Token(i)].status # "None" => rows[Token(i)].session = s
  <2>1. CASE i = n
    BY <2>1 DEF KnowsTraded
  <2>2. CASE i = k
    <3>1. rows[Token(k)] \in Now!TokenRow
      BY DEF RowsFit
    <3>2. x.mine[Token(k)].status = "Rotated" /\ x.mine[Token(k)].session = s
      BY <3>1 DEF KnowsTraded, Now!TokenRow
    <3> QED
      BY <2>2, <3>2
  <2>3. CASE i # n /\ i # k
    <3>1. Token(i) \notin {Session(s), Token(k), Token(n)}
      BY <2>3, RowNames
    <3>2. /\ TookBack(rows, x, k) /\ Retradable(rows, k, b)
          /\ DOMAIN x.mine = {Session(s), Token(k), Token(n), Token(rows[Token(k)].next)}
      BY <1>3, <3>1 DEF KnowsTraded
    <3>3. i = rows[Token(k)].next
      BY <1>3, <3>1, <3>2, RowNames
    <3> QED
      BY <3>2, <3>3, TookBackFrame
  <2> QED
    BY <2>1, <2>2, <2>3
<1> QED
  BY <1>1, <1>2, <1>3 DEF Frame, Holds

\* What every request knows keeps to that frame.
LEMMA KnowsFrame ==
    ASSUME NEW rows, RowsFit(rows), NEW x, NEW j, NEW b, Knows(rows, x, j, b)
    PROVE  Frame(rows, x)
<1>1. ASSUME DOMAIN x.mine \subseteq {Login(l) : l \in Logins} PROVE Frame(rows, x)
  BY <1>1, RowNames DEF Frame
<1> DEFINE free == DOMAIN x.mine = {}
<1>2a. x.pc \in Unlocked => free
  BY DEF Knows
<1>3a. free => Frame(rows, x)
  BY <1>1
<1> HIDE DEF free
<1>2. CASE \E how \in {"SignedOut", "Expired", "Revoked"} : EndsOnly(rows, x, how, {})
  BY <1>2, EndsFrame DEF Frame
<1>3. CASE j.kind = "renew"
  <2>1. KnowsRenew(rows, x, j.token, b)
    BY <1>3 DEF Knows
  <2>2. CASE x.pc \in {"token", "successor"}
    <3>1. Holds(rows, x, rows[Token(j.token)].session, b) /\ DOMAIN x.mine = {Session(rows[Token(j.token)].session)}
      BY <2>1, <2>2 DEF KnowsRenew
    <3> QED
      BY <3>1, RowNames DEF Holds, Frame
  <2>3. CASE \/ KnowsTrade(rows, x, j.token, rows[Token(j.token)].session, b)
             \/ \E n \in Tokens : KnowsTraded(rows, x, j.token, rows[Token(j.token)].session, n, b)
    <3>1. free \/ j.token \in Tokens
      BY <1>2a, <2>1 DEF KnowsRenew, Unlocked
    <3>2. CASE j.token \in Tokens
      BY <2>3, <3>2, TradeFrame, TradedFrame
    <3> QED
      BY <1>3a, <3>1, <3>2
  <2>4. CASE KnowsRenewEnd(rows, x, rows[Token(j.token)].session)
    BY <1>2, <2>4 DEF KnowsRenewEnd
  <2>5. \/ free \/ x.pc \in {"token", "successor"}
        \/ KnowsTrade(rows, x, j.token, rows[Token(j.token)].session, b)
        \/ KnowsRenewEnd(rows, x, rows[Token(j.token)].session)
        \/ \E n \in Tokens : KnowsTraded(rows, x, j.token, rows[Token(j.token)].session, n, b)
    BY <1>2a, <2>1 DEF KnowsRenew, Unlocked
  <2> QED
    BY <1>3a, <2>2, <2>3, <2>4, <2>5
<1>4. CASE j.kind = "switchOn"
  <2>1. KnowsSwitchOn(rows, x, j.login)
    BY <1>4 DEF Knows
  <2>2. CASE x.pc = "commit"
    <3>1. DOMAIN x.mine = {Login(j.login)} /\ j.login \in Logins
      BY <2>1, <2>2 DEF KnowsSwitchOn
    <3> QED
      BY <1>1, <3>1
  <2>3. free \/ x.pc = "commit"
    BY <1>2a, <2>1 DEF KnowsSwitchOn, Unlocked
  <2> QED
    BY <1>3a, <2>2, <2>3
<1>5. CASE j.kind \notin {"renew", "switchOn"}
  <2>1. KnowsEnds(rows, x, j, b)
    BY <1>5 DEF Knows
  <2>2. CASE EndsOnly(rows, x, How(j), {})
    BY <1>2, <2>2 DEF How
  <2>3. CASE KnowsSignIn(rows, x, j.login, b)
    <3>1. PICK s \in SessionIds, n \in Tokens :
            /\ EndsOnly(rows, x, "SignedOut", {Session(s), Token(n)})
            /\ {Session(s), Token(n)} \subseteq DOMAIN x.mine
            /\ rows[Session(s)].status = "None" /\ rows[Token(n)].status = "None"
            /\ x.mine[Session(s)] = [status |-> "Active", login |-> j.login, until |-> b + Lifetime]
            /\ x.mine[Token(n)] = [status |-> "Active", session |-> s, next |-> 0, rotated |-> 0, until |-> b + Idle]
      BY <2>3 DEF KnowsSignIn
    <3>2. \A i \in Tokens : Token(i) \in {Session(s), Token(n)} <=> i = n
      BY RowNames
    <3>3. \A r \in SessionIds : Session(r) \in {Session(s), Token(n)} <=> r = s
      BY RowNames
    <3>4. x.mine[Session(s)].status = "Active" /\ x.mine[Token(n)].status = "Active" /\ x.mine[Token(n)].session = s
      BY <3>1
    <3>5. /\ \A k \in Tokens : Token(k) \in DOMAIN x.mine /\ k # n =>
                /\ x.mine[Token(k)].status # "None" /\ Session(x.mine[Token(k)].session) \in DOMAIN x.mine
                /\ x.mine[Token(k)].session = rows[Token(k)].session
          /\ \A r \in SessionIds : Session(r) \in DOMAIN x.mine /\ r # s =>
                /\ x.mine[Session(r)].status # "None"
                /\ rows[Session(r)].status = "Active" /\ x.mine[Session(r)].login = rows[Session(r)].login
      BY <3>1, <3>2, <3>3, EndsFrame
    <3> QED
      BY <3>1, <3>4, <3>5 DEF Frame
  <2>4. CASE x.pc = "logins"
    BY <1>1, <2>1, <2>4 DEF KnowsEnds
  <2>5. \/ free \/ x.pc = "logins" \/ EndsOnly(rows, x, How(j), {}) \/ KnowsSignIn(rows, x, j.login, b)
    BY <1>2a, <2>1 DEF KnowsEnds, Unlocked
  <2> QED
    BY <1>3a, <2>2, <2>3, <2>4, <2>5
<1> QED
  BY <1>3, <1>4, <1>5

\* What a request has ended stays ended by it.
LEMMA EndsOutlive ==
    ASSUME NEW rows, NEW new, NEW x, Kept(rows, new, x), NEW how, NEW fresh, EndsOnly(rows, x, how, fresh)
    PROVE  EndsOnly(new, x, how, fresh)
<1>1. \A k \in Tokens : Token(k) \in DOMAIN x.mine => new[Token(k)] = rows[Token(k)]
  BY DEF Kept
<1>2. \A s \in SessionIds : Session(s) \in DOMAIN x.mine => new[Session(s)] = rows[Session(s)]
  BY DEF Kept
<1>3. ASSUME NEW k \in Tokens, new[Token(k)].status = "Active", new[Token(k)].session \in Over(x) \ Loud(x)
      PROVE  Token(k) \in DOMAIN x.mine
  <2>1. Session(new[Token(k)].session) \in DOMAIN x.mine
    BY <1>3 DEF Over
  <2>2. new[Token(k)] = rows[Token(k)]
    BY <2>1 DEF Kept
  <2> QED
    BY <1>3, <2>2 DEF EndsOnly
<1> QED
  BY <1>1, <1>2, <1>3 DEF EndsOnly

\* What a renewal knows of its session and token stays true.
LEMMA HoldsOutlives ==
    ASSUME NEW rows, NEW new, NEW x, Kept(rows, new, x), NEW s, NEW b, Holds(rows, x, s, b)
    PROVE  /\ Holds(new, x, s, b)
           /\ \A k \in Tokens : rows[Token(k)].session = s /\ rows[Token(k)].status # "None" => new[Token(k)] = rows[Token(k)]
           /\ \A k \in Tokens : new[Token(k)].session = s => new[Token(k)] = rows[Token(k)]
<1>1. Session(s) \in DOMAIN x.mine
  BY DEF Holds
<1>2. new[Session(s)] = rows[Session(s)]
  BY <1>1 DEF Kept
<1>3. \A k \in Tokens : new[Token(k)].session = s => new[Token(k)] = rows[Token(k)]
  BY <1>1 DEF Kept
<1>4. \A k \in Tokens : rows[Token(k)].session = s /\ rows[Token(k)].status # "None" => new[Token(k)] = rows[Token(k)]
  BY <1>3 DEF Kept
<1> QED
  BY <1>2, <1>3, <1>4 DEF Holds

LEMMA RetradableOutlives ==
    ASSUME NEW rows, NEW new, NEW x, Kept(rows, new, x), NEW k \in Tokens, NEW b, Retradable(rows, k, b),
           Holds(rows, x, rows[Token(k)].session, b)
    PROVE  Retradable(new, k, b) /\ new[Token(k)] = rows[Token(k)]
           /\ (TookBack(rows, x, k) => TookBack(new, x, k))
<1>1. rows[Token(k)].status = "Rotated" /\ rows[Token(k)].next \in Tokens
      /\ rows[Token(rows[Token(k)].next)].status = "Active"
      /\ rows[Token(rows[Token(k)].next)].session = rows[Token(k)].session
  BY DEF Retradable
<1>2. new[Token(k)] = rows[Token(k)]
  BY <1>1, HoldsOutlives
<1>3. new[Token(rows[Token(k)].next)] = rows[Token(rows[Token(k)].next)]
  BY <1>1, HoldsOutlives
<1> QED
  BY <1>2, <1>3 DEF Retradable, TookBack

LEMMA TradeOutlives ==
    ASSUME NEW rows, NEW new, NEW x, Kept(rows, new, x), NEW k \in Tokens, NEW s, rows[Token(k)].session = s, NEW b,
           KnowsTrade(rows, x, k, s, b)
    PROVE  KnowsTrade(new, x, k, s, b)
<1>1. Holds(rows, x, s, b)
  BY DEF KnowsTrade
<1>2. Holds(new, x, s, b)
  BY <1>1, HoldsOutlives
<1>3. CASE x.seen = {"Active"} /\ Tradable(rows, k, b) /\ DOMAIN x.mine = {Session(s)}
  <2>1. new[Token(k)] = rows[Token(k)]
    BY <1>1, <1>3, HoldsOutlives DEF Tradable
  <2> QED
    BY <1>2, <1>3, <2>1 DEF KnowsTrade, Tradable
<1>4. CASE /\ x.seen = {"Rotated"} /\ Retradable(rows, k, b) /\ TookBack(rows, x, k)
           /\ DOMAIN x.mine = {Session(s), Token(rows[Token(k)].next)}
  <2>1. Retradable(new, k, b) /\ new[Token(k)] = rows[Token(k)] /\ TookBack(new, x, k)
    BY <1>1, <1>4, RetradableOutlives
  <2> QED
    BY <1>2, <1>4, <2>1 DEF KnowsTrade
<1> QED
  BY <1>3, <1>4 DEF KnowsTrade

LEMMA TradedOutlives ==
    ASSUME NEW rows, NEW new, NEW x, Kept(rows, new, x), NEW k \in Tokens, NEW s, rows[Token(k)].session = s, NEW b,
           NEW n \in Tokens, KnowsTraded(rows, x, k, s, n, b)
    PROVE  KnowsTraded(new, x, k, s, n, b)
<1>1. Holds(rows, x, s, b) /\ Token(n) \in DOMAIN x.mine /\ rows[Token(n)].status = "None"
      /\ \A i \in Tokens : rows[Token(i)].session = s => i < n
  BY DEF KnowsTraded
<1>2. Holds(new, x, s, b)
  BY <1>1, HoldsOutlives
<1>3. new[Token(n)].status = "None"
  BY <1>1 DEF Kept
<1>4. \A i \in Tokens : new[Token(i)].session = s => i < n
  <2>1. \A i \in Tokens : new[Token(i)].session = s => new[Token(i)] = rows[Token(i)]
    BY <1>1, HoldsOutlives
  <2> QED
    BY <1>1, <2>1
<1>5. CASE /\ Tradable(rows, k, b) /\ DOMAIN x.mine = {Session(s), Token(k), Token(n)}
           /\ x.mine[Token(k)] = [rows[Token(k)] EXCEPT !.status = "Rotated", !.next = n, !.rotated = b]
  <2>1. new[Token(k)] = rows[Token(k)]
    BY <1>1, <1>5, HoldsOutlives DEF Tradable
  <2> QED
    BY <1>2, <1>3, <1>4, <1>5, <2>1 DEF KnowsTraded, Tradable
<1>6. CASE /\ Retradable(rows, k, b) /\ TookBack(rows, x, k)
           /\ DOMAIN x.mine = {Session(s), Token(k), Token(n), Token(rows[Token(k)].next)}
           /\ x.mine[Token(k)] = [rows[Token(k)] EXCEPT !.status = "Rotated", !.next = n, !.rotated = rows[Token(k)].rotated]
  <2>1. Retradable(new, k, b) /\ new[Token(k)] = rows[Token(k)] /\ TookBack(new, x, k)
    BY <1>1, <1>6, RetradableOutlives
  <2> QED
    BY <1>2, <1>3, <1>4, <1>6, <2>1 DEF KnowsTraded
<1> QED
  BY <1>5, <1>6 DEF KnowsTraded

\* What a renewal knows stays true.
LEMMA RenewOutlives ==
    ASSUME NEW rows, RowsFit(rows), NEW new, NEW x, Kept(rows, new, x), NEW k, NEW b, KnowsRenew(rows, x, k, b)
    PROVE  KnowsRenew(new, x, k, b)
<1> DEFINE s == rows[Token(k)].session
<1>1. /\ x.pc \in {"find", "snapshot", "lock", "token", "successor", "trade", "end", "commit", "done", "failed"}
      /\ x.pc \notin {"find", "done", "failed"} => k \in Tokens /\ s \in SessionIds
      /\ x.pc = "token" => Holds(rows, x, s, b) /\ DOMAIN x.mine = {Session(s)} /\ x.fit = {}
      /\ x.pc = "successor" => Holds(rows, x, s, b) /\ DOMAIN x.mine = {Session(s)} /\ Retradable(rows, k, b)
      /\ x.pc = "trade" => KnowsTrade(rows, x, k, s, b)
      /\ x.pc = "end" => KnowsRenewEnd(rows, x, s)
      /\ x.pc = "commit" => KnowsRenewEnd(rows, x, s) \/ \E n \in Tokens : KnowsTraded(rows, x, k, s, n, b)
  BY DEF KnowsRenew
<1>2. CASE x.pc \in {"find", "done", "failed"}
  BY <1>2 DEF KnowsRenew
<1>3. CASE x.pc \notin {"find", "done", "failed"}
  <2>1. k \in Tokens /\ s \in SessionIds
    BY <1>1, <1>3
  <2>2. new[Token(k)].session = s
    BY <2>1, NoZero DEF RowsFit, Kept
  <2>3. x.pc = "token" => Holds(new, x, s, b) /\ DOMAIN x.mine = {Session(s)} /\ x.fit = {}
    BY <1>1, HoldsOutlives
  <2>4. x.pc = "successor" => Holds(new, x, s, b) /\ DOMAIN x.mine = {Session(s)} /\ Retradable(new, k, b)
    BY <1>1, <2>1, HoldsOutlives, RetradableOutlives
  <2>5. x.pc = "trade" => KnowsTrade(new, x, k, s, b)
    BY <1>1, <2>1, TradeOutlives
  <2>6. KnowsRenewEnd(rows, x, s) => KnowsRenewEnd(new, x, s)
    BY EndsOutlive DEF KnowsRenewEnd
  <2>7. \A n \in Tokens : KnowsTraded(rows, x, k, s, n, b) => KnowsTraded(new, x, k, s, n, b)
    BY <2>1, TradedOutlives
  <2> HIDE DEF s
  <2> QED
    BY <1>1, <2>1, <2>2, <2>3, <2>4, <2>5, <2>6, <2>7 DEF KnowsRenew
<1> QED
  BY <1>2, <1>3

\* What a request knows of the accounts it has locked stays true.
LEMMA AccountsOutlive ==
    ASSUME NEW rows, NEW new, NEW x, Kept(rows, new, x), NEW j, j.login \in Logins \/ ~Turning(j),
           KnowsAccounts(rows, x, j),
           \A s \in Over(x) \cup Pending(x) : s \in SessionIds /\ rows[Session(s)].status # "None"
    PROVE  KnowsAccounts(new, x, j)
<1>1. \A l \in Logins : Login(l) \in DOMAIN x.mine => new[Login(l)] = rows[Login(l)]
  BY DEF Kept
<1>2. \A s \in Over(x) \cup Pending(x) : new[Session(s)].login = rows[Session(s)].login
  BY DEF Kept
<1> QED
  BY <1>1, <1>2 DEF KnowsAccounts

\* So does what a sign-in knows.
LEMMA SignInOutlives ==
    ASSUME NEW rows, NEW new, NEW x, Kept(rows, new, x), NEW l, NEW b, KnowsSignIn(rows, x, l, b)
    PROVE  KnowsSignIn(new, x, l, b)
<1>1. PICK s \in SessionIds, n \in Tokens :
        /\ EndsOnly(rows, x, "SignedOut", {Session(s), Token(n)})
        /\ {Session(s), Token(n)} \subseteq DOMAIN x.mine
        /\ rows[Session(s)].status = "None" /\ rows[Token(n)].status = "None"
        /\ x.mine[Session(s)] = [status |-> "Active", login |-> l, until |-> b + Lifetime]
        /\ x.mine[Token(n)] = [status |-> "Active", session |-> s, next |-> 0, rotated |-> 0, until |-> b + Idle]
  BY DEF KnowsSignIn
<1>2. EndsOnly(new, x, "SignedOut", {Session(s), Token(n)})
  BY <1>1, EndsOutlive
<1>3. new[Session(s)] = rows[Session(s)] /\ new[Token(n)] = rows[Token(n)]
  BY <1>1 DEF Kept
<1> QED
  BY <1>1, <1>2, <1>3 DEF KnowsSignIn

\* What a request that ends sessions knows stays true.
LEMMA EndingOutlives ==
    ASSUME NEW rows, NEW new, NEW x, Kept(rows, new, x), NEW j, NEW b, KnowsEnds(rows, x, j, b),
           j.kind \notin {"renew", "signOut", "signOutEveryone"} => j.login \in Logins
    PROVE  KnowsEnds(new, x, j, b)
<1>1. x.pc = "end" => \A s \in x.todo : s \in SessionIds /\ new[Session(s)].status # "None"
  BY DEF KnowsEnds, Kept
<1>2. EndsOnly(rows, x, How(j), {}) => EndsOnly(new, x, How(j), {})
  BY EndsOutlive
<1>3. KnowsSignIn(rows, x, j.login, b) => KnowsSignIn(new, x, j.login, b)
  BY SignInOutlives
<1>4. ASSUME KnowsAccounts(rows, x, j), x.pc \in {"logins", "select", "end", "open", "commit"}
      PROVE  KnowsAccounts(new, x, j)
  <2>1. CASE ~Turning(j)
    <3>1. \A l \in Logins : Login(l) \in DOMAIN x.mine => new[Login(l)] = rows[Login(l)]
      BY DEF Kept
    <3> QED
      BY <1>4, <2>1, <3>1 DEF KnowsAccounts
  <2>2. CASE Turning(j)
    <3>1. j.login \in Logins /\ j.kind \notin {"signIn", "signOutEveryone"}
      BY <2>2 DEF Turning
    <3>2. EndsOnly(rows, x, How(j), {})
      BY <1>4, <3>1 DEF KnowsEnds
    <3>3. \A s \in Over(x) : s \in SessionIds /\ rows[Session(s)].status # "None"
      BY <3>2 DEF Over, EndsOnly
    <3>4. \A s \in Pending(x) : s \in SessionIds /\ rows[Session(s)].status # "None"
      BY DEF Pending, KnowsEnds
    <3> QED
      BY <1>4, <3>1, <3>3, <3>4, AccountsOutlive
  <2> QED
    BY <2>1, <2>2
<1> QED
  BY <1>1, <1>2, <1>3, <1>4 DEF KnowsEnds

\* What a sign-in or a sign-out names was there before.
LEMMA NamedBefore ==
    ASSUME NEW rows, RowsFit(rows), NEW new, NEW y, Kept(rows, new, y), NEW j, j \in JobType,
           NEW x, KnowsNamed(rows, x, j), NEW c, NEW s \in SessionIds, Named(new, j, c, s)
    PROVE  Named(rows, j, c, s) /\ rows[Session(s)].status # "None"
<1>1. /\ j.token # 0 => j.token \in Tokens /\ rows[Token(j.token)].status # "None"
      /\ \A r \in {j.session, j.from} \ {0} : r \in SessionIds /\ rows[Session(r)].status # "None"
  BY DEF KnowsNamed, JobType
<1>2. /\ j.token # 0 => new[Token(j.token)].session = rows[Token(j.token)].session
      /\ \A r \in {j.session, j.from} \ {0} : new[Session(r)].login = rows[Session(r)].login
  BY <1>1 DEF Kept
<1>3. s # 0
  BY NoZero
<1>4. Named(rows, j, c, s)
  BY <1>2, <1>3 DEF Named
<1>5. j.token # 0 => rows[Session(rows[Token(j.token)].session)].status # "None"
  BY <1>1 DEF RowsFit
<1>6. s \in {j.session, j.from} \/ (j.token # 0 /\ s = rows[Token(j.token)].session)
  BY <1>3, <1>4 DEF Named
<1> QED
  BY <1>1, <1>3, <1>4, <1>5, <1>6

\* What they carry stays issued and opened.
LEMMA GivenOutlives ==
    ASSUME NEW rows, NEW new, NEW y, Kept(rows, new, y), NEW j, j \in JobType, NEW x, KnowsNamed(rows, x, j)
    PROVE  /\ j.token # 0 => new[Token(j.token)].status # "None"
           /\ \A s \in {j.session, j.from} \ {0} : new[Session(s)].status # "None"
BY DEF KnowsNamed, JobType, Kept

\* What a sign-in or a sign-out named stays over.
LEMMA NamedOutlives ==
    ASSUME NEW rows, RowsFit(rows), NEW new, NEW x, Kept(rows, new, x), NEW j, j \in JobType, KnowsNamed(rows, x, j)
    PROVE  KnowsNamed(new, x, j)
<1>1. ASSUME NEW c \in Passed(x, j), NEW s \in SessionIds, Named(new, j, c, s)
      PROVE  StatusTo(new, x, s) # "Active" \/ s \in Pending(x)
  <2>1. Named(rows, j, c, s) /\ rows[Session(s)].status # "None"
    BY <1>1, NamedBefore
  <2>2. StatusTo(rows, x, s) # "Active" \/ s \in Pending(x)
    BY <2>1 DEF KnowsNamed
  <2>3. ASSUME StatusTo(rows, x, s) # "Active"
        PROVE  StatusTo(new, x, s) # "Active"
    BY <2>1, <2>3 DEF StatusTo, Kept
  <2> QED
    BY <2>2, <2>3
<1>2. /\ j.token # 0 => new[Token(j.token)].status # "None"
      /\ \A s \in {j.session, j.from} \ {0} : new[Session(s)].status # "None"
  BY GivenOutlives
<1> QED
  BY <1>1, <1>2 DEF KnowsNamed

\* Whatever a request knows stays true.
LEMMA KnowledgeOutlives ==
    ASSUME NEW rows, RowsFit(rows), NEW new, NEW x, Kept(rows, new, x), NEW j, j \in JobType, NEW b,
           j.kind \notin {"renew", "signOut", "signOutEveryone"} => j.login \in Logins,
           Knows(rows, x, j, b)
    PROVE  Knows(new, x, j, b)
<1>1. j.kind = "renew" => KnowsRenew(new, x, j.token, b)
  BY RenewOutlives DEF Knows
<1>2. j.kind = "switchOn" => KnowsSwitchOn(new, x, j.login)
  BY DEF Knows, KnowsSwitchOn, Kept
<1>3. j.kind \notin {"renew", "switchOn"} => KnowsEnds(new, x, j, b)
  BY EndingOutlives DEF Knows
<1>4. j.kind \in {"signIn", "signOut"} => KnowsNamed(new, x, j)
  BY NamedOutlives DEF Knows, Unlocked
<1> QED
  BY <1>1, <1>2, <1>3, <1>4 DEF Knows

\* A COMMIT publishes what its request has written.
LEMMA CommitIs ==
    ASSUME SInv, NEW t \in Requests, Commit(t)
    PROVE  /\ tx[t].pc = "commit"
           /\ \A r \in Rows : db'[r] = IF r \in DOMAIN tx[t].mine THEN tx[t].mine[r] ELSE db[r]
<1>1. db' = [r \in Rows |-> View(t, r)] /\ tx[t].pc = "commit"
  BY DEF Commit, At
<1>2. \A r \in Rows : View(t, r) = IF r \in DOMAIN tx[t].mine THEN tx[t].mine[r] ELSE db[r]
  BY About
<1> QED
  BY <1>1, <1>2

\* The COMMIT of t leaves what they go by to all who have locked other rows.
LEMMA CommitKept ==
    ASSUME SInv, NEW t \in Requests, Commit(t), NEW y, \A r \in DOMAIN y.mine : r \in Rows /\ r \notin DOMAIN tx[t].mine
    PROVE  Kept(db, db', y)
<1> DEFINE x == tx[t]
<1>1. \A r \in Rows : db'[r] = IF r \in DOMAIN x.mine THEN x.mine[r] ELSE db[r]
  BY CommitIs
<1>2. Frame(db, x)
  BY About, KnowsFrame
<1>3. \A r \in DOMAIN y.mine : r \in Rows /\ r \notin DOMAIN x.mine
  OBVIOUS
<1> HIDE DEF x
<1>4. \A r \in DOMAIN y.mine : db'[r] = db[r]
  BY <1>1, <1>3
<1>5. /\ \A k \in Tokens : Token(k) \notin DOMAIN x.mine => db'[Token(k)] = db[Token(k)]
      /\ \A k \in Tokens : Token(k) \in DOMAIN x.mine => db'[Token(k)] = x.mine[Token(k)]
      /\ \A s \in SessionIds : Session(s) \notin DOMAIN x.mine => db'[Session(s)] = db[Session(s)]
      /\ \A s \in SessionIds : Session(s) \in DOMAIN x.mine => db'[Session(s)] = x.mine[Session(s)]
  BY <1>1, RowsAre
<1>6. \A k \in Tokens : db'[Token(k)] # db[Token(k)] => Session(db'[Token(k)].session) \notin DOMAIN y.mine
  BY <1>2, <1>3, <1>5 DEF Frame
<1>7. \A k \in Tokens : db[Token(k)].status # "None" =>
        db'[Token(k)].status # "None" /\ db'[Token(k)].session = db[Token(k)].session
  BY <1>2, <1>5 DEF Frame
<1>8. \A s \in SessionIds : db[Session(s)].status # "None" =>
        /\ db'[Session(s)].status # "None" /\ db'[Session(s)].login = db[Session(s)].login
        /\ db[Session(s)].status # "Active" => db'[Session(s)].status # "Active"
  BY <1>2, <1>5 DEF Frame
<1> QED
  BY <1>4, <1>6, <1>7, <1>8 DEF Kept

\* So everyone else still knows what they did.
LEMMA OthersKnow ==
    ASSUME SInv, NEW t \in Requests, Commit(t), NEW u \in Requests, u # t
    PROVE  Knows(db', tx[u], job[u], began[u])
<1>1. /\ \A r \in DOMAIN tx[u].mine : r \in Rows /\ lock[r] = u
      /\ \A r \in DOMAIN tx[t].mine : r \in Rows /\ lock[r] = t
  BY About
<1>2. \A r \in DOMAIN tx[u].mine : r \in Rows /\ r \notin DOMAIN tx[t].mine
  BY <1>1
<1>3. Kept(db, db', tx[u])
  BY <1>2, CommitKept
<1> QED
  BY <1>3, About, KnowledgeOutlives

\* And a sign-in or a sign-out that commits has ended what it named.
LEMMA CommitterKnows ==
    ASSUME SInv, NEW t \in Requests, Commit(t)
    PROVE  Knows(db', Blank("done"), job[t], began[t])
<1> DEFINE x == tx[t]
           j == job[t]
           y == Blank("done")
<1>1. x.pc = "commit" /\ Knows(db, x, j, began[t]) /\ RowsFit(db) /\ j \in JobType
  BY CommitIs, About
<1>2. y.pc = "done" /\ DOMAIN y.mine = {} /\ y.todo = {}
  BY BlankIs
<1> HIDE DEF y
<1>3. Kept(db, db', y)
  BY <1>2, CommitKept
<1>4. ASSUME j.kind \in {"signIn", "signOut"}
      PROVE  KnowsNamed(db', y, j)
  <2>1. KnowsNamed(db, x, j)
    BY <1>1, <1>4 DEF Knows
  <2>2. Passed(y, j) = Passed(x, j) /\ Pending(x) = {}
    BY <1>1, <1>2 DEF Passed, Pending
  <2>3. ASSUME NEW c \in Passed(y, j), NEW s \in SessionIds, Named(db', j, c, s)
        PROVE  StatusTo(db', y, s) # "Active"
    <3>1. Named(db, j, c, s)
      BY <1>1, <1>3, <2>1, <2>3, NamedBefore
    <3>2. StatusTo(db, x, s) # "Active"
      BY <2>1, <2>2, <3>1 DEF KnowsNamed
    <3>3. db'[Session(s)].status = StatusTo(db, x, s)
      BY CommitIs, RowsAre DEF StatusTo
    <3> QED
      BY <1>2, <3>2, <3>3 DEF StatusTo
  <2>4. /\ j.token # 0 => db'[Token(j.token)].status # "None"
        /\ \A s \in {j.session, j.from} \ {0} : db'[Session(s)].status # "None"
    BY <1>1, <1>3, <2>1, GivenOutlives
  <2> QED
    BY <2>3, <2>4 DEF KnowsNamed
<1> QED
  BY <1>4, BlankKnows DEF y

-----------------------------------------------------------------------------
(* A COMMIT is one event of Sessions *)

\* The rows after the COMMIT of a request that ended sessions, but for new ones.
LEMMA EndedRows ==
    ASSUME SInv, NEW t \in Requests, Commit(t), NEW how \in {"SignedOut", "Expired", "Revoked"}, NEW fresh,
           EndsOnly(db, tx[t], how, fresh)
    PROVE  LET S == Over(tx[t])
           IN  /\ \A s \in SessionIds : Session(s) \notin fresh =>
                    /\ db'[Session(s)] = IF s \in S THEN [db[Session(s)] EXCEPT !.status = how] ELSE db[Session(s)]
                    /\ s \in S => db[Session(s)].status = "Active"
               /\ \A k \in Tokens : Token(k) \notin fresh =>
                    db'[Token(k)] = IF db[Token(k)].session \in S /\ db[Token(k)].status = "Active"
                                    THEN [db[Token(k)] EXCEPT !.status = "Revoked"] ELSE db[Token(k)]
<1> DEFINE x == tx[t]
           S == Over(x)
<1>1. \A r \in Rows : db'[r] = IF r \in DOMAIN x.mine THEN x.mine[r] ELSE db[r]
  BY CommitIs
<1>2. x.pc = "commit" /\ Loud(x) = {}
  BY CommitIs DEF Loud
<1>3. ASSUME NEW s \in SessionIds, Session(s) \notin fresh
      PROVE  /\ db'[Session(s)] = IF s \in S THEN [db[Session(s)] EXCEPT !.status = how] ELSE db[Session(s)]
             /\ s \in S => db[Session(s)].status = "Active"
  <2>1. CASE Session(s) \in DOMAIN x.mine
    <3>1. /\ db[Session(s)].status = "Active"
          /\ x.mine[Session(s)] \in {db[Session(s)], [db[Session(s)] EXCEPT !.status = how]}
      BY <1>3, <2>1 DEF EndsOnly
    <3>2. db[Session(s)] \in Now!SessionRow
      BY About DEF RowsFit
    <3>3. [db[Session(s)] EXCEPT !.status = how].status = how /\ how # "Active"
      BY <3>2 DEF Now!SessionRow
    <3>4. db'[Session(s)] = x.mine[Session(s)]
      BY <1>1, <2>1, RowsAre
    <3>5. s \in S <=> x.mine[Session(s)].status # "Active"
      BY <2>1 DEF Over
    <3> QED
      BY <3>1, <3>3, <3>4, <3>5
  <2>2. CASE Session(s) \notin DOMAIN x.mine
    BY <1>1, <2>2, RowsAre DEF Over
  <2> QED
    BY <2>1, <2>2
<1>4. ASSUME NEW k \in Tokens, Token(k) \notin fresh
      PROVE  db'[Token(k)] = IF db[Token(k)].session \in S /\ db[Token(k)].status = "Active"
                             THEN [db[Token(k)] EXCEPT !.status = "Revoked"] ELSE db[Token(k)]
  <2>1. Token(k) \in DOMAIN x.mine <=> db[Token(k)].session \in S /\ db[Token(k)].status = "Active"
    BY <1>2, <1>4 DEF EndsOnly
  <2>2. Token(k) \in DOMAIN x.mine => x.mine[Token(k)] = [db[Token(k)] EXCEPT !.status = "Revoked"]
    BY <1>4 DEF EndsOnly
  <2> QED
    BY <1>1, <2>1, <2>2, RowsAre
<1> QED
  BY <1>3, <1>4

\* The accounts after a COMMIT.
LEMMA AccountRows ==
    ASSUME SInv, NEW t \in Requests, Commit(t), NEW l \in Logins
    PROVE  db'[Login(l)] = IF Login(l) \in DOMAIN tx[t].mine THEN tx[t].mine[Login(l)] ELSE db[Login(l)]
BY CommitIs, RowsAre

\* Sessions that end, and their tokens, are End's.
LEMMA EndsAreAnEnd ==
    ASSUME SInv, NEW t \in Requests, Commit(t), NEW how \in {"SignedOut", "Expired", "Revoked"},
           EndsOnly(db, tx[t], how, {})
    PROVE  /\ Over(tx[t]) \in SUBSET Now!OpenSessions
           /\ [s \in SessionIds |-> db'[Session(s)]] = Now!Ended(Over(tx[t]), how)
           /\ [k \in Tokens |-> db'[Token(k)]] = Now!Silenced(Over(tx[t]))
<1> DEFINE S == Over(tx[t])
<1>1. /\ \A s \in SessionIds :
           /\ db'[Session(s)] = IF s \in S THEN [db[Session(s)] EXCEPT !.status = how] ELSE db[Session(s)]
           /\ s \in S => db[Session(s)].status = "Active"
      /\ \A k \in Tokens :
           db'[Token(k)] = IF db[Token(k)].session \in S /\ db[Token(k)].status = "Active"
                           THEN [db[Token(k)] EXCEPT !.status = "Revoked"] ELSE db[Token(k)]
  BY EndedRows
<1>2. S \subseteq SessionIds
  BY DEF Over
<1> HIDE DEF S
<1>3. S \in SUBSET Now!OpenSessions
  BY <1>1, <1>2 DEF Now!OpenSessions, Now!Open
<1>4. [s \in SessionIds |-> db'[Session(s)]] = Now!Ended(S, how)
  BY <1>1 DEF Now!Ended
<1>5. [k \in Tokens |-> db'[Token(k)]] = Now!Silenced(S)
  BY <1>1 DEF Now!Silenced
<1> QED
  BY <1>3, <1>4, <1>5 DEF S

LEMMA EndsCommit ==
    ASSUME SInv, NEW t \in Requests, Commit(t), now' = now, NEW how \in {"SignedOut", "Expired", "Revoked"},
           EndsOnly(db, tx[t], how, {}), \A l \in Logins : db'[Login(l)] = db[Login(l)]
    PROVE  Now!Next
<1>1. Over(tx[t]) \in SUBSET Now!OpenSessions
  BY EndsAreAnEnd
<1>2. Now!End(Over(tx[t]), how)
  <2>1. [l \in Logins |-> db'[Login(l)]] = [l \in Logins |-> db[Login(l)]]
    OBVIOUS
  <2> QED
    BY <2>1, EndsAreAnEnd DEF Now!End
<1>3. how \in Now!EndStatus
  BY DEF Now!EndStatus
<1> QED
  BY <1>1, <1>2, <1>3 DEF Now!Next

\* An account turned off or closed is TurnOff's.
LEMMA TurnOffCommit ==
    ASSUME SInv, NEW t \in Requests, Commit(t), now' = now, Turning(job[t]), KnowsAccounts(db, tx[t], job[t]),
           EndsOnly(db, tx[t], "Revoked", {}), job[t].login \in Logins
    PROVE  Now!Next
<1> DEFINE S == Over(tx[t])
           l == job[t].login
           to == To(job[t])
<1>1. /\ Login(l) \in DOMAIN tx[t].mine /\ tx[t].mine[Login(l)] = to /\ db[Login(l)] \notin {to, "Deleted"}
      /\ \A m \in Logins : Login(m) \in DOMAIN tx[t].mine => m = l
      /\ \A s \in S : db[Session(s)].login = l
  BY DEF KnowsAccounts
<1>2. S \in SUBSET Now!OpenSessions /\ S \subseteq SessionIds /\ l \in Logins
  BY EndsAreAnEnd DEF Over
<1>3. to \in {"Inactive", "Deleted"}
  BY DEF To
<1>4. [s \in SessionIds |-> db'[Session(s)]] = Now!Ended(S, "Revoked")
      /\ [k \in Tokens |-> db'[Token(k)]] = Now!Silenced(S)
  BY EndsAreAnEnd
<1>5. \A m \in Logins : db'[Login(m)] = IF m = l THEN to ELSE db[Login(m)]
  BY <1>1, AccountRows
<1> HIDE DEF S, l, to
<1>6. [m \in Logins |-> db'[Login(m)]] = [[m \in Logins |-> db[Login(m)]] EXCEPT ![l] = to]
  BY <1>2, <1>5
<1>7. Now!TurnOff(l, to, S)
  BY <1>1, <1>2, <1>4, <1>6 DEF Now!TurnOff
<1>8. \A s \in S : [r \in SessionIds |-> db[Session(r)]][s].login = l
  BY <1>1, <1>2
<1> QED
  BY <1>2, <1>3, <1>7, <1>8 DEF Now!Next

\* An account turned on is TurnOn's.
LEMMA TurnOnCommit ==
    ASSUME SInv, NEW t \in Requests, Commit(t), now' = now, KnowsSwitchOn(db, tx[t], job[t].login)
    PROVE  Now!Next
<1> DEFINE l == job[t].login
<1>1. /\ DOMAIN tx[t].mine = {Login(l)} /\ l \in Logins
      /\ db[Login(l)] = "Inactive" /\ tx[t].mine[Login(l)] = "Active"
  BY CommitIs DEF KnowsSwitchOn
<1>2. \A m \in Logins : db'[Login(m)] = IF m = l THEN "Active" ELSE db[Login(m)]
  BY <1>1, AccountRows, RowNames
<1>3. (\A s \in SessionIds : db'[Session(s)] = db[Session(s)]) /\ (\A k \in Tokens : db'[Token(k)] = db[Token(k)])
  BY <1>1, CommitIs, RowNames, RowsAre
<1> HIDE DEF l
<1>4. [m \in Logins |-> db'[Login(m)]] = [[m \in Logins |-> db[Login(m)]] EXCEPT ![l] = "Active"]
  BY <1>1, <1>2
<1>5. /\ [s \in SessionIds |-> db'[Session(s)]] = [s \in SessionIds |-> db[Session(s)]]
      /\ [k \in Tokens |-> db'[Token(k)]] = [k \in Tokens |-> db[Token(k)]]
  BY <1>3
<1>6. Now!TurnOn(l)
  BY <1>1, <1>4, <1>5 DEF Now!TurnOn
<1> QED
  BY <1>1, <1>6 DEF Now!Next

\* A sign-in is SignIn's.
LEMMA SignInCommit ==
    ASSUME SInv, NEW t \in Requests, Commit(t), now' = now, KnowsSignIn(db, tx[t], job[t].login, began[t]),
           job[t].login \in Logins, \A l \in Logins : db'[Login(l)] = db[Login(l)]
    PROVE  Now!Next
<1> DEFINE x == tx[t]
           S == Over(x)
           l == job[t].login
           at == began[t]
<1>1. PICK s \in SessionIds, n \in Tokens :
        /\ EndsOnly(db, x, "SignedOut", {Session(s), Token(n)})
        /\ {Session(s), Token(n)} \subseteq DOMAIN x.mine
        /\ db[Session(s)].status = "None" /\ db[Token(n)].status = "None"
        /\ x.mine[Session(s)] = [status |-> "Active", login |-> l, until |-> at + Lifetime]
        /\ x.mine[Token(n)] = [status |-> "Active", session |-> s, next |-> 0, rotated |-> 0, until |-> at + Idle]
  BY DEF KnowsSignIn
<1>2. /\ \A r \in SessionIds \ {s} :
           /\ db'[Session(r)] = IF r \in S THEN [db[Session(r)] EXCEPT !.status = "SignedOut"] ELSE db[Session(r)]
           /\ r \in S => db[Session(r)].status = "Active"
      /\ \A k \in Tokens \ {n} :
           db'[Token(k)] = IF db[Token(k)].session \in S /\ db[Token(k)].status = "Active"
                           THEN [db[Token(k)] EXCEPT !.status = "Revoked"] ELSE db[Token(k)]
  <2>1. /\ \A r \in SessionIds \ {s} : Session(r) \notin {Session(s), Token(n)}
        /\ \A k \in Tokens \ {n} : Token(k) \notin {Session(s), Token(n)}
    BY RowNames
  <2> QED
    BY <1>1, <2>1, EndedRows
<1>3. db'[Session(s)] = x.mine[Session(s)] /\ db'[Token(n)] = x.mine[Token(n)]
  BY <1>1, CommitIs, RowsAre
<1>4. S \subseteq SessionIds /\ s \notin S
  BY <1>1 DEF Over
<1>5. at \in 0..now
  BY About
<1> HIDE DEF S, l, at
<1>6. [r \in SessionIds |-> db'[Session(r)]]
        = [Now!Ended(S, "SignedOut") EXCEPT ![s] = [status |-> "Active", login |-> l, until |-> at + Lifetime]]
  BY <1>1, <1>2, <1>3 DEF Now!Ended
<1>7. [k \in Tokens |-> db'[Token(k)]] = [Now!Silenced(S) EXCEPT ![n] = Now!NewToken(s, at)]
  BY <1>1, <1>2, <1>3 DEF Now!Silenced, Now!NewToken
<1>8. [m \in Logins |-> db'[Login(m)]] = [m \in Logins |-> db[Login(m)]]
  OBVIOUS
<1>9. Now!SignIn(S, s, l, n, at)
  BY <1>6, <1>7, <1>8 DEF Now!SignIn
<1>10. S \in SUBSET Now!OpenSessions
  BY <1>2, <1>4 DEF Now!OpenSessions, Now!Open
<1>11. s \in {r \in SessionIds : [q \in SessionIds |-> db[Session(q)]][r].status = "None"} /\ n \in {k \in Tokens : ~Now!Issued(k)}
  BY <1>1 DEF Now!Issued
<1>12. l \in Logins
  BY DEF l
<1> QED
  BY <1>5, <1>9, <1>10, <1>11, <1>12 DEF Now!Next

\* A traded token is Renew's, or Reissue's.
LEMMA RenewCommit ==
    ASSUME SInv, NEW t \in Requests, Commit(t), now' = now, NEW k \in Tokens, NEW n \in Tokens,
           db[Token(k)].session \in SessionIds,
           KnowsTraded(db, tx[t], k, db[Token(k)].session, n, began[t])
    PROVE  Now!Next
<1> DEFINE x == tx[t]
           s == db[Token(k)].session
           at == began[t]
<1>1. /\ Holds(db, x, s, at) /\ db[Token(n)].status = "None"
      /\ \A i \in Tokens : db[Token(i)].session = s => i < n
      /\ {Token(k), Token(n)} \subseteq DOMAIN x.mine
      /\ x.mine[Token(n)] = Now!NewToken(s, at)
  BY DEF KnowsTraded, Now!NewToken
<1>2. /\ \A l \in Logins : Login(l) \notin DOMAIN x.mine
      /\ \A r \in SessionIds : Session(r) \in DOMAIN x.mine => r = s
  <2>1. \/ DOMAIN x.mine = {Session(s), Token(k), Token(n)}
        \/ DOMAIN x.mine = {Session(s), Token(k), Token(n), Token(db[Token(k)].next)}
    BY DEF KnowsTraded
  <2> QED
    BY <2>1, RowNames
<1>3. /\ \A l \in Logins : db'[Login(l)] = db[Login(l)]
      /\ \A r \in SessionIds : db'[Session(r)] = db[Session(r)]
  BY <1>1, <1>2, CommitIs, RowsAre DEF Holds
<1>4. UNCHANGED <<[l \in Logins |-> db[Login(l)]], [r \in SessionIds |-> db[Session(r)]], now>>
  BY <1>3
<1>5. \A i \in Tokens : db'[Token(i)] = IF Token(i) \in DOMAIN x.mine THEN x.mine[Token(i)] ELSE db[Token(i)]
  BY CommitIs, RowsAre
<1>6. at \in 0..now /\ s \in SessionIds /\ db[Token(k)] \in Now!TokenRow
  BY About DEF RowsFit
<1>7. /\ db[Session(s)].status = "Active" /\ at < db[Session(s)].until
  BY <1>1 DEF Holds
<1>8. db[Token(k)].status # "None" => Now!Fresh(n, s) /\ Now!CanRenew(k, at)
  BY <1>1, <1>6, <1>7 DEF Now!Fresh, Now!CanRenew, Now!Issued, Now!Of, Now!Open
<1>9. CASE /\ Tradable(db, k, at) /\ DOMAIN x.mine = {Session(s), Token(k), Token(n)}
           /\ x.mine[Token(k)] = [db[Token(k)] EXCEPT !.status = "Rotated", !.next = n, !.rotated = at]
  <2>1. db[Token(k)].status = "Active" /\ at < db[Token(k)].until /\ k # n
    BY <1>1, <1>9 DEF Tradable
  <2>2. /\ \A i \in Tokens \ {k, n} : db'[Token(i)] = db[Token(i)]
        /\ db'[Token(n)] = Now!NewToken(s, at)
        /\ db'[Token(k)] = [db[Token(k)] EXCEPT !.status = "Rotated", !.next = n, !.rotated = at]
    BY <1>1, <1>5, <1>9, RowNames
  <2> HIDE DEF s, at, x
  <2>3. [i \in Tokens |-> db'[Token(i)]]
          = [[i \in Tokens |-> db[Token(i)]] EXCEPT
               ![k] = [@ EXCEPT !.status = "Rotated", !.next = n, !.rotated = at],
               ![n] = Now!NewToken(s, at)]
    BY <2>1, <2>2
  <2>4. Now!Renew(k, n, at)
    BY <1>4, <1>8, <2>1, <2>3 DEF Now!Renew, s
  <2> QED
    BY <1>6, <2>4 DEF Now!Next
<1>10. CASE /\ Retradable(db, k, at) /\ TookBack(db, x, k)
            /\ DOMAIN x.mine = {Session(s), Token(k), Token(n), Token(db[Token(k)].next)}
            /\ x.mine[Token(k)] = [db[Token(k)] EXCEPT !.status = "Rotated", !.next = n, !.rotated = db[Token(k)].rotated]
  <2> DEFINE c == db[Token(k)].next
  <2>1. /\ db[Token(k)].status = "Rotated" /\ at < db[Token(k)].rotated + Grace
        /\ c \in Tokens /\ db[Token(c)].status = "Active" /\ k # n /\ c # n /\ c # k
    BY <1>1, <1>10 DEF Retradable
  <2>2. [db[Token(k)] EXCEPT !.status = "Rotated", !.next = n, !.rotated = db[Token(k)].rotated] = [db[Token(k)] EXCEPT !.next = n]
    BY <1>6, <2>1 DEF Now!TokenRow
  <2>3. /\ \A i \in Tokens \ {k, n, c} : db'[Token(i)] = db[Token(i)]
        /\ db'[Token(n)] = Now!NewToken(s, at)
        /\ db'[Token(k)] = [db[Token(k)] EXCEPT !.next = n]
        /\ db'[Token(c)] = [db[Token(c)] EXCEPT !.status = "Revoked"]
    BY <1>1, <1>5, <1>10, <2>1, <2>2, RowNames DEF TookBack
  <2>4. c = [i \in Tokens |-> db[Token(i)]][k].next
    OBVIOUS
  <2> HIDE DEF s, at, x, c
  <2>5. [i \in Tokens |-> db'[Token(i)]]
          = [[i \in Tokens |-> db[Token(i)]] EXCEPT
               ![c] = [@ EXCEPT !.status = "Revoked"], ![k] = [@ EXCEPT !.next = n], ![n] = Now!NewToken(s, at)]
    BY <2>1, <2>3
  <2>6. Now!Reissue(k, n, at)
    BY <1>4, <1>8, <2>1, <2>4, <2>5 DEF Now!Reissue, s
  <2> QED
    BY <1>6, <2>6 DEF Now!Next
<1> QED
  BY <1>9, <1>10 DEF KnowsTraded

\* Whatever commits is one event of Sessions.
LEMMA CommitIsOneEvent ==
    ASSUME SInv, NEW t \in Requests, Commit(t), now' = now
    PROVE  Now!Next
<1> DEFINE x == tx[t]
           j == job[t]
           b == began[t]
<1>1. x.pc = "commit" /\ Knows(db, x, j, b) /\ (j.kind \notin {"renew", "signOut", "signOutEveryone"} => j.login \in Logins)
  BY CommitIs, About
<1>2. CASE j.kind = "renew"
  <2>1. KnowsRenew(db, x, j.token, b)
    BY <1>1, <1>2 DEF Knows
  <2>2. /\ j.token \in Tokens /\ db[Token(j.token)].session \in SessionIds
        /\ \/ KnowsRenewEnd(db, x, db[Token(j.token)].session)
           \/ \E n \in Tokens : KnowsTraded(db, x, j.token, db[Token(j.token)].session, n, b)
    BY <1>1, <2>1 DEF KnowsRenew
  <2>3. CASE KnowsRenewEnd(db, x, db[Token(j.token)].session)
    <3>1. PICK how \in {"Expired", "Revoked"} :
            EndsOnly(db, x, how, {}) /\ DOMAIN x.mine \subseteq {Session(db[Token(j.token)].session)} \cup {Token(k) : k \in Tokens}
      BY <2>3 DEF KnowsRenewEnd
    <3>2. \A l \in Logins : Login(l) \notin DOMAIN x.mine
      BY <3>1, RowNames
    <3>3. \A l \in Logins : db'[Login(l)] = db[Login(l)]
      BY <3>2, AccountRows
    <3> QED
      BY <3>1, <3>3, EndsCommit
  <2>4. CASE \E n \in Tokens : KnowsTraded(db, x, j.token, db[Token(j.token)].session, n, b)
    BY <2>2, <2>4, RenewCommit
  <2> QED
    BY <2>2, <2>3, <2>4
<1>3. CASE j.kind = "switchOn"
  BY <1>1, <1>3, TurnOnCommit DEF Knows
<1>4. CASE j.kind \notin {"renew", "switchOn"}
  <2>1. KnowsEnds(db, x, j, b)
    BY <1>1, <1>4 DEF Knows
  <2>2. KnowsAccounts(db, x, j)
    BY <1>1, <2>1 DEF KnowsEnds
  <2>3. ASSUME ~Turning(j)
        PROVE  \A l \in Logins : db'[Login(l)] = db[Login(l)]
    BY <2>2, <2>3, AccountRows DEF KnowsAccounts
  <2>4. CASE j.kind = "signIn"
    BY <1>1, <2>1, <2>3, <2>4, SignInCommit DEF KnowsEnds, Turning
  <2>5. CASE Turning(j)
    BY <1>1, <2>1, <2>2, <2>5, TurnOffCommit DEF KnowsEnds, Turning, How
  <2>6. CASE j.kind # "signIn" /\ ~Turning(j)
    BY <1>1, <2>1, <2>3, <2>6, EndsCommit DEF KnowsEnds, How
  <2> QED
    BY <2>4, <2>5, <2>6
<1> QED
  BY <1>2, <1>3, <1>4

LEMMA CommitKeeps ==
    ASSUME SInv, NEW t \in Requests, Commit(t), UNCHANGED <<now, began>>
    PROVE  SInv'
<1>1. Now!Inv'
  BY CommitIsOneEvent, StepLasts DEF SInv
<1>2. /\ lock' = [r \in Rows |-> IF lock[r] = t THEN NoRequest ELSE lock[r]]
      /\ tx' = [tx EXCEPT ![t] = Blank("done")] /\ job' = job
  BY DEF Commit, End
<1>3. tx' = [u \in Requests |-> IF u = t THEN Blank("done") ELSE tx[u]]
  BY <1>2 DEF SInv
<1>4. tx' = [u \in Requests |-> tx'[u]]
  BY <1>3
<1>5. tx'[t] = Blank("done") /\ \A u \in Requests : u # t => tx'[u] = tx[u]
  BY <1>3
<1>6. \A u \in Requests : {r \in Rows : lock[r] = u} = DOMAIN tx[u].mine
  BY DEF SInv, TypeOK
<1>7. lock \in [Rows -> Requests \cup {NoRequest}] /\ NoRequest \notin Requests
  BY ReadCommittedAssumption DEF SInv, TypeOK
<1>8. ASSUME NEW u \in Requests
      PROVE  {r \in Rows : lock'[r] = u} = DOMAIN tx'[u].mine
  <2>1. CASE u = t
    BY <1>2, <1>5, <1>7, <2>1, BlankIs
  <2>2. CASE u # t
    <3>1. {r \in Rows : lock'[r] = u} = {r \in Rows : lock[r] = u}
      BY <1>2, <1>7, <2>2
    <3> QED
      BY <1>5, <1>6, <2>2, <3>1
  <2> QED
    BY <2>1, <2>2
<1>9. lock' \in [Rows -> Requests \cup {NoRequest}]
  BY <1>2, <1>7
<1>10. now' = now /\ began' = began /\ now \in 0..Horizon /\ began \in [Requests -> 0..now]
  BY DEF SInv, TypeOK
<1>11. TypeOK'
  <2>1. Now!TypeOK'
    BY <1>1 DEF Now!Inv
  <2> QED
    BY <1>8, <1>9, <1>10, <2>1 DEF TypeOK
<1>12. \A u \in Requests : Knows(db', tx'[u], job'[u], began'[u])
  BY <1>2, <1>5, <1>10, OthersKnow, CommitterKnows
<1>13. job' \in Starts
  BY <1>2 DEF SInv
<1> QED
  BY <1>1, <1>4, <1>11, <1>12, <1>13 DEF SInv

-----------------------------------------------------------------------------
(* The invariant is one *)

\* Time passes.
LEMMA TickKeeps ==
    ASSUME SInv, Tick
    PROVE  SInv' /\ Now!Next
<1>1. /\ now' = now + 1 /\ now \in 0..Horizon /\ now < Horizon /\ Horizon \in Nat
      /\ db' = db /\ lock' = lock /\ tx' = tx /\ job' = job /\ began' = began /\ began \in [Requests -> 0..now]
  BY SessionTxAssumption DEF Tick, SInv, TypeOK
<1>2. Now!Tick
  BY <1>1 DEF Now!Tick
<1>3. Now!Next
  BY <1>2 DEF Now!Next
<1>4. Now!Inv'
  BY <1>3, StepLasts DEF SInv
<1>5. now' \in 0..Horizon /\ began' \in [Requests -> 0..now']
  <2>1. 0..now \subseteq 0..(now + 1) /\ now + 1 \in 0..Horizon
    BY <1>1
  <2> QED
    BY <1>1, <2>1
<1>6. TypeOK'
  BY <1>1, <1>4, <1>5 DEF TypeOK, Now!Inv, SInv
<1>7. \A u \in Requests : Knows(db', tx'[u], job'[u], began'[u])
  BY <1>1 DEF SInv
<1> QED
  BY <1>1, <1>3, <1>4, <1>6, <1>7 DEF SInv

\* Every statement but a COMMIT commits nothing.
LEMMA OnlyCommitsWrite ==
    ASSUME SInv, NEW t \in Requests, Begin(t) \/ Step(t)
    PROVE  db' = db \/ Commit(t)
<1>1. CASE Begin(t)
  BY <1>1 DEF Begin, FindToken, FindHeldSession, Read, Fail
<1>2. CASE ReadAccount(t) \/ LockSession(t) \/ ReadToken(t) \/ RevokeSuccessor(t) \/ TradeToken(t)
  <2>1. CASE ReadAccount(t) \/ LockSession(t)
    BY <2>1 DEF ReadAccount, LockSession, Read, Write, Lock, Fail
  <2>2. CASE ReadToken(t)
    BY <2>2 DEF ReadToken, Read, Fail
  <2>3. CASE RevokeSuccessor(t)
    BY <2>3 DEF RevokeSuccessor, Read, Write
  <2>4. CASE TradeToken(t)
    BY <2>4 DEF TradeToken, Traded, Write, Fail
  <2> QED
    BY <1>2, <2>1, <2>2, <2>3, <2>4
<1>3. CASE Serve(t) \/ ReadUser(t) \/ OpenSession(t) \/ FindSession(t)
  BY <1>3 DEF Serve, ReadUser, OpenSession, FindSession, Read, Write, Fail
<1>4. CASE ChangeAccount(t)
  <2>1. Kind(t) \in {"changePassword", "resetPassword", "switchOff", "switchOn", "delete", "signOutUser"}
    BY <1>4, AtRest DEF ChangeAccount, At, Kind, KnowsEnds
  <2>2. CASE Kind(t) \in {"changePassword", "resetPassword"}
    BY <1>4, <2>2 DEF ChangeAccount, Write
  <2>3. CASE Kind(t) \in {"switchOff", "switchOn", "delete", "signOutUser"}
    BY <1>4, <2>3 DEF ChangeAccount, Write, Fail
  <2> QED
    BY <2>1, <2>2, <2>3
<1>5. CASE Reach(t) \/ AllReached(t) \/ \E l \in Logins : LockLogin(t, l)
  BY <1>5 DEF Reach, AllReached, LockLogin, Read, Lock, Write
<1>6. CASE (\E c \in Logins \cup {1, 2} : SelectSessions(t, c)) \/ RevokeTokens(t) \/ \E s \in SessionIds : EndSession(t, s)
  BY <1>6 DEF SelectSessions, RevokeTokens, EndSession, Read, Write, Fail
<1>7. CASE Interrupt(t) \/ BreakDeadlock(t, Needs)
  BY <1>7 DEF Interrupt, BreakDeadlock, Fail
<1> QED
  BY <1>1, <1>2, <1>3, <1>4, <1>5, <1>6, <1>7 DEF Step

LEMMA NextKeeps == ASSUME SInv, [Next]_vars PROVE SInv'
<1>1. ASSUME NEW t \in Requests, Begin(t), began' = [began EXCEPT ![t] = now], UNCHANGED now
      PROVE  SInv'
  <2>1. Since(t, now)
    <3>1. now \in 0..now
      BY SessionTxAssumption DEF SInv, TypeOK
    <3> QED
      BY <1>1, <3>1 DEF Since
  <2> QED
    BY <1>1, <2>1, FindTokenKeeps, FindHeldSessionKeeps DEF Begin
<1>2. ASSUME NEW t \in Requests, Step(t), UNCHANGED <<now, began>>
      PROVE  SInv'
  <2>1. CASE ReadAccount(t) \/ LockSession(t) \/ ReadToken(t) \/ RevokeSuccessor(t) \/ TradeToken(t)
    BY <1>2, <2>1, ReadAccountKeeps, LockSessionKeeps, ReadTokenKeeps, RevokeSuccessorKeeps, TradeTokenKeeps
  <2>2. CASE Serve(t) \/ ReadUser(t) \/ OpenSession(t) \/ FindSession(t)
    BY <1>2, <2>2, ServeKeeps, ReadUserKeeps, OpenSessionKeeps, FindSessionKeeps
  <2>3. CASE ChangeAccount(t) \/ Reach(t) \/ AllReached(t) \/ \E l \in Logins : LockLogin(t, l)
    BY <1>2, <2>3, ChangeAccountKeeps, ReachKeeps, AllReachedKeeps, LockLoginKeeps
  <2>4. CASE \E c \in Logins \cup {1, 2} : SelectSessions(t, c)
    BY <1>2, <2>4, SelectSessionsKeeps
  <2>5. CASE RevokeTokens(t) \/ \E s \in SessionIds : EndSession(t, s)
    BY <1>2, <2>5, RevokeTokensKeeps, EndSessionKeeps
  <2>6. CASE Commit(t)
    BY <1>2, <2>6, CommitKeeps
  <2>7. CASE Interrupt(t) \/ BreakDeadlock(t, Needs)
    <3>1. Fail(t)
      BY <2>7 DEF Interrupt, BreakDeadlock
    <3> QED
      BY <1>2, <3>1, FailKeeps, Meanwhile
  <2> QED
    BY <1>2, <2>1, <2>2, <2>3, <2>4, <2>5, <2>6, <2>7 DEF Step
<1>3. CASE UNCHANGED vars
  <2>1. db' = db /\ lock' = lock /\ tx' = tx /\ job' = job /\ now' = now /\ began' = began
    BY <1>3 DEF vars
  <2>2. Now!Inv'
    <3>1. UNCHANGED Now!vars
      BY <2>1 DEF Now!vars
    <3> QED
      BY <3>1, StepLasts DEF SInv
  <2>3. TypeOK'
    BY <2>1, <2>2 DEF TypeOK, Now!Inv, SInv
  <2>4. \A u \in Requests : Knows(db', tx'[u], job'[u], began'[u])
    BY <2>1 DEF SInv
  <2> QED
    BY <2>1, <2>2, <2>3, <2>4 DEF SInv
<1>4. CASE AllAnswered /\ UNCHANGED <<now, began>>
  BY <1>3, <1>4 DEF AllAnswered, vars
<1> QED
  BY <1>1, <1>2, <1>3, <1>4, TickKeeps DEF Next

\* Where a request begins it knows what it was given.
LEMMA FirstKnows ==
    ASSUME Init, NEW t \in Requests
    PROVE  Knows(db, Blank(FirstStep(job[t].kind)), job[t], 0)
<1> DEFINE j == job[t]
           y == Blank(FirstStep(j.kind))
<1>1. j \in JobType /\ job \in Starts /\ db \in Openings
  BY SessionStartsAssumption DEF Init
<1>2. IsTx(y) /\ y.pc = FirstStep(j.kind) /\ DOMAIN y.mine = {} /\ y.todo = {} /\ y.fit = {} /\ y.seen = {}
  BY BlankIs
<1>3. j.kind \in {"signIn", "signOut"} =>
        /\ j.token # 0 => db[Token(j.token)].status # "None"
        /\ \A s \in {j.session, j.from} \ {0} : db[Session(s)].status # "None"
  BY <1>1, SessionStartsAssumption
<1> HIDE DEF y
<1>4. /\ j.kind = "renew" => y.pc = "find"
      /\ j.kind = "signIn" => y.pc = "user"
      /\ j.kind = "signOut" => y.pc = "found"
      /\ j.kind = "signOutEveryone" => y.pc = "reach"
      /\ j.kind \in {"device", "everywhere", "others", "changePassword"} => y.pc = "serve"
      /\ j.kind \in {"resetPassword", "switchOff", "switchOn", "delete", "signOutUser"} => y.pc = "login"
  BY <1>2 DEF FirstStep
<1>5. j.kind \in {"signIn", "signOut"} => KnowsNamed(db, y, j)
  BY <1>3, <1>4 DEF KnowsNamed, Passed
<1>6. j.kind = "renew" => KnowsRenew(db, y, j.token, 0)
  BY <1>4 DEF KnowsRenew
<1>7. j.kind = "switchOn" => KnowsSwitchOn(db, y, j.login)
  BY <1>4 DEF KnowsSwitchOn
<1>8. j.kind \notin {"renew", "switchOn"} => KnowsEnds(db, y, j, 0)
  BY <1>1, <1>4 DEF KnowsEnds, SelectsOnce, LocksOne, JobType, Kinds
<1> QED
  BY <1>2, <1>5, <1>6, <1>7, <1>8 DEF Knows, y

LEMMA InitSInv == ASSUME Init PROVE SInv
<1>1. /\ lock = [r \in Rows |-> NoRequest] /\ NoRequest \notin Requests
      /\ tx = [t \in Requests |-> Blank(FirstStep(job[t].kind))] /\ job \in Starts
      /\ now = 0 /\ began = [t \in Requests |-> 0] /\ Now!Inv
  BY ReadCommittedAssumption DEF Init
<1>2. \A t \in Requests : {r \in Rows : lock[r] = t} = DOMAIN tx[t].mine
  BY <1>1, BlankIs
<1>3. now \in 0..Horizon /\ began \in [Requests -> 0..now]
  BY <1>1, SessionTxAssumption
<1>4. TypeOK
  BY <1>1, <1>2, <1>3 DEF TypeOK, Now!Inv
<1>5. \A t \in Requests : Knows(db, tx[t], job[t], began[t])
  BY <1>1, FirstKnows
<1>6. tx = [t \in Requests |-> tx[t]]
  BY <1>1
<1> QED
  BY <1>1, <1>4, <1>5, <1>6 DEF SInv

LEMMA AlwaysSInv == Spec => []SInv
<1>1. Init => SInv
  BY InitSInv
<1>2. SInv /\ [Next]_vars => SInv'
  BY NextKeeps
<1> QED
  BY <1>1, <1>2, PTL DEF Spec

\* Every step is one event of Sessions or none.
LEMMA StepsAreEvents == ASSUME SInv, [Next]_vars PROVE [Now!Next]_(Now!vars)
<1>1. ASSUME db' = db, now' = now
      PROVE  UNCHANGED Now!vars
  BY <1>1 DEF Now!vars
<1>2. ASSUME NEW t \in Requests, Begin(t) \/ Step(t), now' = now
      PROVE  [Now!Next]_(Now!vars)
  BY <1>1, <1>2, OnlyCommitsWrite, CommitIsOneEvent
<1>3. CASE UNCHANGED vars \/ (AllAnswered /\ UNCHANGED <<now, began>>)
  BY <1>1, <1>3 DEF vars, AllAnswered
<1> QED
  BY <1>2, <1>3, TickKeeps DEF Next

-----------------------------------------------------------------------------
(* What follows *)

\* Renewals, sign-ins and everything that ends sessions, run statement by statement by any number of
\* requests at once, look from outside like the events of Sessions, one at a time.
THEOREM TransactionsImplementSessions == Spec => ImplementsSessions
<1>1. Init => Now!Inv
  BY DEF Init
<1>2. SInv /\ [Next]_vars => [Now!Next]_(Now!vars)
  BY StepsAreEvents
<1> QED
  BY <1>1, <1>2, AlwaysSInv, PTL DEF Spec, ImplementsSessions, Now!Resumed

\* Whatever meets on a session, while it is open exactly one token renews it, and each of its other tokens
\* was traded for one that leads there.
THEOREM OpenSessionsStayRenewable == Spec => []OpenSessionsRenew
<1>1. SInv => OpenSessionsRenew
  BY DEF SInv, OpenSessionsRenew, OneWayToRenew, TradesLeadOn, Now!Inv
<1> QED
  BY <1>1, AlwaysSInv, PTL

\* Once a sign-out, or a sign-in that replaces sessions, is answered, no session it named is open, whatever
\* was renewed or signed in meanwhile.
THEOREM AnswersAreKept == Spec => []AnsweredMeansOver
<1>1. ASSUME SInv, NEW t \in Requests, Kind(t) \in {"signIn", "signOut"}, At(t, "done"),
             NEW c \in {1, 2}, NEW s \in SessionIds, Names(t, c, s)
      PROVE  db[Session(s)].status # "Active"
  <2> DEFINE x == tx[t]
             j == job[t]
  <2>1. x.pc = "done" /\ j.kind \in {"signIn", "signOut"} /\ j \in JobType /\ DOMAIN x.mine = {} /\ KnowsNamed(db, x, j)
    BY <1>1, About DEF Kind, At, Knows, Unlocked
  <2>2. \A r \in Rows : View(t, r) = db[r]
    BY <1>1, <2>1, About
  <2>3. j.token # 0 => View(t, Token(j.token)) = db[Token(j.token)]
    BY <2>1, <2>2, RowsAre DEF JobType
  <2>4. View(t, Session(s)) = db[Session(s)]
    BY <2>2, RowsAre
  <2>5. Named(db, j, c, s)
    BY <1>1, <2>1, <2>3, <2>4 DEF Names, Named, SessionOf, Kind
  <2>6. \E d \in Passed(x, j) : Named(db, j, d, s)
    BY <2>1, <2>5 DEF Passed, Named
  <2>7. Pending(x) = {} /\ StatusTo(db, x, s) = db[Session(s)].status
    BY <2>1 DEF Pending, StatusTo
  <2> QED
    BY <2>1, <2>6, <2>7 DEF KnowsNamed
<1>2. SInv => AnsweredMeansOver
  BY <1>1 DEF AnsweredMeansOver
<1> QED
  BY <1>2, AlwaysSInv, PTL

\* While a request has a session locked, nobody else has a token of it locked.
LEMMA TokensGuarded ==
    ASSUME SInv, NEW t \in Requests, NEW u \in Requests, u # t, NEW k \in Tokens, db[Token(k)].status # "None",
           db[Token(k)].session \in SessionIds, Session(db[Token(k)].session) \in DOMAIN tx[t].mine
    PROVE  lock[Token(k)] # u
<1> SUFFICES ASSUME lock[Token(k)] = u
             PROVE  FALSE
  OBVIOUS
<1>1. Token(k) \in DOMAIN tx[u].mine
  BY About, RowsAre
<1>2. Frame(db, tx[u])
  BY About, KnowsFrame
<1>3. Session(db[Token(k)].session) \in DOMAIN tx[u].mine
  BY <1>1, <1>2 DEF Frame
<1>4. lock[Session(db[Token(k)].session)] = u /\ lock[Session(db[Token(k)].session)] = t
  BY <1>3, About, RowsAre
<1> QED
  BY <1>4

\* The token a request presents, or took back, as it sees it.
LEMMA AtTheTrade ==
    ASSUME SInv, NEW t \in Requests, tx[t].pc \in {"successor", "trade"}
    PROVE  LET k == job[t].token
               s == db[Token(k)].session
           IN  /\ k \in Tokens /\ s \in SessionIds /\ Session(s) \in DOMAIN tx[t].mine
               /\ db[Token(k)].status # "None" /\ View(t, Token(k)) = db[Token(k)]
               /\ tx[t].pc = "successor" => Retradable(db, k, began[t])
<1> DEFINE x == tx[t]
           k == job[t].token
           s == db[Token(k)].session
<1>1. KnowsRenew(db, x, k, began[t])
  BY About, OnlyRenewals
<1>2. k \in Tokens /\ s \in SessionIds
  BY <1>1 DEF KnowsRenew
<1>3. CASE x.pc = "successor"
  <2>1. Holds(db, x, s, began[t]) /\ DOMAIN x.mine = {Session(s)} /\ Retradable(db, k, began[t])
    BY <1>1, <1>3 DEF KnowsRenew
  <2>2. View(t, Token(k)) = db[Token(k)]
    BY <1>2, <2>1, TokensUntouched
  <2> QED
    BY <1>2, <2>1, <2>2 DEF Retradable
<1>4. CASE x.pc = "trade"
  <2>1. KnowsTrade(db, x, k, s, began[t])
    BY <1>1, <1>4 DEF KnowsRenew
  <2>2. Session(s) \in DOMAIN x.mine
    BY <2>1 DEF KnowsTrade
  <2>3. db[Token(k)].status # "None" /\ Token(k) \notin DOMAIN x.mine
    <3>1. CASE x.seen = {"Active"} /\ Tradable(db, k, began[t]) /\ DOMAIN x.mine = {Session(s)}
      BY <3>1, RowNames DEF Tradable
    <3>2. CASE Retradable(db, k, began[t]) /\ DOMAIN x.mine = {Session(s), Token(db[Token(k)].next)}
      <4>1. db[Token(k)].status = "Rotated" /\ db[Token(k)].next # k
        BY <1>2, <3>2, SessionTxAssumption DEF Retradable
      <4> QED
        BY <3>2, <4>1, RowNames
    <3> QED
      BY <2>1, <3>1, <3>2 DEF KnowsTrade
  <2> QED
    BY <1>2, <1>4, <2>2, <2>3, About, RowsAre
<1> QED
  BY <1>3, <1>4

\* What a request may wait for is rows.
LEMMA NeedsAreRows == ASSUME SInv, NEW t \in Requests PROVE Needs(t) \subseteq Rows
<1> DEFINE x == tx[t]
           j == job[t]
<1>1. Knows(db, x, j, began[t]) /\ j \in JobType
      /\ (j.kind \notin {"renew", "signOut", "signOutEveryone"} => j.login \in Logins)
  BY About
<1>2. CASE x.pc = "login"
  <2>1. j.login \in Logins
    BY <1>1, <1>2, AtRest DEF KnowsEnds
  <2> QED
    BY <1>2, <2>1, RowsAre DEF Needs, At
<1>3. CASE x.pc = "logins"
  BY <1>3, AtLogins, RowsAre DEF Needs, At
<1>4. CASE x.pc = "lock"
  <2>1. j.token \in Tokens /\ db[Token(j.token)].session \in SessionIds /\ DOMAIN x.mine = {}
    BY <1>1, <1>4, OnlyRenewals DEF KnowsRenew, Knows, Unlocked
  <2>2. SessionOf(t, j.token) \in SessionIds
    BY <2>1, SessionOfIs
  <2> QED
    BY <1>4, <2>2, RowsAre DEF Needs, At
<1>5. CASE x.pc = "end"
  <2>1. x.todo \subseteq SessionIds
    BY <1>5, AtTheEnd DEF KnowsEnds
  <2> QED
    BY <1>5, <2>1, RowsAre DEF Needs, At
<1>6. CASE x.pc = "successor"
  <2>1. j.token \in Tokens /\ View(t, Token(j.token)).next \in Tokens
    BY <1>6, AtTheTrade DEF Retradable
  <2> QED
    BY <1>6, <2>1, RowsAre DEF Needs, At
<1>7. CASE x.pc = "trade"
  <2>1. j.token \in Tokens
    BY <1>7, AtTheTrade
  <2> QED
    BY <1>7, <2>1, RowsAre DEF Needs, At
<1> QED
  BY <1>2, <1>3, <1>4, <1>5, <1>6, <1>7 DEF Needs, At

\* A request about one device has nothing locked, or waits for nobody.
LEMMA StandsAlone ==
    ASSUME SInv, NEW t \in Requests, job[t].kind \in {"renew", "signOut", "device"}, DOMAIN tx[t].mine # {},
           NEW u \in Requests, u # t, NEW r \in Needs(t)
    PROVE  lock[r] # u
<1> DEFINE x == tx[t]
           j == job[t]
           b == began[t]
<1>1. Knows(db, x, j, b) /\ RowsFit(db)
  BY About
<1>2. x.pc \notin Unlocked
  BY <1>1 DEF Knows
<1>3. x.pc # "logins"
  BY AtLogins
<1>4. CASE x.pc = "successor"
  <2> DEFINE c == db[Token(j.token)].next
  <2>1. /\ r = Token(c) /\ c \in Tokens /\ db[Token(c)].status # "None"
        /\ db[Token(c)].session \in SessionIds /\ Session(db[Token(c)].session) \in DOMAIN x.mine
    BY <1>4, AtTheTrade DEF Needs, At, Retradable
  <2> QED
    BY <2>1, TokensGuarded
<1>5. CASE x.pc = "trade"
  <2>1. /\ r = Token(j.token) /\ j.token \in Tokens /\ db[Token(j.token)].status # "None"
        /\ db[Token(j.token)].session \in SessionIds /\ Session(db[Token(j.token)].session) \in DOMAIN x.mine
    BY <1>5, AtTheTrade DEF Needs, At
  <2> QED
    BY <2>1, TokensGuarded
<1>6. CASE x.pc = "end" /\ x.todo # {}
  <2>1. PICK s \in x.todo : r = Session(s)
    BY <1>6 DEF Needs, At
  <2>2. j.kind = "renew"
    BY <1>1, <1>6 DEF Knows, KnowsEnds, LocksOne
  <2>3. KnowsRenewEnd(db, x, db[Token(j.token)].session) /\ s \in SessionIds
    BY <1>1, <1>6, <2>2, AtTheEnd DEF KnowsRenew
  <2>4. Session(s) \in DOMAIN x.mine
    BY <1>6, <2>3 DEF KnowsRenewEnd
  <2>5. lock[Session(s)] = t
    BY <2>3, <2>4, About, RowsAre
  <2> QED
    BY <2>1, <2>5
<1>7. CASE x.pc = "end" /\ x.todo = {}
  <2>1. PICK k \in Tokens : r = Token(k) /\ SessionOf(t, k) \in x.fit
    BY <1>7 DEF Needs, At
  <2>2. x.fit \subseteq Over(x)
    BY <1>7, AtTheEnd DEF EndsOnly, Loud
  <2>3. CASE Token(k) \in DOMAIN x.mine
    <3>1. lock[Token(k)] = t
      BY <2>3, About, RowsAre
    <3> QED
      BY <2>1, <3>1
  <2>4. CASE Token(k) \notin DOMAIN x.mine
    <3>1. db[Token(k)].session \in x.fit
      BY <2>1, <2>4, SessionOfIs
    <3>2. db[Token(k)].session \in SessionIds /\ Session(db[Token(k)].session) \in DOMAIN x.mine
      BY <2>2, <3>1 DEF Over
    <3>3. db[Token(k)].status # "None"
      BY <1>1, <3>2, NoZero DEF RowsFit
    <3> QED
      BY <2>1, <3>2, <3>3, TokensGuarded
  <2> QED
    BY <2>3, <2>4
<1> QED
  BY <1>2, <1>3, <1>4, <1>5, <1>6, <1>7 DEF Needs, At, Unlocked

\* A renewal, a sign-out or the sign-out of one device is never part of a deadlock, whatever else runs.
THEOREM OneDeviceIsNeverDeadlocked == Spec => []OneDeviceNeverDeadlocks
<1>1. ASSUME SInv, NEW S \in SUBSET Requests, Deadlocked(S, Needs), NEW t \in S, Kind(t) \in {"renew", "signOut", "device"}
      PROVE  FALSE
  <2>1. PICK u \in S : u # t /\ \E r \in Needs(t) : lock[r] = u
    BY <1>1 DEF Deadlocked
  <2>2. PICK v \in S : v # t /\ \E r \in Needs(v) : lock[r] = t
    BY <1>1 DEF Deadlocked
  <2>3. DOMAIN tx[t].mine # {}
    BY <1>1, <2>2, NeedsAreRows, About
  <2>4. \A r \in Needs(t) : lock[r] # u
    BY <1>1, <2>1, <2>3, StandsAlone DEF Kind
  <2> QED
    BY <2>1, <2>4
<1>2. SInv => OneDeviceNeverDeadlocks
  BY <1>1 DEF OneDeviceNeverDeadlocks
<1> QED
  BY <1>2, AlwaysSInv, PTL
=============================================================================
