------------------------------ MODULE SessionTx ------------------------------
(***************************************************************************)
(* Signing in, renewing and signing out, one database statement at a time: *)
(* a renewal (find the token, lock its session, read the token, trade it), *)
(* a sign-in that replaces the browser's former sessions, and everything   *)
(* that ends sessions: sign-out, other devices, a password change or       *)
(* reset, an account turned off or deleted, an administrator.              *)
(*                                                                         *)
(* LOCALTIMESTAMP is the time a transaction began.  Cookies and answers    *)
(* are Tabs' business.                                                     *)
(***************************************************************************)
EXTENDS ReadCommitted

CONSTANTS
    Logins,      \* accounts, in the order of their ids
    SessionIds,
    Tokens,      \* refresh tokens, in the order they are issued
    Grace,       \* reuse_grace_seconds
    Idle,        \* refresh_idle_seconds
    Lifetime,    \* session_max_seconds
    Horizon,     \* the bound of the clock
    Starts,      \* what the requests may ask for together
    Openings     \* where the rows may stand at the start

ASSUME SessionTxAssumption ==
    /\ Logins \subseteq Nat \ {0} /\ SessionIds \subseteq Nat \ {0} /\ Tokens \subseteq Nat \ {0}
    /\ Grace \in Nat /\ Idle \in Nat /\ Lifetime \in Nat /\ Horizon \in Nat

VARIABLES
    now,        \* the database's clock
    began       \* when each request's transaction began

Login(l) == <<"login", l>>       \* login
Session(s) == <<"session", s>>   \* auth_session
Token(k) == <<"token", k>>       \* auth_refresh_token

ASSUME SessionRowsAssumption ==
    Rows = {Login(l) : l \in Logins} \cup {Session(s) : s \in SessionIds} \cup {Token(k) : k \in Tokens}

Kinds == {"renew", "signIn", "signOut", "device", "everywhere", "others", "changePassword",
          "resetPassword", "switchOff", "switchOn", "delete", "signOutUser", "signOutEveryone"}

\* The account a request is about, the caller's session, the session it names, and the refresh token
\* it carries; 0 where there is none.
JobType == [kind : Kinds, login : Logins \cup {0}, from : SessionIds \cup {0},
            session : SessionIds \cup {0}, token : Tokens \cup {0}]

\* Every request is about an account where its handler goes by one; what a browser signs in or out with,
\* it was given before.
ASSUME SessionStartsAssumption ==
    \A start \in Starts :
        /\ start \in [Requests -> JobType]
        /\ \A t \in Requests :
            LET its == start[t]
            IN  /\ its.kind \notin {"renew", "signOut", "signOutEveryone"} => its.login \in Logins
                /\ its.kind \in {"signIn", "signOut"} => \A o \in Openings :
                     /\ its.token # 0 => o[Token(its.token)].status # "None"
                     /\ \A s \in {its.session, its.from} \ {0} : o[Session(s)].status # "None"

vars == <<db, lock, tx, job, now, began>>

\* What the rows hold: see Sessions for the columns.
Now == INSTANCE Sessions WITH
    account <- [l \in Logins |-> db[Login(l)]],
    session <- [s \in SessionIds |-> db[Session(s)]],
    token <- [k \in Tokens |-> db[Token(k)]]

TypeOK ==
    /\ Now!TypeOK
    /\ lock \in [Rows -> Requests \cup {NoRequest}]
    /\ \A t \in Requests : {r \in Rows : lock[r] = t} = DOMAIN tx[t].mine
    /\ now \in 0..Horizon /\ began \in [Requests -> 0..now]

Kind(t) == job[t].kind

\* A request begins as its handler does: with the middleware's check of the caller's session, or not.
FirstStep(kind) ==
    CASE kind \in {"device", "everywhere", "others", "changePassword"} -> "serve"
      [] kind = "renew" -> "find"
      [] kind = "signIn" -> "user"
      [] kind = "signOut" -> "found"
      [] kind = "signOutEveryone" -> "reach"
      [] OTHER -> "login"

\* The tables are what an earlier history of sign-ins, renewals and sign-outs left.
Init ==
    /\ db \in Openings
    /\ lock = [r \in Rows |-> NoRequest]
    /\ job \in Starts
    /\ tx = [t \in Requests |-> Blank(FirstStep(job[t].kind))]
    /\ now = 0 /\ began = [t \in Requests |-> 0]
    /\ Now!Inv

\* The session a token is of; 0 when there is no such token.
SessionOf(t, k) == IF k = 0 THEN 0 ELSE View(t, Token(k)).session

IsActive(t, r) == View(t, r).status = "Active"
Becomes(t, r, status) == Version(r, [View(t, r) EXCEPT !.status = status])

\* A row nobody has inserted yet, not even uncommitted; the next token is issued after all others.
Unused(r) == db[r].status = "None" /\ lock[r] = NoRequest
IsNextToken(n) == \A k \in Tokens : k >= n <=> (\A j \in Tokens : j >= k => Unused(Token(j)))
NewToken(t, s) == [status |-> "Active", session |-> s, next |-> 0, rotated |-> 0, until |-> began[t] + Idle]

-----------------------------------------------------------------------------
(* Ending sessions: end_where, for the sessions each handler names *)

\* The sessions of step c of a request: of account c, of the caller's account, or single ones.
Names(t, c, s) ==
    LET its == job[t]
        login == View(t, Session(s)).login
    IN  CASE Kind(t) = "signIn" -> IF c = 1 THEN s = SessionOf(t, its.token) ELSE s = its.session /\ login = its.login
          [] Kind(t) = "signOut" -> s = IF SessionOf(t, its.token) # 0 THEN SessionOf(t, its.token) ELSE its.from
          [] Kind(t) = "device" -> s = its.session /\ login = its.login
          [] Kind(t) \in {"others", "changePassword"} -> login = c /\ s # its.from
          [] OTHER -> login = c

\* The UPDATE's snapshot: the open sessions it is about.
SelectSessions(t, c) ==
    /\ At(t, "select")
    /\ c \in tx[t].seen /\ \A d \in tx[t].seen : c <= d
    /\ Read(t, [tx[t] EXCEPT !.pc = "end", !.seen = @ \ {c},
                             !.todo = {s \in SessionIds : IsActive(t, Session(s)) /\ Names(t, c, s)}])

HowItEnds(t) ==
    CASE Kind(t) = "renew" -> CHOOSE how \in tx[t].seen : TRUE
      [] Kind(t) \in {"signIn", "signOut"} -> "SignedOut"
      [] OTHER -> "Revoked"

\* Each session is waited for, and ended if it is still open then.
EndSession(t, s) ==
    /\ At(t, "end") /\ s \in tx[t].todo
    /\ Free(t, Session(s))
    /\ IF IsActive(t, Session(s))
       THEN Write(t, Becomes(t, Session(s), HowItEnds(t)), [tx[t] EXCEPT !.todo = @ \ {s}, !.fit = @ \cup {s}])
       ELSE Read(t, [tx[t] EXCEPT !.todo = @ \ {s}])

AfterEnding(t) ==
    CASE Kind(t) = "renew" -> [tx[t] EXCEPT !.pc = "commit"]
      [] Kind(t) # "renew" /\ tx[t].seen # {} -> [tx[t] EXCEPT !.pc = "select", !.fit = {}]
      [] Kind(t) = "signIn" /\ tx[t].seen = {} -> [tx[t] EXCEPT !.pc = "open", !.fit = {}]
      [] OTHER -> [tx[t] EXCEPT !.pc = "commit", !.fit = {}]

\* Faulty form of RevokeTokens: only the sessions end.
LeaveTokens(t) ==
    /\ At(t, "end") /\ tx[t].todo = {}
    /\ Read(t, AfterEnding(t))

\* The second UPDATE, in a snapshot of its own: what renewals committed during the wait is in it.
RevokeTokens(t) ==
    LET live == {k \in Tokens : IsActive(t, Token(k)) /\ SessionOf(t, k) \in tx[t].fit}
    IN  /\ At(t, "end") /\ tx[t].todo = {}
        /\ IF Kind(t) = "device" /\ tx[t].fit = {}
           THEN Fail(t)
           ELSE Write(t, [r \in {Token(k) : k \in live} |-> [View(t, r) EXCEPT !.status = "Revoked"]], AfterEnding(t))

-----------------------------------------------------------------------------
(* Renewing *)

\* Faulty form of FindToken: the token is locked first, and then its session.
FindAndLockToken(t) ==
    /\ At(t, "find")
    /\ IF SessionOf(t, job[t].token) # 0
       THEN Lock(t, Token(job[t].token), [tx[t] EXCEPT !.pc = "snapshot"])
       ELSE Fail(t)

\* The transaction begins; a token nobody was given is refused.
FindToken(t) ==
    /\ At(t, "find")
    /\ IF SessionOf(t, job[t].token) # 0
       THEN Read(t, [tx[t] EXCEPT !.pc = "snapshot"])
       ELSE Fail(t)

\* The statement that locks the session has read the account before it waits.
ReadAccount(t) ==
    LET s == SessionOf(t, job[t].token)
    IN  /\ At(t, "snapshot")
        /\ Read(t, [tx[t] EXCEPT !.pc = "lock", !.seen = {View(t, Login(View(t, Session(s)).login))}])

\* Goes on to end session s, in this way.
ToEnd(t, s, how) == [tx[t] EXCEPT !.pc = "end", !.todo = {s}, !.seen = {how}]

AfterLocking(t, s) ==
    CASE "Active" \notin tx[t].seen -> ToEnd(t, s, "Revoked")
      [] "Active" \in tx[t].seen /\ View(t, Session(s)).until <= began[t] -> ToEnd(t, s, "Expired")
      [] OTHER -> [tx[t] EXCEPT !.pc = "token", !.seen = {}]

\* Faulty form of LockSession: the session is read and not locked.
ReadSession(t) ==
    LET s == SessionOf(t, job[t].token)
    IN  /\ At(t, "lock")
        /\ IF IsActive(t, Session(s)) THEN Read(t, AfterLocking(t, s)) ELSE Fail(t)

\* What is refused here commits nothing but an entry of the audit trail.
LockSession(t) ==
    LET s == SessionOf(t, job[t].token)
    IN  /\ At(t, "lock")
        /\ Free(t, Session(s))
        /\ IF IsActive(t, Session(s)) THEN Lock(t, Session(s), AfterLocking(t, s)) ELSE Fail(t)

ReadToken(t) ==
    LET it == View(t, Token(job[t].token))
        inGrace == began[t] < it.rotated + Grace
        unused == IsActive(t, Token(it.next))
    IN  /\ At(t, "token")
        /\ CASE it.status = "Revoked" -> Fail(t)
             [] it.status = "Rotated" -> Read(t, IF inGrace /\ unused THEN [tx[t] EXCEPT !.pc = "successor"]
                                                                       ELSE ToEnd(t, it.session, "Revoked"))
             [] OTHER -> Read(t, IF began[t] < it.until THEN [tx[t] EXCEPT !.pc = "trade", !.seen = {"Active"}]
                                                        ELSE ToEnd(t, it.session, "Expired"))

RevokeSuccessor(t) ==
    LET successor == Token(View(t, Token(job[t].token)).next)
        next == [tx[t] EXCEPT !.pc = "trade", !.seen = {"Rotated"}]
    IN  /\ At(t, "successor")
        /\ IF IsActive(t, successor) THEN Write(t, Becomes(t, successor, "Revoked"), next) ELSE Read(t, next)

\* The new token is inserted, and the one presented leads to it if it still is what was read of it.
Traded(t, it, n, next, rotated) ==
    IF it.status \in tx[t].seen
    THEN Write(t, Version(Token(n), NewToken(t, it.session))
                  ++ Version(Token(job[t].token), [it EXCEPT !.status = "Rotated", !.next = next, !.rotated = rotated]),
               [tx[t] EXCEPT !.pc = "commit"])
    ELSE Fail(t)

TimeOfTrade(t, it) == IF it.status = "Rotated" THEN it.rotated ELSE began[t]

\* Faulty form of TradeToken: the first replacement stays the one it leads to.
TradeTokenKeepingNext(t) ==
    LET it == View(t, Token(job[t].token))
    IN  /\ At(t, "trade")
        /\ \E n \in Tokens : IsNextToken(n) /\ Traded(t, it, n, IF it.next # 0 THEN it.next ELSE n, TimeOfTrade(t, it))

TradeToken(t) ==
    LET it == View(t, Token(job[t].token))
    IN  /\ At(t, "trade")
        /\ \E n \in Tokens : IsNextToken(n) /\ Traded(t, it, n, n, TimeOfTrade(t, it))

-----------------------------------------------------------------------------
(* The other handlers, up to the sessions they end *)

\* jwtMiddleware: the caller's session is open and unexpired and the account on.
Serve(t) ==
    LET caller == View(t, Session(job[t].from))
    IN  /\ At(t, "serve")
        /\ IF /\ caller.status = "Active" /\ caller.login = job[t].login
              /\ now < caller.until /\ View(t, Login(caller.login)) = "Active"
           THEN Read(t, IF Kind(t) = "changePassword" THEN [tx[t] EXCEPT !.pc = "login"]
                                                      ELSE [tx[t] EXCEPT !.pc = "select", !.seen = {job[t].login}])
           ELSE Fail(t)

\* The account is read, and the password compared, before the transaction begins.
ReadUser(t) ==
    /\ At(t, "user")
    /\ IF View(t, Login(job[t].login)) = "Active"
       THEN Read(t, [tx[t] EXCEPT !.pc = "begin"])
       ELSE Fail(t)

\* Faulty form of FindHeldSession: only the refresh token is looked at.
FindHeldSessionOnly(t) ==
    /\ At(t, "begin")
    /\ Read(t, [tx[t] EXCEPT !.pc = "select", !.seen = {1}])

\* The sessions to replace: the one whose token the browser still has, then the one it remembers.
FindHeldSession(t) ==
    /\ At(t, "begin")
    /\ Read(t, [tx[t] EXCEPT !.pc = "select", !.seen = {1, 2}])

OpenSession(t) ==
    /\ At(t, "open")
    /\ \E s \in SessionIds, n \in Tokens :
        /\ Unused(Session(s)) /\ \A r \in SessionIds : Unused(Session(r)) => s <= r
        /\ IsNextToken(n)
        /\ Write(t, Version(Session(s), [status |-> "Active", login |-> job[t].login, until |-> began[t] + Lifetime])
                    ++ Version(Token(n), NewToken(t, s)),
                 [tx[t] EXCEPT !.pc = "commit"])

\* find_session: by the refresh token, or else by the access token's session.
FindSession(t) ==
    /\ At(t, "found")
    /\ IF SessionOf(t, job[t].token) # 0 \/ job[t].from # 0
       THEN Read(t, [tx[t] EXCEPT !.pc = "select", !.seen = {1}])
       ELSE End(t, "done") /\ UNCHANGED db

\* The account is locked (FOR UPDATE, or by the UPDATE of its password), and then its sessions end.
ChangeAccount(t) ==
    LET l == job[t].login
        status == View(t, Login(l))
        then(new) == Write(t, Version(Login(l), new), [tx[t] EXCEPT !.pc = "select", !.seen = {l}])
        asItIs == End(t, "done") /\ UNCHANGED db
    IN  /\ At(t, "login")
        /\ Free(t, Login(l))
        /\ CASE Kind(t) \in {"changePassword", "resetPassword"} -> then(status)
             [] Kind(t) \in {"switchOff", "switchOn", "delete", "signOutUser"} /\ status = "Deleted" -> Fail(t)
             [] Kind(t) = "signOutUser" /\ status # "Deleted" -> then(status)
             [] Kind(t) = "switchOff" /\ status # "Deleted" -> IF status = "Inactive" THEN asItIs ELSE then("Inactive")
             [] Kind(t) = "delete" /\ status # "Deleted" -> then("Deleted")
             [] Kind(t) = "switchOn" /\ status # "Deleted" ->
                    IF status = "Active" THEN asItIs
                    ELSE Write(t, Version(Login(l), "Active"), [tx[t] EXCEPT !.pc = "commit"])

\* Everyone the caller may sign out, locked in the order of their ids.
Reach(t) ==
    /\ At(t, "reach")
    /\ Read(t, [tx[t] EXCEPT !.pc = "logins", !.todo = {l \in Logins \ {job[t].login} : View(t, Login(l)) # "Deleted"}])

LockLogin(t, l) ==
    /\ At(t, "logins")
    /\ l \in tx[t].todo /\ \A m \in tx[t].todo : l <= m
    /\ Free(t, Login(l))
    /\ IF View(t, Login(l)) # "Deleted"
       THEN Lock(t, Login(l), [tx[t] EXCEPT !.todo = @ \ {l}, !.seen = @ \cup {l}])
       ELSE Read(t, [tx[t] EXCEPT !.todo = @ \ {l}])

AllReached(t) ==
    /\ At(t, "logins") /\ tx[t].todo = {}
    /\ Read(t, [tx[t] EXCEPT !.pc = IF tx[t].seen = {} THEN "commit" ELSE "select"])

-----------------------------------------------------------------------------

\* The rows the next statement of t has to lock, and may have to wait for.
Needs(t) ==
    LET k == job[t].token
    IN  CASE At(t, "login") -> {Login(job[t].login)}
          [] At(t, "logins") -> {Login(l) : l \in {m \in tx[t].todo : \A n \in tx[t].todo : m <= n}}
          [] At(t, "lock") -> {Session(SessionOf(t, k))}
          [] At(t, "end") -> IF tx[t].todo # {} THEN {Session(s) : s \in tx[t].todo}
                             ELSE {Token(j) : j \in {i \in Tokens : SessionOf(t, i) \in tx[t].fit}}
          [] At(t, "successor") -> {Token(View(t, Token(k)).next)}
          [] At(t, "trade") -> {Token(k)}
          [] OTHER -> {}

\* The first statement of a transaction whose LOCALTIMESTAMP is gone by.
Begin(t) == FindToken(t) \/ FindHeldSession(t)

Step(t) ==
    \/ ReadAccount(t) \/ LockSession(t) \/ ReadToken(t) \/ RevokeSuccessor(t) \/ TradeToken(t)
    \/ Serve(t) \/ ReadUser(t) \/ OpenSession(t) \/ FindSession(t)
    \/ ChangeAccount(t) \/ Reach(t) \/ AllReached(t) \/ \E l \in Logins : LockLogin(t, l)
    \/ \E c \in Logins \cup {1, 2} : SelectSessions(t, c)
    \/ RevokeTokens(t) \/ \E s \in SessionIds : EndSession(t, s)
    \/ Commit(t) \/ Interrupt(t) \/ BreakDeadlock(t, Needs)

Tick ==
    /\ now < Horizon
    /\ now' = now + 1
    /\ UNCHANGED <<db, lock, tx, job, began>>

Next ==
    \/ \E t \in Requests : Begin(t) /\ began' = [began EXCEPT ![t] = now] /\ UNCHANGED now
    \/ \E t \in Requests : Step(t) /\ UNCHANGED <<now, began>>
    \/ AllAnswered /\ UNCHANGED <<now, began>>
    \/ Tick

Spec == Init /\ [][Next]_vars

-----------------------------------------------------------------------------
(* Properties *)

\* However many renewals and sign-outs meet on a session, it has exactly one live refresh token while it
\* is open and none once it is over (refresh-token.js on locking the session; end_where's two UPDATEs).
OneWayToRenew == Now!OneWayToRenew

\* Whoever still has a traded token of an open session is led by replaced_by_oid to the live one: a
\* replacement taken back is never the one a token leads to (refresh-token.js, the grace reissue).
TradesLeadOn == Now!TradesLeadOn

\* An open session can be renewed, in one way, by whoever holds any of its tokens.
OpenSessionsRenew == TypeOK /\ OneWayToRenew /\ TradesLeadOn

\* Once a sign-out, or a sign-in that replaces sessions, has been answered, no session it named is open,
\* whatever renewed it meanwhile (sign-out.js, sign-in.js end_replaced_sessions).
AnsweredMeansOver ==
    \A t \in Requests : Kind(t) \in {"signIn", "signOut"} /\ At(t, "done") =>
        \A c \in {1, 2}, s \in SessionIds : Names(t, c, s) => db[Session(s)].status # "Active"

\* A renewal or the sign-out of one device is never in a deadlock, whatever it meets: only requests that
\* end several sessions of an account can be (renew locks the session before its tokens).
OneDeviceNeverDeadlocks ==
    \A S \in SUBSET Requests : Deadlocked(S, Needs) => \A t \in S : Kind(t) \notin {"renew", "signOut", "device"}

\* Every request takes effect at one instant, or not at all.
ImplementsSessions == Now!Resumed
=============================================================================
