------------------------------ MODULE Sessions ------------------------------
(***************************************************************************)
(* What sign-ins, renewals and sign-outs promise, each at one instant:     *)
(* sessions end once and for good, every renewal trades the one live       *)
(* refresh token of its session for the next, and a token traded moments   *)
(* ago may be traded again only while nobody has used what it was traded   *)
(* for.  Time is the database's; a request goes by the time it began (at). *)
(***************************************************************************)
EXTENDS Naturals

CONSTANTS
    Logins,      \* accounts, in the order of their ids
    SessionIds,
    Tokens,      \* refresh tokens, in the order they are issued
    Grace,       \* how long a traded token may be traded again
    Idle,        \* how long a token lives unused
    Lifetime     \* how long a session lives, however often it is renewed

ASSUME SessionsAssumption ==
    /\ Logins \subseteq Nat \ {0} /\ SessionIds \subseteq Nat \ {0} /\ Tokens \subseteq Nat \ {0}
    /\ Grace \in Nat /\ Idle \in Nat /\ Lifetime \in Nat

VARIABLES
    account,    \* login
    session,    \* auth_session
    token,      \* auth_refresh_token; `next` is replaced_by_oid, `rotated` is rotated_on
    now         \* the database's clock

vars == <<account, session, token, now>>

AccountStatus == {"Active", "Inactive", "Deleted"}
EndStatus == {"SignedOut", "Expired", "Revoked"}
SessionRow == [status : {"None", "Active"} \cup EndStatus, login : Logins \cup {0}, until : Nat]
TokenRow == [status : {"None", "Active", "Rotated", "Revoked"}, session : SessionIds \cup {0},
             next : Tokens \cup {0}, rotated : Nat, until : Nat]

TypeOK ==
    /\ account \in [Logins -> AccountStatus]
    /\ session \in [SessionIds -> SessionRow]
    /\ token \in [Tokens -> TokenRow]
    /\ now \in Nat

Open(s) == session[s].status = "Active"
OpenSessions == {s \in SessionIds : Open(s)}
Of(s) == {k \in Tokens : token[k].session = s}
Live(s) == {k \in Of(s) : token[k].status = "Active"}
Issued(k) == token[k].status # "None"

\* Every issued token is of a session that was opened.
TokensHaveSessions ==
    \A k \in Tokens :
        IF Issued(k) THEN token[k].session \in SessionIds /\ session[token[k].session].status # "None"
                     ELSE token[k].session = 0

\* An open session has exactly one token that renews it, an ended one none.
OneWayToRenew ==
    \A s \in SessionIds :
        IF Open(s) THEN \E k \in Tokens : Live(s) = {k} ELSE Live(s) = {}

LeadsOn(k) ==
    LET n == token[k].next
    IN  /\ n \in Tokens /\ k < n /\ Issued(n)
        /\ token[n].session = token[k].session
        /\ Open(token[k].session) => token[n].status # "Revoked"

\* A traded token leads to one of its session issued later, which while the session is open was not
\* taken back: following `next` from any traded token arrives at the live one.
TradesLeadOn == \A k \in Tokens : token[k].status = "Rotated" => LeadsOn(k)

\* No two tokens were traded for the same one.
EachReplacesOne ==
    \A j, k \in Tokens : token[j].status = "Rotated" /\ token[k].status = "Rotated" /\ token[j].next = token[k].next => j = k

Inv == TypeOK /\ TokensHaveSessions /\ OneWayToRenew /\ TradesLeadOn /\ EachReplacesOne

NoSession == [status |-> "None", login |-> 0, until |-> 0]
NoToken == [status |-> "None", session |-> 0, next |-> 0, rotated |-> 0, until |-> 0]

\* Nobody has signed in yet.
Init ==
    /\ account \in [Logins -> AccountStatus]
    /\ session = [s \in SessionIds |-> NoSession]
    /\ token = [k \in Tokens |-> NoToken]
    /\ now = 0

-----------------------------------------------------------------------------

\* The token n is new to session s: issued after every other of it.
Fresh(n, s) == ~Issued(n) /\ \A k \in Of(s) : k < n

NewToken(s, at) == [status |-> "Active", session |-> s, next |-> 0, rotated |-> 0, until |-> at + Idle]

\* What k presents can renew its session at that time.
CanRenew(k, at) == Issued(k) /\ Open(token[k].session) /\ at < session[token[k].session].until

\* The live token of a session is traded for a new one.
Renew(k, n, at) ==
    /\ Fresh(n, token[k].session) /\ CanRenew(k, at)
    /\ token[k].status = "Active" /\ at < token[k].until
    /\ token' = [token EXCEPT ![k] = [@ EXCEPT !.status = "Rotated", !.next = n, !.rotated = at],
                              ![n] = NewToken(token[k].session, at)]
    /\ UNCHANGED <<account, session, now>>

\* Faulty form of Reissue: the first replacement stays good as well.
ReissueBoth(k, n, at) ==
    /\ Fresh(n, token[k].session) /\ CanRenew(k, at)
    /\ token[k].status = "Rotated" /\ at < token[k].rotated + Grace
    /\ token[token[k].next].status = "Active"
    /\ token' = [token EXCEPT ![k].next = n, ![n] = NewToken(token[k].session, at)]
    /\ UNCHANGED <<account, session, now>>

\* A token traded moments ago is traded again: its first replacement, unused, is taken back, and the
\* time of the first trade stays.
Reissue(k, n, at) ==
    /\ Fresh(n, token[k].session) /\ CanRenew(k, at)
    /\ token[k].status = "Rotated" /\ at < token[k].rotated + Grace
    /\ token[token[k].next].status = "Active"
    /\ token' = [token EXCEPT ![token[k].next] = [@ EXCEPT !.status = "Revoked"],
                              ![k] = [@ EXCEPT !.next = n],
                              ![n] = NewToken(token[k].session, at)]
    /\ UNCHANGED <<account, session, now>>

Ended(S, how) == [s \in SessionIds |-> IF s \in S THEN [session[s] EXCEPT !.status = how] ELSE session[s]]
Silenced(S) ==
    [k \in Tokens |-> IF token[k].session \in S /\ token[k].status = "Active"
                      THEN [token[k] EXCEPT !.status = "Revoked"] ELSE token[k]]

\* Some open sessions end: someone signs out, or a renewal finds its session over.
End(S, how) ==
    /\ session' = Ended(S, how)
    /\ token' = Silenced(S)
    /\ UNCHANGED <<account, now>>

\* An account is turned off or closed, and open sessions of it end with it.
TurnOff(l, to, S) ==
    /\ account[l] \notin {to, "Deleted"}
    /\ account' = [account EXCEPT ![l] = to]
    /\ session' = Ended(S, "Revoked")
    /\ token' = Silenced(S)
    /\ UNCHANGED now

TurnOn(l) ==
    /\ account[l] = "Inactive"
    /\ account' = [account EXCEPT ![l] = "Active"]
    /\ UNCHANGED <<session, token, now>>

\* A sign-in ends the sessions the browser held before and opens a new one.
SignIn(S, s, l, n, at) ==
    /\ session' = [Ended(S, "SignedOut") EXCEPT ![s] = [status |-> "Active", login |-> l, until |-> at + Lifetime]]
    /\ token' = [Silenced(S) EXCEPT ![n] = NewToken(s, at)]
    /\ UNCHANGED <<account, now>>

Tick == now' = now + 1 /\ UNCHANGED <<account, session, token>>

Next ==
    \/ \E k, n \in Tokens, at \in 0..now : Renew(k, n, at) \/ Reissue(k, n, at)
    \/ \E S \in SUBSET OpenSessions, how \in EndStatus : End(S, how)
    \/ \E l \in Logins, to \in {"Inactive", "Deleted"}, S \in SUBSET OpenSessions :
           (\A s \in S : session[s].login = l) /\ TurnOff(l, to, S)
    \/ \E l \in Logins : TurnOn(l)
    \/ \E s \in {r \in SessionIds : session[r].status = "None"}, n \in {k \in Tokens : ~Issued(k)} :
           \E l \in Logins, at \in 0..now, S \in SUBSET OpenSessions : SignIn(S, s, l, n, at)
    \/ Tick

Spec == Init /\ [][Next]_vars

\* The same from tables that earlier requests left.
Resumed == Inv /\ [][Next]_vars
=============================================================================
