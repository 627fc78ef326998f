----------------------------- MODULE MCSessions -----------------------------
(***************************************************************************)
(* Instances of SessionTx for TLC: two accounts, two sessions open at the  *)
(* start and room for one more, and requests of every kind that meet on    *)
(* them.                                                                   *)
(***************************************************************************)
EXTENDS SessionTx

MCLogins == {1, 2}
MCSessionIds == 1..5
MCTokens == 1..6
MCRows == ({"login"} \X MCLogins) \cup ({"session"} \X MCSessionIds) \cup ({"token"} \X MCTokens)

Ask(kind, l, from, s, k) == [kind |-> kind, login |-> l, from |-> from, session |-> s, token |-> k]

\* Renewals with a traded, a live and a token that may be issued meanwhile; the browser of session 1
\* that signs in or out; the device of session 2; and an administrator.
Renew(k) == Ask("renew", 0, 0, 0, k)
SignIn(l, s, k) == Ask("signIn", l, 0, s, k)
OfDevice2(kind, s) == Ask(kind, 1, 2, s, 0)
OfAccount1(kind) == Ask(kind, 1, 0, 0, 0)

\* Requests that meet on the same sessions, three at a time.
MCGroups == <<
    <<Renew(1), Renew(2), Renew(2), Renew(4), Ask("signOut", 0, 1, 0, 2), OfDevice2("device", 1)>>,
    <<Renew(1), Renew(2), SignIn(1, 2, 2), SignIn(2, 0, 0), OfDevice2("everywhere", 0), OfDevice2("others", 0)>>,
    <<Renew(2), Renew(4), OfDevice2("changePassword", 0), OfAccount1("resetPassword"), OfAccount1("switchOff"), OfAccount1("switchOn")>>,
    <<Renew(2), SignIn(1, 2, 2), OfAccount1("delete"), OfAccount1("signOutUser"), Ask("signOutEveryone", 0, 0, 0, 0), OfAccount1("switchOff")>> >>

MCRequests == 1..3
MCStarts ==
    UNION {{[t \in MCRequests |-> group[f[t]]] : f \in {g \in [MCRequests -> DOMAIN group] : g[1] < g[2] /\ g[2] < g[3]}} :
        group \in {MCGroups[i] : i \in DOMAIN MCGroups}}

None == [status |-> "None", login |-> 0, until |-> 0]
Unissued == [status |-> "None", session |-> 0, next |-> 0, rotated |-> 0, until |-> 0]
Device(l, until) == [status |-> "Active", login |-> l, until |-> until]

\* Token 1 was traded for token 2, the live one of session 1; token 3 is the one of session 2.
Stand(first, second, until, idle) ==
    [r \in MCRows |->
        CASE r = <<"login", 1>> -> first
          [] r = <<"login", 2>> -> "Active"
          [] r = <<"session", 1>> -> Device(1, until)
          [] r = <<"session", 2>> -> Device(second, 3)
          [] r = <<"token", 1>> -> [status |-> "Rotated", session |-> 1, next |-> 2, rotated |-> 0, until |-> 1]
          [] r = <<"token", 2>> -> [status |-> "Active", session |-> 1, next |-> 0, rotated |-> 0, until |-> idle]
          [] r = <<"token", 3>> -> [status |-> "Active", session |-> 2, next |-> 0, rotated |-> 0, until |-> 3]
          [] r[1] = "session" -> None
          [] OTHER -> Unissued]

\* Two devices of one account; two accounts, and a session about to expire; an account just turned off
\* with a session that was opened at that moment, whose token is about to idle out.
MCOpenings == {Stand("Active", 1, 3, 3), Stand("Active", 2, 1, 3), Stand("Inactive", 1, 3, 1)}
=============================================================================
