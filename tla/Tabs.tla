-------------------------------- MODULE Tabs --------------------------------
(***************************************************************************)
(* A browser and the server that renews its session: tabs that share one   *)
(* cookie, and requests and answers that are lost or arrive in any order.  *)
(* The server is Sessions, each renewal at one instant, which SessionTx    *)
(* implements.  The browser is not in the repository: it stores the cookie *)
(* of whichever answer arrived last, and a tab that got no answer asks     *)
(* again.                                                                  *)
(*                                                                         *)
(* The clock stands still while messages travel: a renewal is answered, or *)
(* known to be lost, well within the grace.                                *)
(***************************************************************************)
EXTENDS Sessions, FiniteSets

CONSTANT OpenTabs, Horizon

\* One browser, one session, and some grace (REFRESH_REUSE_GRACE_SECONDS is 30 unless it is set).
ASSUME TabsAssumption ==
    /\ IsFiniteSet(OpenTabs) /\ Horizon \in Nat
    /\ SessionIds = {1} /\ 1 \in Logins /\ 1 \in Tokens
    /\ Grace > 0

VARIABLES
    cookie,     \* the refresh token the browser has; 0 after it was cleared
    tab,        \* each tab: closed, renewed, due to renew, waiting for an answer, or sent to sign in
    sent,       \* requests on their way: the tab and the cookie it sent
    answered,   \* answers on their way: the tab and the cookie it gets, 0 for a refusal
    prompt      \* every lost answer so far was asked for again within the grace

tabVars == <<account, session, token, now, cookie, tab, sent, answered, prompt>>

\* One session, opened just now, in one tab or several.
TabsInit ==
    /\ account = [l \in Logins |-> "Active"]
    /\ session = [s \in SessionIds |-> [status |-> "Active", login |-> 1, until |-> Lifetime]]
    /\ token = [k \in Tokens |-> IF k = 1 THEN NewToken(1, 0)
                                 ELSE NoToken]
    /\ now = 0 /\ cookie = 1
    /\ tab \in [OpenTabs -> {"renewed", "closed"}] /\ \E b \in OpenTabs : tab[b] = "renewed"
    /\ sent = {} /\ answered = {} /\ prompt = TRUE

-----------------------------------------------------------------------------

\* Bound: a tab asks only while there are tokens left for every tab.
Ask(b) ==
    /\ tab[b] = "due" /\ cookie # 0
    /\ Cardinality({k \in Tokens : ~Issued(k)}) > Cardinality(sent)
    /\ tab' = [tab EXCEPT ![b] = "waiting"]
    /\ sent' = sent \cup {[tab |-> b, token |-> cookie]}
    /\ UNCHANGED <<account, session, token, now, cookie, answered, prompt>>

\* Without a cookie there is nothing to ask with.
GiveUp(b) ==
    /\ tab[b] = "due" /\ cookie = 0
    /\ tab' = [tab EXCEPT ![b] = "signedOut"]
    /\ UNCHANGED <<account, session, token, now, cookie, sent, answered, prompt>>

Answer(m, k) ==
    /\ sent' = sent \ {m}
    /\ answered' = answered \cup {[tab |-> m.tab, token |-> k]}
    /\ UNCHANGED <<cookie, tab, prompt>>

\* n is the next token to be issued.
IsNext(n) == \A k \in Tokens : Issued(k) <=> k < n

\* A traded token whose replacement may still be taken back.
InGrace(k) == now < token[k].rotated + Grace /\ token[token[k].next].status = "Active"

\* Faulty form of Reuse: a traded token is never good again.
ReuseAlways(m) ==
    LET k == m.token
    IN  /\ CanRenew(k, now) /\ token[k].status = "Rotated"
        /\ End({token[k].session}, "Revoked")
        /\ Answer(m, 0)

\* The session ends when a traded token comes back and it is not the grace's case.
Reuse(m) ==
    LET k == m.token
    IN  /\ CanRenew(k, now) /\ token[k].status = "Rotated" /\ ~InGrace(k)
        /\ End({token[k].session}, "Revoked")
        /\ Answer(m, 0)

\* The session ends when it, or its live token, has had its time.
Expire(m) ==
    LET k == m.token
    IN  /\ Open(token[k].session)
        /\ ~CanRenew(k, now) \/ (token[k].status = "Active" /\ token[k].until <= now)
        /\ End({token[k].session}, "Expired")
        /\ Answer(m, 0)

\* Nothing changes for a session already over, or a token taken back.
Refuse(m) ==
    LET k == m.token
    IN  /\ ~Open(token[k].session) \/ (CanRenew(k, now) /\ token[k].status = "Revoked")
        /\ Answer(m, 0)
        /\ UNCHANGED vars

Grant(m) ==
    \E n \in Tokens :
        /\ IsNext(n)
        /\ Renew(m.token, n, now) \/ Reissue(m.token, n, now)
        /\ Answer(m, n)

Serve(m) == Grant(m) \/ Reuse(m) \/ Expire(m) \/ Refuse(m)

\* The browser stores the cookie, or clears it, as the answer arrives.
Receive(m) ==
    /\ answered' = answered \ {m}
    /\ cookie' = m.token
    /\ tab' = [tab EXCEPT ![m.tab] = IF m.token = 0 THEN "signedOut" ELSE "renewed"]
    /\ UNCHANGED <<account, session, token, now, sent, prompt>>

\* A request or its answer is lost, and the tab will ask again.
Lose(m) ==
    /\ sent' = sent \ {m} /\ answered' = answered \ {m}
    /\ tab' = [tab EXCEPT ![m.tab] = "due"]
    /\ UNCHANGED <<account, session, token, now, cookie, prompt>>

\* Time passes once everything has arrived: access tokens lapse, and grace is over.
Wait ==
    /\ sent = {} /\ answered = {} /\ now < Horizon
    /\ Tick
    /\ tab' = [b \in OpenTabs |-> IF tab[b] = "renewed" THEN "due" ELSE tab[b]]
    /\ prompt' = (prompt /\ \A b \in OpenTabs : tab[b] = "due" /\ cookie # 0 => token[cookie].status = "Active")
    /\ UNCHANGED <<cookie, sent, answered>>

TabsNext ==
    \/ \E b \in OpenTabs : Ask(b) \/ GiveUp(b)
    \/ \E m \in sent : Serve(m)
    \/ \E m \in answered : Receive(m)
    \/ \E m \in sent \cup answered : Lose(m)
    \/ Wait

TabsSpec == TabsInit /\ [][TabsNext]_tabVars

-----------------------------------------------------------------------------
(* Properties *)

SignedOutUnexpired ==
    \E b \in OpenTabs : tab[b] = "signedOut" /\ \E s \in SessionIds : session[s].status # "Expired"

\* A browser whose session could still be renewed is never sent to the sign-in page while it asks again
\* in time, whatever answers it lost (refresh-token.js: "ending the session there would sign honest
\* people out").
HonestStaySignedIn == prompt => ~SignedOutUnexpired

OneTab == Cardinality({b \in OpenTabs : tab[b] # "closed"}) = 1

\* The same, of a browser with one tab.
OneTabStaysSignedIn == OneTab => HonestStaySignedIn
=============================================================================
