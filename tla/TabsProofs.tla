----------------------------- MODULE TabsProofs -----------------------------
(***************************************************************************)
(* A browser and whatever the network does to its requests keep sessions   *)
(* renewable, and one tab that asks again in time is never sent to sign    *)
(* in while its session could be renewed.                                  *)
(***************************************************************************)
EXTENDS Tabs, SessionsProofs, FiniteSetTheorems

Messages == sent \cup answered

\* A tab that waits has one message on its way, a request or its answer, and no other tab has any.
Correspondence ==
    /\ tab \in [OpenTabs -> {"closed", "renewed", "due", "waiting", "signedOut"}]
    /\ \A m \in Messages : m.tab \in OpenTabs /\ tab[m.tab] = "waiting"
    /\ \A m, n \in sent : m.tab = n.tab => m = n
    /\ \A m, n \in answered : m.tab = n.tab => m = n
    /\ \A m \in sent, n \in answered : m.tab # n.tab
    /\ \A b \in OpenTabs : tab[b] = "waiting" => \E m \in Messages : m.tab = b
    /\ cookie # 0 => cookie \in Tokens /\ Issued(cookie)
    /\ \A m \in sent : m.token \in Tokens /\ Issued(m.token)
    /\ \A m \in answered : m.token # 0 => m.token \in Tokens /\ Issued(m.token)
    /\ prompt \in BOOLEAN

Only(b) == \A c \in OpenTabs : tab[c] # "closed" <=> c = b

Over == session[1].status = "Expired"

\* A token an only tab may hold: the live one of the session, or one it traded just now, got no answer
\* for, and will present again.
Good(k, states, b) ==
    \/ token[k].status = "Active"
    \/ /\ token[k].status = "Rotated" /\ token[k].rotated = now /\ token[token[k].next].status = "Active"
       /\ tab[b] \in states

\* What the only tab of a browser that asks again in time knows: its session was not ended but by its
\* time, and the cookie, or the one about to arrive, renews it.
Honest(b) ==
    /\ Open(1) \/ Over
    /\ cookie = 0 \/ tab[b] = "signedOut" \/ (\E m \in answered : m.token = 0) => Over
    /\ cookie # 0 /\ Open(1) => Good(cookie, {"due", "waiting"}, b)
    /\ \A m \in sent : m.token = cookie
    /\ \A m \in answered : m.token # 0 /\ Open(1) => token[m.token].status = "Active"

TabsInv == Inv /\ Correspondence /\ \A b \in OpenTabs : Only(b) /\ prompt => Honest(b)

\* What the server does to a session, it does as Sessions says.
LEMMA StepsOfSessions == Inv /\ Correspondence /\ [TabsNext]_tabVars => [Next]_vars
<1> SUFFICES ASSUME Inv, Correspondence, [TabsNext]_tabVars PROVE [Next]_vars
  OBVIOUS
<1>1. now \in 0..now
  BY DEF Inv, TypeOK
<1>2. ASSUME NEW m \in sent, Serve(m)
      PROVE  [Next]_vars
  <2>1. m.token \in Tokens
    BY DEF Correspondence
  <2>2. CASE Grant(m)
    BY <1>1, <2>1, <2>2 DEF Grant, Next
  <2>3. CASE Reuse(m)
    BY <2>1, <2>3 DEF Reuse, Next, CanRenew, Open, OpenSessions, EndStatus, Inv, TokensHaveSessions
  <2>4. CASE Expire(m)
    <3>1. token[m.token].session \in SessionIds
      <4>1. Issued(m.token)
        BY DEF Correspondence
      <4> QED
        BY <2>1, <4>1 DEF Inv, TokensHaveSessions
    <3> QED
      BY <2>1, <2>4, <3>1 DEF Expire, Next, Open, OpenSessions, EndStatus
  <2>5. CASE Refuse(m)
    BY <2>5 DEF Refuse
  <2> QED
    BY <1>2, <2>2, <2>3, <2>4, <2>5 DEF Serve
<1>3. CASE Wait
  BY <1>3 DEF Wait, Next
<1> QED
  BY <1>2, <1>3 DEF TabsNext, Ask, GiveUp, Receive, Lose, vars, tabVars

LEMMA InitTabs == TabsInit => TabsInv
<1> SUFFICES ASSUME TabsInit PROVE TabsInv
  OBVIOUS
<1>1. /\ SessionIds = {1} /\ 1 \in Logins /\ 1 \in Tokens /\ Lifetime \in Nat /\ Idle \in Nat
      /\ Tokens \subseteq Nat \ {0}
  BY TabsAssumption, SessionsAssumption
<1>2. /\ session = [s \in {1} |-> [status |-> "Active", login |-> 1, until |-> Lifetime]]
      /\ token = [k \in Tokens |-> IF k = 1 THEN NewToken(1, 0) ELSE NoToken]
      /\ now = 0 /\ cookie = 1 /\ sent = {} /\ answered = {} /\ prompt = TRUE
      /\ account = [l \in Logins |-> "Active"]
  BY <1>1 DEF TabsInit
<1>3. NewToken(1, 0) \in TokenRow /\ NoToken \in TokenRow
  BY <1>1 DEF NewToken, NoToken, TokenRow
<1>4. TypeOK
  BY <1>1, <1>2, <1>3 DEF TypeOK, AccountStatus, SessionRow
<1>5. /\ \A k \in Tokens : k # 1 => token[k] = NoToken
      /\ token[1] = NewToken(1, 0)
      /\ session[1].status = "Active"
  BY <1>1, <1>2
<1>6. /\ \A k \in Tokens : k # 1 => token[k].session = 0 /\ token[k].status = "None"
      /\ token[1].session = 1 /\ token[1].status = "Active"
  BY <1>5 DEF NoToken, NewToken
<1>7. TokensHaveSessions
  BY <1>1, <1>5, <1>6 DEF TokensHaveSessions, Issued
<1>8. OneWayToRenew
  <2>1. Live(1) = {1}
    BY <1>1, <1>6 DEF Live, Of
  <2>2. \A s \in SessionIds : Open(s) /\ \E k \in Tokens : Live(s) = {k}
    BY <1>1, <1>5, <2>1 DEF Open
  <2> QED
    BY <2>2 DEF OneWayToRenew
<1>9. TradesLeadOn /\ EachReplacesOne
  BY <1>6 DEF TradesLeadOn, EachReplacesOne
<1>10. Correspondence
  BY <1>1, <1>2, <1>6 DEF Correspondence, Messages, Issued, TabsInit
<1>11. ASSUME NEW b \in OpenTabs
       PROVE  Honest(b)
  BY <1>1, <1>2, <1>6, TabsInit DEF Honest, Good, Open, TabsInit
<1> QED
  BY <1>4, <1>7, <1>8, <1>9, <1>10, <1>11 DEF TabsInv, Inv

\* Whatever moves, no tab is opened or closed.
LEMMA TabsStay ==
    ASSUME Correspondence, [TabsNext]_tabVars, NEW b \in OpenTabs
    PROVE  Only(b)' <=> Only(b)
<1>1. tab' \in [OpenTabs -> {"closed", "renewed", "due", "waiting", "signedOut"}]
      /\ \A c \in OpenTabs : tab'[c] = "closed" <=> tab[c] = "closed"
  <2>1. ASSUME NEW c \in OpenTabs, Ask(c) \/ GiveUp(c)
        PROVE  <1>1!:
    BY <2>1 DEF Ask, GiveUp, Correspondence
  <2>2. ASSUME NEW m \in sent, Serve(m)
        PROVE  <1>1!:
    BY <2>2 DEF Serve, Grant, Reuse, Expire, Refuse, Answer, Correspondence
  <2>3. ASSUME NEW m \in Messages, Receive(m) \/ Lose(m)
        PROVE  <1>1!:
    BY <2>3 DEF Receive, Lose, Correspondence
  <2>4. CASE Wait
    BY <2>4 DEF Wait, Correspondence
  <2>5. CASE UNCHANGED tabVars
    BY <2>5 DEF tabVars, Correspondence
  <2> QED
    BY <2>1, <2>2, <2>3, <2>4, <2>5 DEF TabsNext, Messages
<1> QED
  BY <1>1 DEF Only

\* A renewal answers with a live token issued at this moment, which the one presented leads to.
LEMMA GrantGives ==
    ASSUME TabsInv, NEW m \in sent, Grant(m)
    PROVE  \E n \in Tokens :
        /\ answered' = answered \cup {[tab |-> m.tab, token |-> n]}
        /\ ~Issued(n) /\ n # m.token /\ token'[n].status = "Active"
        /\ \A k \in Tokens : Issued(k) => Issued(k)'
        /\ token'[m.token].status = "Rotated" /\ token'[m.token].next = n
        /\ token[m.token].status = "Active" => token'[m.token].rotated = now
        /\ token[m.token].status # "Active" => token'[m.token].rotated = token[m.token].rotated
        /\ session' = session /\ now' = now
<1>1. PICK n \in Tokens : IsNext(n) /\ (Renew(m.token, n, now) \/ Reissue(m.token, n, now)) /\ Answer(m, n)
  BY DEF Grant
<1>2. m.token \in Tokens /\ Issued(m.token) /\ ~Issued(n) /\ now \in Nat
  BY <1>1, SessionsAssumption DEF TabsInv, Inv, TypeOK, Correspondence, IsNext
<1>3. \A k \in Tokens : token[k] \in TokenRow
  BY DEF TabsInv, Inv, TypeOK
<1>4. token \in [Tokens -> TokenRow]
  BY DEF TabsInv, Inv, TypeOK
<1>5. CASE Renew(m.token, n, now)
  BY <1>1, <1>2, <1>3, <1>4, <1>5 DEF Renew, Answer, Issued, NewToken, TokenRow
<1>6. CASE Reissue(m.token, n, now)
  <2>1. token[m.token].next \in Tokens /\ m.token < token[m.token].next
    BY <1>2, <1>6 DEF Reissue, TabsInv, Inv, TradesLeadOn, LeadsOn
  <2>2. token[m.token].next # m.token /\ token[m.token].next # n
    BY <1>2, <1>6, <2>1, SessionsAssumption DEF Reissue, Issued
  <2> QED
    BY <1>1, <1>2, <1>3, <1>4, <1>6, <2>1, <2>2 DEF Reissue, Answer, Issued, NewToken, TokenRow
<1> QED
  BY <1>1, <1>5, <1>6

\* The end of the session ends no token's being issued.
LEMMA EndsKeepIssued ==
    ASSUME TabsInv, NEW S \in SUBSET SessionIds, NEW how, End(S, how)
    PROVE  (\A k \in Tokens : Issued(k) => Issued(k)') /\ now' = now
BY DEF TabsInv, Inv, TypeOK, TokenRow, End, Silenced, Issued

\* A token stays issued.
LEMMA IssuedStays ==
    ASSUME TabsInv, [TabsNext]_tabVars, NEW k \in Tokens, Issued(k)
    PROVE  Issued(k)'
<1>1. CASE token' = token
  BY <1>1 DEF Issued
<1>2. ASSUME NEW m \in sent, Serve(m)
      PROVE  Issued(k)'
  <2>1. m.token \in Tokens /\ Issued(m.token)
    BY DEF TabsInv, Correspondence
  <2>2. token[m.token].session \in SessionIds
    BY <2>1 DEF TabsInv, Inv, TokensHaveSessions
  <2>3. CASE Grant(m)
    BY <2>3, GrantGives
  <2>4. CASE Reuse(m)
    BY <2>2, <2>4, EndsKeepIssued DEF Reuse
  <2>5. CASE Expire(m)
    BY <2>2, <2>5, EndsKeepIssued DEF Expire
  <2>6. CASE Refuse(m)
    BY <2>6 DEF Refuse, vars, Issued
  <2> QED
    BY <1>2, <2>3, <2>4, <2>5, <2>6 DEF Serve
<1> QED
  BY <1>1, <1>2 DEF TabsNext, tabVars, Ask, GiveUp, Receive, Lose, Wait, Tick

\* Messages and the tabs that wait for them go on belonging together.
LEMMA CorrespondenceStays == TabsInv /\ [TabsNext]_tabVars => Correspondence'
<1> SUFFICES ASSUME TabsInv, [TabsNext]_tabVars PROVE Correspondence'
  OBVIOUS
<1>1. \A k \in Tokens : Issued(k) => Issued(k)'
  BY IssuedStays
<1>2. Correspondence
  BY DEF TabsInv
<1>3. 0 \notin Tokens
  BY SessionsAssumption
<1>4. ASSUME NEW b \in OpenTabs, Ask(b)
      PROVE  Correspondence'
  <2> DEFINE a == [tab |-> b, token |-> cookie]
  <2>1. /\ sent' = sent \cup {a} /\ answered' = answered /\ tab' = [tab EXCEPT ![b] = "waiting"]
        /\ cookie' = cookie /\ prompt' = prompt /\ a.tab = b /\ a.token = cookie /\ cookie # 0 /\ tab[b] = "due"
    BY <1>4 DEF Ask
  <2> HIDE DEF a
  <2>2. \A n \in Messages : n.tab # b
    BY <1>2, <2>1 DEF Correspondence
  <2>3. ASSUME NEW c \in OpenTabs, tab'[c] = "waiting"
        PROVE  \E n \in Messages' : n.tab = c
    BY <1>2, <2>1, <2>3 DEF Correspondence, Messages
  <2> QED
    BY <1>1, <1>2, <2>1, <2>2, <2>3 DEF Correspondence, Messages
<1>5. ASSUME NEW b \in OpenTabs, GiveUp(b)
      PROVE  Correspondence'
  BY <1>1, <1>2, <1>5 DEF GiveUp, Correspondence, Messages
<1>6. ASSUME NEW m \in sent, NEW k, Answer(m, k), k # 0 => k \in Tokens /\ Issued(k)'
      PROVE  Correspondence'
  <2> DEFINE a == [tab |-> m.tab, token |-> k]
  <2>1. /\ sent' = sent \ {m} /\ answered' = answered \cup {a} /\ tab' = tab /\ cookie' = cookie /\ prompt' = prompt
        /\ a.tab = m.tab /\ a.token = k
    BY <1>6 DEF Answer
  <2> HIDE DEF a
  <2>2. /\ m \in Messages
        /\ \A n \in answered : n.tab # a.tab
        /\ \A n \in sent \ {m} : n.tab # a.tab
    BY <1>2, <2>1 DEF Correspondence, Messages
  <2>3. \A b \in OpenTabs : tab[b] = "waiting" => \E n \in Messages' : n.tab = b
    <3> SUFFICES ASSUME NEW b \in OpenTabs, tab[b] = "waiting" PROVE \E n \in Messages' : n.tab = b
      OBVIOUS
    <3>1. PICK n \in Messages : n.tab = b
      BY <1>2 DEF Correspondence
    <3> QED
      BY <2>1, <3>1 DEF Messages
  <2> QED
    BY <1>1, <1>2, <1>6, <2>1, <2>2, <2>3 DEF Correspondence, Messages
<1>7. ASSUME NEW m \in sent, Serve(m)
      PROVE  Correspondence'
  <2>1. CASE Grant(m)
    <3>1. PICK n \in Tokens : Answer(m, n) /\ (Renew(m.token, n, now) \/ Reissue(m.token, n, now))
      BY <2>1 DEF Grant
    <3>2. token'[n].status = "Active"
      BY <3>1 DEF Renew, Reissue, NewToken, TabsInv, Inv, TypeOK
    <3> QED
      BY <1>6, <3>1, <3>2 DEF Issued
  <2>2. CASE Reuse(m) \/ Expire(m) \/ Refuse(m)
    BY <1>6, <2>2 DEF Reuse, Expire, Refuse
  <2> QED
    BY <1>7, <2>1, <2>2 DEF Serve
<1>8. ASSUME NEW m \in answered, Receive(m)
      PROVE  Correspondence'
  BY <1>1, <1>2, <1>8 DEF Receive, Correspondence, Messages
<1>9. ASSUME NEW m \in Messages, Lose(m)
      PROVE  Correspondence'
  BY <1>1, <1>2, <1>9 DEF Lose, Correspondence, Messages
<1>10. CASE Wait
  BY <1>1, <1>2, <1>10 DEF Wait, Correspondence, Messages
<1>11. CASE UNCHANGED tabVars
  BY <1>1, <1>2, <1>11 DEF tabVars, Correspondence, Messages
<1> QED
  BY <1>4, <1>5, <1>7, <1>8, <1>9, <1>10, <1>11 DEF TabsNext, Messages

\* With one tab there is one message at most.
LEMMA OneMessage ==
    ASSUME TabsInv, NEW b \in OpenTabs, Only(b)
    PROVE  /\ \A m \in Messages : m.tab = b
           /\ \A m \in sent : sent = {m} /\ answered = {}
           /\ \A m \in answered : answered = {m} /\ sent = {}
           /\ Messages # {} => tab[b] = "waiting"
<1>1. \A m \in Messages : m.tab = b
  BY DEF TabsInv, Correspondence, Only
<1> QED
  BY <1>1 DEF TabsInv, Correspondence, Messages

\* The one tab's request is answered with a live token while its session has time left.
LEMMA HonestServed ==
    ASSUME TabsInv, NEW b \in OpenTabs, Only(b), Honest(b), NEW m \in sent, Serve(m)
    PROVE  Honest(b)'
<1>1. /\ sent = {m} /\ answered = {} /\ tab[b] = "waiting" /\ m.token = cookie
      /\ m.token \in Tokens /\ Issued(m.token) /\ m.token # 0
  BY OneMessage, SessionsAssumption DEF TabsInv, Correspondence, Honest, Messages
<1>2. token[m.token].session = 1
  BY <1>1, TabsAssumption DEF TabsInv, Inv, TokensHaveSessions
<1>3. sent' = {} /\ tab' = tab /\ cookie' = cookie
  BY <1>1 DEF Serve, Grant, Reuse, Expire, Refuse, Answer
<1>4. session[1] \in SessionRow /\ token[m.token] \in TokenRow /\ now \in Nat
  BY <1>1, TabsAssumption DEF TabsInv, Inv, TypeOK
<1>5. CASE Grant(m)
  <2>1. PICK n \in Tokens :
            /\ answered' = answered \cup {[tab |-> m.tab, token |-> n]}
            /\ ~Issued(n) /\ n # m.token /\ token'[n].status = "Active"
            /\ \A k \in Tokens : Issued(k) => Issued(k)'
            /\ token'[m.token].status = "Rotated" /\ token'[m.token].next = n
            /\ token[m.token].status = "Active" => token'[m.token].rotated = now
            /\ token[m.token].status # "Active" => token'[m.token].rotated = token[m.token].rotated
            /\ session' = session /\ now' = now
    BY <1>5, GrantGives
  <2>2. Open(1)
    BY <1>2, <1>5 DEF Grant, Renew, Reissue, CanRenew
  <2>3. Good(m.token, {"due", "waiting"}, b)
    BY <1>1, <2>2 DEF Honest
  <2>4. Good(m.token, {"due", "waiting"}, b)'
    BY <1>1, <1>3, <2>1, <2>3 DEF Good
  <2>5. n # 0 /\ answered' = {[tab |-> m.tab, token |-> n]}
    BY <1>1, <2>1, SessionsAssumption
  <2>6. \A a \in answered' : a.token = n
    BY <2>5
  <2> QED
    BY <1>1, <1>3, <2>1, <2>2, <2>4, <2>5, <2>6 DEF Honest, Open
<1>6. CASE Reuse(m)
  <2>1. Open(1) /\ token[m.token].status = "Rotated" /\ ~InGrace(m.token)
    BY <1>2, <1>6 DEF Reuse, CanRenew
  <2>2. Good(m.token, {"due", "waiting"}, b)
    BY <1>1, <2>1 DEF Honest
  <2>3. now < now + Grace
    BY <1>4, TabsAssumption, SessionsAssumption
  <2> QED
    BY <2>1, <2>2, <2>3 DEF Good, InGrace
<1>7. CASE Expire(m)
  <2>1. session'[1].status = "Expired" /\ now' = now
    BY <1>2, <1>4, <1>7, TabsAssumption DEF Expire, End, Ended, SessionRow
  <2> QED
    BY <1>1, <1>3, <2>1 DEF Honest, Open, Over
<1>8. CASE Refuse(m)
  <2>1. session' = session /\ token' = token /\ now' = now
    BY <1>8 DEF Refuse, vars
  <2>2. Over
    <3>1. CASE ~Open(1)
      BY <3>1 DEF Honest
    <3>2. CASE Open(1) /\ token[m.token].status = "Revoked"
      BY <1>1, <3>2 DEF Honest, Good
    <3> QED
      BY <1>2, <1>8, <3>1, <3>2 DEF Refuse
  <2>3. session'[1].status = "Expired"
    BY <2>1, <2>2 DEF Over
  <2> QED
    BY <1>1, <1>3, <2>3 DEF Honest, Open, Over
<1> QED
  BY <1>5, <1>6, <1>7, <1>8 DEF Serve

\* Nothing else ends the session or wastes the tab's cookie, as long as the tab asks again in time.
LEMMA HonestStays ==
    ASSUME TabsInv, [TabsNext]_tabVars, NEW b \in OpenTabs, Only(b), prompt', prompt => Honest(b)
    PROVE  Honest(b)'
<1>1. prompt
  BY DEF TabsNext, tabVars, Ask, GiveUp, Serve, Grant, Reuse, Expire, Refuse, Answer, Receive, Lose, Wait
<1>2. Honest(b) /\ Correspondence
  BY <1>1 DEF TabsInv
<1>3. \A c \in OpenTabs : c # b => tab[c] = "closed"
  BY DEF Only
<1>4. ASSUME NEW c \in OpenTabs, Ask(c)
      PROVE  Honest(b)'
  <2>1. c = b /\ tab' = [tab EXCEPT ![b] = "waiting"] /\ tab[b] = "due"
    BY <1>3, <1>4 DEF Ask
  <2>2. sent = {} /\ answered = {}
    BY <2>1, OneMessage DEF Messages
  <2>3. /\ sent' = {[tab |-> b, token |-> cookie]} /\ answered' = {} /\ cookie' = cookie /\ tab'[b] = "waiting"
        /\ session' = session /\ token' = token /\ now' = now
    BY <1>2, <1>4, <2>1, <2>2 DEF Ask, Correspondence
  <2> QED
    BY <1>2, <2>1, <2>3 DEF Honest, Good, Open, Over
<1>5. ASSUME NEW c \in OpenTabs, GiveUp(c)
      PROVE  Honest(b)'
  <2>1. c = b /\ tab' = [tab EXCEPT ![b] = "signedOut"] /\ cookie = 0
    BY <1>3, <1>5 DEF GiveUp
  <2> QED
    BY <1>2, <1>5, <2>1 DEF GiveUp, Honest, Good, Open, Over
<1>6. ASSUME NEW m \in sent, Serve(m)
      PROVE  Honest(b)'
  BY <1>2, <1>6, HonestServed
<1>7. ASSUME NEW m \in answered, Receive(m)
      PROVE  Honest(b)'
  <2>1. answered = {m} /\ sent = {} /\ m.tab = b
    BY OneMessage DEF Messages
  <2>2. /\ answered' = {} /\ sent' = {} /\ cookie' = m.token /\ tab'[b] = IF m.token = 0 THEN "signedOut" ELSE "renewed"
        /\ session' = session /\ token' = token /\ now' = now
    BY <1>2, <1>7, <2>1 DEF Receive, Correspondence
  <2> QED
    BY <1>2, <2>1, <2>2 DEF Honest, Good, Open, Over
<1>8. ASSUME NEW m \in Messages, Lose(m)
      PROVE  Honest(b)'
  <2>1. m.tab = b /\ tab[b] = "waiting" /\ tab' = [tab EXCEPT ![b] = "due"]
    BY <1>8, OneMessage DEF Lose
  <2>2. tab'[b] = "due" /\ sent' \subseteq sent /\ answered' \subseteq answered /\ cookie' = cookie
        /\ session' = session /\ token' = token /\ now' = now
    BY <1>2, <1>8, <2>1 DEF Lose, Correspondence
  <2> QED
    BY <1>2, <2>1, <2>2 DEF Honest, Good, Open, Over
<1>9. CASE Wait
  <2>1. /\ sent = {} /\ answered = {} /\ sent' = {} /\ answered' = {} /\ cookie' = cookie
        /\ session' = session /\ token' = token
        /\ tab'[b] = IF tab[b] = "renewed" THEN "due" ELSE tab[b]
        /\ tab[b] = "due" /\ cookie # 0 => token[cookie].status = "Active"
    BY <1>9 DEF Wait, Tick
  <2>2. tab[b] # "waiting"
    BY <1>2, <2>1 DEF Correspondence, Messages
  <2>3. cookie # 0 /\ Open(1) => token[cookie].status = "Active"
    BY <1>2, <2>1, <2>2 DEF Honest, Good
  <2> QED
    BY <1>2, <2>1, <2>3 DEF Honest, Good, Open, Over
<1>10. CASE UNCHANGED tabVars
  BY <1>2, <1>10 DEF tabVars, Honest, Good, Open, Over
<1> QED
  BY <1>4, <1>5, <1>6, <1>7, <1>8, <1>9, <1>10 DEF TabsNext, Messages

LEMMA NextTabs == TabsInv /\ [TabsNext]_tabVars => TabsInv'
<1> SUFFICES ASSUME TabsInv, [TabsNext]_tabVars PROVE TabsInv'
  OBVIOUS
<1>1. Inv' /\ Correspondence'
  BY StepsOfSessions, NextKeepsInv, CorrespondenceStays DEF TabsInv
<1>2. ASSUME NEW b \in OpenTabs, Only(b)', prompt'
      PROVE  Honest(b)'
  <2>1. Only(b)
    BY <1>2, TabsStay DEF TabsInv
  <2> QED
    BY <1>2, <2>1, HonestStays DEF TabsInv
<1> QED
  BY <1>1, <1>2 DEF TabsInv

\* However a browser's tabs renew at once and whatever is lost on the way, an open session has exactly
\* one token that renews it (refresh-token.js).
THEOREM BrowsersKeepSessions == TabsSpec => []Inv
<1>1. TabsInv => Inv
  BY DEF TabsInv
<1> QED
  BY <1>1, InitTabs, NextTabs, PTL DEF TabsSpec

\* One tab that asks again within the grace is never sent to sign in while its session could be renewed,
\* whatever requests and answers it lost (refresh-token.js, the grace reissue).
THEOREM LoneTabStaysSignedIn == TabsSpec => []OneTabStaysSignedIn
<1>1. ASSUME TabsInv, OneTab, prompt
      PROVE  ~SignedOutUnexpired
  <2> DEFINE there == {c \in OpenTabs : tab[c] # "closed"}
  <2>1. IsFiniteSet(there)
    BY TabsAssumption, FS_Subset
  <2>2. PICK b : there = {b}
    BY <1>1, <2>1, FS_Singleton DEF OneTab
  <2>3. b \in OpenTabs /\ Only(b)
    BY <2>2 DEF Only
  <2>4. Honest(b)
    BY <1>1, <2>3 DEF TabsInv
  <2> QED
    BY <2>3, <2>4, TabsAssumption DEF SignedOutUnexpired, Honest, Only, Over
<1>2. TabsInv => OneTabStaysSignedIn
  BY <1>1 DEF OneTabStaysSignedIn, HonestStaySignedIn
<1> QED
  BY <1>2, InitTabs, NextTabs, PTL DEF TabsSpec
=============================================================================
