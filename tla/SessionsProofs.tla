--------------------------- MODULE SessionsProofs ---------------------------
(***************************************************************************)
(* Sessions keep their invariant, for any accounts, sessions, tokens and   *)
(* durations: an open session always has exactly one token that renews it. *)
(***************************************************************************)
EXTENDS Sessions, TLAPS

\* The live token of a session is the only one, and its session is open.
LEMMA TheLiveToken ==
    ASSUME Inv, NEW c \in Tokens, token[c].status = "Active"
    PROVE  /\ token[c].session \in SessionIds
           /\ Open(token[c].session)
           /\ \A j \in Tokens : token[j].session = token[c].session /\ token[j].status = "Active" => j = c
<1>1. token[c].session \in SessionIds
  BY DEF Inv, TokensHaveSessions, Issued
<1>2. c \in Live(token[c].session)
  BY DEF Live, Of
<1> QED
  BY <1>1, <1>2 DEF Inv, OneWayToRenew, Live, Of

\* What trading k for n does: c, the live token of its session, is k itself or is what k led to and is
\* taken back.
Trades(k, c, n, rotated, at) ==
    /\ rotated \in Nat /\ at \in Nat
    /\ Fresh(n, token[k].session)
    /\ token[c].status = "Active" /\ token[c].session = token[k].session
    /\ c = k \/ (token[k].status = "Rotated" /\ token[k].next = c)
    /\ token' = [j \in Tokens |->
                    CASE j = n -> NewToken(token[k].session, at)
                      [] j = k /\ j # n -> [token[k] EXCEPT !.status = "Rotated", !.next = n, !.rotated = rotated]
                      [] j = c /\ j # n /\ j # k -> [token[c] EXCEPT !.status = "Revoked"]
                      [] OTHER -> token[j]]
    /\ UNCHANGED <<account, session, now>>

LEMMA TradesKeepInv ==
    ASSUME Inv, NEW k \in Tokens, NEW c \in Tokens, NEW n \in Tokens, NEW rotated, NEW at, Trades(k, c, n, rotated, at)
    PROVE  Inv'
<1> PICK s : s = token[k].session
  OBVIOUS
<1>1. /\ s \in SessionIds /\ Open(s) /\ ~Issued(n) /\ n # k /\ n # c /\ token[c].session = s
      /\ \A j \in Tokens : token[j].session = s => j < n
      /\ \A j \in Tokens : token[j].session = s /\ token[j].status = "Active" => j = c
  BY TheLiveToken DEF Trades, Fresh, Issued, Of
<1>2. /\ token'[n] = NewToken(s, at)
      /\ token'[k] = [token[k] EXCEPT !.status = "Rotated", !.next = n, !.rotated = rotated]
      /\ c # k => token'[c] = [token[c] EXCEPT !.status = "Revoked"]
      /\ \A j \in Tokens \ {c, n, k} : token'[j] = token[j]
  BY <1>1 DEF Trades
<1>3. TypeOK'
  <2>1. NewToken(s, at) \in TokenRow
    BY <1>1, SessionsAssumption DEF NewToken, TokenRow, Trades
  <2>2. \A j \in Tokens : token[j] \in TokenRow
    BY DEF Inv, TypeOK
  <2>3. \A j \in Tokens : token'[j] \in TokenRow
    BY <1>2, <2>1, <2>2 DEF Trades, TokenRow
  <2> QED
    BY <2>3 DEF Trades, Inv, TypeOK
<1>4. \A j \in Tokens : token[j] \in TokenRow
  BY DEF Inv, TypeOK
<1>5. \A j \in Tokens :
         /\ token'[j].session = IF j = n THEN s ELSE token[j].session
         /\ token'[j].status = "Active" <=> j = n \/ (token[j].status = "Active" /\ j # c)
         /\ Issued(j)' <=> Issued(j) \/ j = n
  BY <1>1, <1>2, <1>4 DEF Issued, NewToken, TokenRow, Trades
<1>6. session' = session
  BY DEF Trades
<1>7. TokensHaveSessions'
  BY <1>1, <1>5, <1>6 DEF TokensHaveSessions, Inv, Open
<1>8. OneWayToRenew'
  <2>1. \A r \in SessionIds : Open(r)' <=> Open(r)
    BY <1>6 DEF Open
  <2>2. Live(s)' = {n}
    BY <1>1, <1>5 DEF Live, Of
  <2>3. ASSUME NEW r \in SessionIds, r # s
        PROVE  Live(r)' = Live(r)
    BY <1>1, <1>5, <2>3 DEF Live, Of, Issued
  <2>4. \A r \in SessionIds : IF Open(r) THEN \E j \in Tokens : Live(r) = {j} ELSE Live(r) = {}
    BY DEF OneWayToRenew, Inv
  <2>5. \A r \in SessionIds : IF Open(r)' THEN \E j \in Tokens : Live(r)' = {j} ELSE Live(r)' = {}
    BY <1>1, <2>1, <2>2, <2>3, <2>4
  <2> QED
    BY <2>5 DEF OneWayToRenew
<1>9. ASSUME NEW j \in Tokens, token'[j].status = "Rotated", j # k
      PROVE  /\ token'[j] = token[j] /\ token[j].status = "Rotated"
             /\ token[j].next # n /\ (c # k => token[j].next # c)
  <2>1. j # n /\ j # c /\ token'[j] = token[j]
    BY <1>2, <1>4, <1>9, <1>1 DEF NewToken, TokenRow
  <2>2. token[j].status = "Rotated"
    BY <1>9, <2>1
  <2>3. token[j].next # n
    BY <1>1, <2>2 DEF Inv, TradesLeadOn, LeadsOn
  <2>4. c # k => token[j].next # c
    BY <1>9, <2>2 DEF Inv, EachReplacesOne, Trades
  <2> QED
    BY <2>1, <2>2, <2>3, <2>4
<1>10. TradesLeadOn'
  <2>1. ASSUME NEW j \in Tokens, token'[j].status = "Rotated", j # k
        PROVE  LeadsOn(j)'
    <3> DEFINE m == token[j].next
    <3>1. /\ m \in Tokens /\ j < m /\ Issued(m) /\ token[m].session = token[j].session
          /\ Open(token[j].session) => token[m].status # "Revoked"
      BY <1>9, <2>1 DEF Inv, TradesLeadOn, LeadsOn
    <3>2. /\ token'[j] = token[j] /\ m # n /\ (c # k => m # c)
      BY <1>9, <2>1
    <3>3. token'[m].status = token[m].status \/ token'[m].status = "Rotated"
      <4>1. CASE m = k
        BY <1>2, <1>4, <4>1 DEF TokenRow
      <4>2. CASE m # k
        BY <1>2, <3>1, <3>2, <4>2
      <4> QED
        BY <4>1, <4>2
    <3> QED
      BY <1>1, <1>5, <1>6, <3>1, <3>2, <3>3 DEF Open, LeadsOn
  <2>2. /\ token'[k].next = n /\ k < n /\ Issued(n)' /\ token'[n].session = token'[k].session
        /\ token'[n].status # "Revoked"
    BY <1>1, <1>2, <1>4, <1>5 DEF TokenRow, NewToken
  <2> QED
    BY <1>5, <2>1, <2>2 DEF TradesLeadOn, LeadsOn
<1>11. EachReplacesOne'
  <2>1. token'[k].next = n
    BY <1>2, <1>4 DEF TokenRow
  <2> QED
    BY <1>9, <2>1 DEF Inv, EachReplacesOne
<1> QED
  BY <1>3, <1>7, <1>8, <1>10, <1>11 DEF Inv

LEMMA RenewKeepsInv ==
    ASSUME Inv, NEW k \in Tokens, NEW n \in Tokens, NEW at \in 0..now, Renew(k, n, at)
    PROVE  Inv'
<1>1. n # k /\ at \in Nat
  BY DEF Renew, Fresh, Issued, Inv, TypeOK
<1>2. Trades(k, k, n, at, at)
  BY <1>1 DEF Renew, Trades, CanRenew, Inv, TypeOK
<1> QED
  BY <1>2, TradesKeepInv

LEMMA ReissueKeepsInv ==
    ASSUME Inv, NEW k \in Tokens, NEW n \in Tokens, NEW at \in 0..now, Reissue(k, n, at)
    PROVE  Inv'
<1> DEFINE c == token[k].next
<1>1. c \in Tokens /\ k < c /\ token[c].session = token[k].session
  BY DEF Reissue, Inv, TradesLeadOn, LeadsOn
<1>2. n # k /\ n # c /\ c # k /\ at \in Nat /\ token[k].rotated \in Nat
  BY <1>1, SessionsAssumption DEF Reissue, Fresh, Issued, Inv, TypeOK, TokenRow
<1>3. [token[k] EXCEPT !.next = n] = [token[k] EXCEPT !.status = "Rotated", !.next = n, !.rotated = token[k].rotated]
  BY DEF Reissue, Inv, TypeOK, TokenRow
<1>4. Trades(k, c, n, token[k].rotated, at)
  BY <1>1, <1>2, <1>3 DEF Reissue, Trades, Inv, TypeOK
<1> QED
  BY <1>1, <1>4, TradesKeepInv

\* Ending sessions, whatever becomes of the account.
LEMMA EndingKeepsInv ==
    ASSUME Inv, NEW S \in SUBSET OpenSessions, NEW how \in EndStatus,
           account' \in [Logins -> AccountStatus], now' = now,
           session' = Ended(S, how), token' = Silenced(S)
    PROVE  Inv'
<1>1. \A s \in SessionIds : session[s] \in SessionRow
  BY DEF Inv, TypeOK
<1>2. \A k \in Tokens : token[k] \in TokenRow
  BY DEF Inv, TypeOK
<1>3. /\ \A s \in SessionIds : session'[s] \in SessionRow
      /\ \A k \in Tokens : token'[k] \in TokenRow
  BY <1>1, <1>2 DEF Ended, Silenced, SessionRow, TokenRow
<1>4. TypeOK'
  BY <1>3 DEF Inv, TypeOK, Ended, Silenced
<1>5. \A s \in SessionIds :
         /\ Open(s)' <=> Open(s) /\ s \notin S
         /\ session'[s].status = "None" <=> session[s].status = "None"
  BY <1>1 DEF Ended, Open, OpenSessions, SessionRow, EndStatus
<1>6. \A k \in Tokens :
         /\ token'[k].session = token[k].session /\ token'[k].next = token[k].next
         /\ Issued(k)' <=> Issued(k)
         /\ token'[k].status = "Rotated" <=> token[k].status = "Rotated"
         /\ token'[k].status = "Active" <=> token[k].status = "Active" /\ token[k].session \notin S
         /\ token[k].session \notin S => token'[k] = token[k]
  BY <1>2 DEF Silenced, TokenRow, Issued
<1>7. TokensHaveSessions'
  BY <1>5, <1>6 DEF Inv, TokensHaveSessions
<1>8. OneWayToRenew'
  <2>1. ASSUME NEW s \in SessionIds
        PROVE  Live(s)' = IF s \in S THEN {} ELSE Live(s)
    BY <1>6 DEF Live, Of
  <2> QED
    BY <1>5, <2>1 DEF Inv, OneWayToRenew
<1>9. TradesLeadOn'
  <2> SUFFICES ASSUME NEW k \in Tokens, token'[k].status = "Rotated"
               PROVE  LeadsOn(k)'
    BY DEF TradesLeadOn
  <2>1. /\ token[k].next \in Tokens /\ k < token[k].next /\ Issued(token[k].next)
        /\ token[token[k].next].session = token[k].session
        /\ Open(token[k].session) => token[token[k].next].status # "Revoked"
    BY <1>6 DEF Inv, TradesLeadOn, LeadsOn
  <2>2. token[k].session \in SessionIds
    BY <1>6 DEF Inv, TokensHaveSessions, Issued
  <2> QED
    BY <1>5, <1>6, <2>1, <2>2 DEF LeadsOn
<1>10. EachReplacesOne'
  BY <1>6 DEF Inv, EachReplacesOne
<1> QED
  BY <1>4, <1>7, <1>8, <1>9, <1>10 DEF Inv

\* A new session, and its first token, next to those there are.
LEMMA OpeningKeepsInv ==
    ASSUME Inv, NEW S \in SUBSET OpenSessions, NEW s \in SessionIds, session[s].status = "None",
           NEW n \in Tokens, ~Issued(n), NEW l \in Logins, NEW at \in 0..now, SignIn(S, s, l, n, at)
    PROVE  Inv'
<1> DEFINE new == [status |-> "Active", login |-> l, until |-> at + Lifetime]
<1>1. /\ at \in Nat /\ s \notin S /\ s # 0
      /\ new \in SessionRow /\ NewToken(s, at) \in TokenRow
  BY SessionsAssumption DEF Inv, TypeOK, OpenSessions, Open, SessionRow, TokenRow, NewToken
<1>2. /\ \A r \in SessionIds : session[r] \in SessionRow
      /\ \A k \in Tokens : token[k] \in TokenRow
  BY DEF Inv, TypeOK
<1>3. /\ session'[s] = new /\ \A r \in SessionIds \ {s} : session'[r] = Ended(S, "SignedOut")[r]
      /\ token'[n] = NewToken(s, at) /\ \A k \in Tokens \ {n} : token'[k] = Silenced(S)[k]
  BY DEF SignIn, Ended, Silenced
<1>4. TypeOK'
  <2>1. \A r \in SessionIds : session'[r] \in SessionRow
    BY <1>1, <1>2, <1>3 DEF Ended, SessionRow, EndStatus
  <2>2. \A k \in Tokens : token'[k] \in TokenRow
    BY <1>1, <1>2, <1>3 DEF Silenced, TokenRow
  <2> QED
    BY <2>1, <2>2 DEF SignIn, Ended, Silenced, Inv, TypeOK
<1>5. \A r \in SessionIds :
         /\ Open(r)' <=> r = s \/ (Open(r) /\ r \notin S)
         /\ session'[r].status = "None" => session[r].status = "None"
         /\ session'[s].status # "None"
  <2> SUFFICES ASSUME NEW r \in SessionIds
               PROVE  /\ Open(r)' <=> r = s \/ (Open(r) /\ r \notin S)
                      /\ session'[r].status = "None" => session[r].status = "None"
    BY <1>1, <1>3
  <2>1. CASE r = s
    BY <1>1, <1>3, <2>1 DEF Open
  <2>2. CASE r # s /\ r \in S
    <3>1. session'[r] = [session[r] EXCEPT !.status = "SignedOut"]
      BY <1>3, <2>2 DEF Ended
    <3> QED
      BY <1>2, <2>2, <3>1 DEF Open, SessionRow
  <2>3. CASE r # s /\ r \notin S
    <3>1. session'[r] = session[r]
      BY <1>3, <2>3 DEF Ended
    <3> QED
      BY <2>3, <3>1 DEF Open
  <2> QED
    BY <2>1, <2>2, <2>3
<1>6. /\ token'[n].session = s /\ token'[n].status = "Active" /\ Issued(n)'
      /\ \A k \in Tokens \ {n} :
            /\ token'[k].session = token[k].session /\ token'[k].next = token[k].next
            /\ Issued(k)' <=> Issued(k)
            /\ token'[k].status = "Rotated" <=> token[k].status = "Rotated"
            /\ token'[k].status = "Active" <=> token[k].status = "Active" /\ token[k].session \notin S
            /\ token[k].session \notin S => token'[k] = token[k]
  <2>1. token'[n].session = s /\ token'[n].status = "Active" /\ Issued(n)'
    BY <1>3 DEF Issued, NewToken
  <2>2. ASSUME NEW k \in Tokens \ {n}, token[k].session \in S, token[k].status = "Active"
        PROVE  token'[k] = [token[k] EXCEPT !.status = "Revoked"]
    BY <1>3, <2>2 DEF Silenced
  <2>3. ASSUME NEW k \in Tokens \ {n}, ~(token[k].session \in S /\ token[k].status = "Active")
        PROVE  token'[k] = token[k]
    BY <1>3, <2>3 DEF Silenced
  <2> QED
    BY <1>2, <2>1, <2>2, <2>3 DEF TokenRow, Issued
<1>7. \A k \in Tokens : token[k].session # s
  BY <1>1 DEF Inv, TokensHaveSessions
<1>8. TokensHaveSessions'
  BY <1>5, <1>6 DEF Inv, TokensHaveSessions
<1>9. OneWayToRenew'
  <2>1. Live(s)' = {n}
    BY <1>6, <1>7 DEF Live, Of
  <2>2. ASSUME NEW r \in SessionIds, r # s
        PROVE  Live(r)' = IF r \in S THEN {} ELSE Live(r)
    BY <1>6, <2>2 DEF Live, Of, Issued
  <2> QED
    BY <1>5, <2>1, <2>2 DEF Inv, OneWayToRenew
<1>10. TradesLeadOn'
  <2> SUFFICES ASSUME NEW k \in Tokens, token'[k].status = "Rotated"
               PROVE  LeadsOn(k)'
    BY DEF TradesLeadOn
  <2>1. k # n /\ token[k].status = "Rotated"
    BY <1>6
  <2>2. /\ token[k].next \in Tokens /\ k < token[k].next /\ Issued(token[k].next)
        /\ token[token[k].next].session = token[k].session
        /\ Open(token[k].session) => token[token[k].next].status # "Revoked"
    BY <2>1 DEF Inv, TradesLeadOn, LeadsOn
  <2>3. token[k].session \in SessionIds /\ token[k].next # n
    BY <2>1, <2>2 DEF Inv, TokensHaveSessions, Issued
  <2> QED
    BY <1>5, <1>6, <1>7, <2>1, <2>2, <2>3 DEF LeadsOn
<1>11. EachReplacesOne'
  BY <1>6 DEF Inv, EachReplacesOne
<1> QED
  BY <1>4, <1>8, <1>9, <1>10, <1>11 DEF Inv

\* Turning an account on, and the clock, touch no session.
LEMMA OthersKeepInv ==
    ASSUME Inv, session' = session, token' = token, account' \in [Logins -> AccountStatus], now' \in Nat
    PROVE  Inv'
BY DEF Inv, TypeOK, TokensHaveSessions, OneWayToRenew, TradesLeadOn, LeadsOn, EachReplacesOne, Open, Live, Of, Issued

LEMMA NextKeepsInv == Inv /\ [Next]_vars => Inv'
<1> SUFFICES ASSUME Inv, [Next]_vars PROVE Inv'
  OBVIOUS
<1>1. ASSUME NEW k \in Tokens, NEW n \in Tokens, NEW at \in 0..now, Renew(k, n, at) PROVE Inv'
  BY <1>1, RenewKeepsInv
<1>2. ASSUME NEW k \in Tokens, NEW n \in Tokens, NEW at \in 0..now, Reissue(k, n, at) PROVE Inv'
  BY <1>2, ReissueKeepsInv
<1>3. ASSUME NEW S \in SUBSET OpenSessions, NEW how \in EndStatus, End(S, how) PROVE Inv'
  <2>1. account' \in [Logins -> AccountStatus]
    BY <1>3 DEF End, Inv, TypeOK
  <2> QED
    BY <1>3, <2>1, EndingKeepsInv DEF End
<1>4. ASSUME NEW l \in Logins, NEW to \in {"Inactive", "Deleted"}, NEW S \in SUBSET OpenSessions, TurnOff(l, to, S) PROVE Inv'
  <2>1. account' \in [Logins -> AccountStatus] /\ "Revoked" \in EndStatus
    BY <1>4 DEF TurnOff, Inv, TypeOK, AccountStatus, EndStatus
  <2> QED
    BY <1>4, <2>1, EndingKeepsInv DEF TurnOff
<1>5. ASSUME NEW l \in Logins, TurnOn(l) PROVE Inv'
  BY <1>5, OthersKeepInv DEF TurnOn, Inv, TypeOK, AccountStatus
<1>6. ASSUME NEW s \in {r \in SessionIds : session[r].status = "None"}, NEW n \in {k \in Tokens : ~Issued(k)},
             NEW l \in Logins, NEW at \in 0..now, NEW S \in SUBSET OpenSessions, SignIn(S, s, l, n, at)
      PROVE  Inv'
  BY <1>6, OpeningKeepsInv
<1>7. CASE Tick
  BY <1>7, OthersKeepInv DEF Tick, Inv, TypeOK
<1>8. CASE UNCHANGED vars
  BY <1>8, OthersKeepInv DEF vars, Inv, TypeOK
<1> QED
  BY <1>1, <1>2, <1>3, <1>4, <1>5, <1>6, <1>7, <1>8 DEF Next

LEMMA InitHasInv == Init => Inv
<1> SUFFICES ASSUME Init PROVE Inv
  OBVIOUS
<1>1. /\ \A s \in SessionIds : session[s] = NoSession
      /\ \A k \in Tokens : token[k] = NoToken
  BY DEF Init
<1>2. NoSession \in SessionRow /\ NoToken \in TokenRow
  BY DEF NoSession, NoToken, SessionRow, TokenRow
<1>3. TypeOK
  BY <1>2 DEF Init, TypeOK
<1>4. TokensHaveSessions
  BY <1>1 DEF TokensHaveSessions, Issued, NoToken
<1>5. OneWayToRenew
  BY <1>1 DEF OneWayToRenew, Open, Live, Of, NoSession, NoToken
<1>6. TradesLeadOn /\ EachReplacesOne
  BY <1>1 DEF TradesLeadOn, EachReplacesOne, NoToken
<1> QED
  BY <1>3, <1>4, <1>5, <1>6 DEF Inv

\* However accounts, sessions and tokens move, an open session has exactly one token that renews it, an
\* ended one none, and every traded token leads on to the live one of its session.
THEOREM SessionsStayRenewable == Spec => []Inv
  BY InitHasInv, NextKeepsInv, PTL DEF Spec
=============================================================================
