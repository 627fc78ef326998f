-------------------------------- MODULE Forms --------------------------------
(***************************************************************************)
(* What the handlers that change one row on behalf of a page have in       *)
(* common: a form opened on the row and saved later, a button that moves   *)
(* its status, a parent that must be in use, a check before the write.     *)
(*                                                                         *)
(* Besides the row locks of ReadCommitted they lock rows FOR SHARE: how a  *)
(* handler keeps a row from changing between its check and its own write   *)
(* elsewhere.  A row is shared by any number of requests, or locked by     *)
(* one.                                                                    *)
(***************************************************************************)
EXTENDS ReadCommitted, Sequences, SequencesExt, FiniteSetsExt

VARIABLE shared     \* shared[r]: the requests that have the row locked FOR SHARE

NothingShared == shared = [r \in Rows |-> {}]

\* No request but t shares a row of R.
OursAlone(t, R) == \A r \in R : shared[r] \subseteq {t}

\* UPDATE, INSERT and SELECT ... FOR UPDATE also wait for those who share the row.
Change(t, new, next) == OursAlone(t, DOMAIN new) /\ Write(t, new, next) /\ UNCHANGED shared

\* SELECT ... FOR SHARE.
Share(t, R, next) ==
    /\ \A r \in R : Free(t, r)
    /\ Read(t, next)
    /\ shared' = [r \in Rows |-> IF r \in R THEN shared[r] \cup {t} ELSE shared[r]]

Look(t, next) == Read(t, next) /\ UNCHANGED shared

LetGo(t) == shared' = [r \in Rows |-> shared[r] \ {t}]

Refuse(t) == Fail(t) /\ LetGo(t)
Finish(t) == Commit(t) /\ LetGo(t)
LoseConnection(t) == Interrupt(t) /\ LetGo(t)

\* t waits for u: t is about to lock the rows Needs(t) and to share the rows Wants(t).
Awaits(t, u, Needs(_), Wants(_)) ==
    /\ u # t
    /\ \/ \E r \in Needs(t) : lock[r] = u \/ u \in shared[r]
       \/ \E r \in Wants(t) : lock[r] = u

\* A cycle of waits, of which the database aborts one transaction.
Cycle(S, Needs(_), Wants(_)) ==
    /\ S # {}
    /\ \A t \in S : /\ \E u \in S : Awaits(t, u, Needs, Wants)
                    /\ \E u \in S : Awaits(u, t, Needs, Wants)

BreakCycle(t, Needs(_), Wants(_)) ==
    /\ \E S \in SUBSET Requests : t \in S /\ Cycle(S, Needs, Wants)
    /\ Refuse(t)

-----------------------------------------------------------------------------
(* A request and its row *)

\* A request: create a row, save its form, or one of the buttons on it, with what the form sends and who
\* sends it.
Do(t) == job[t].do
Row(t) == job[t].row
Sent(t) == job[t].to
By(t) == job[t].by

Asks(t, do, R) == Do(t) = do /\ Row(t) \in R

To(t, pc) == [tx[t] EXCEPT !.pc = pc]

\* The row of t's request as t sees it.
Own(t) == View(t, Row(t))

\* A row written anew: every UPDATE gives it another xmin.
Updated(old, new) == [new ++ old EXCEPT !.version = old.version + 1]

Insert(t, next) == Change(t, Version(Row(t), [Sent(t) EXCEPT !.version = 1]), next)

\* INSERT ... ON CONFLICT DO NOTHING waits for whoever is inserting the same row, then adds it or not.
IsNew(t, r) == Free(t, r) /\ View(t, r).is = "None"
Exists(t, r) == Free(t, r) /\ View(t, r).is # "None"

\* A statement outside any transaction: it waits for its rows and commits by itself.
Once(t, new, next) ==
    /\ \A r \in DOMAIN new : lock[r] = NoRequest /\ shared[r] = {}
    /\ db' = new ++ db
    /\ tx' = [tx EXCEPT ![t] = next]
    /\ UNCHANGED <<lock, job, shared>>

\* The request is answered without a transaction being open, or goes on after one was given up.
Leave(t, pc) == End(t, pc) /\ LetGo(t) /\ UNCHANGED db

-----------------------------------------------------------------------------
(* Forms *)

\* A page reads the row, and its version, some time before its form is saved.
OpenForm(t) ==
    /\ At(t, "begin")
    /\ Do(t) \in {"save", "pay"}
    /\ Look(t, [To(t, "save") EXCEPT !.seen = db[Row(t)].version])

\* Faulty form of LockForm: the row is locked and its version not compared.
LockAnyForm(t) ==
    /\ At(t, "save")
    /\ Change(t, Version(Row(t), db[Row(t)]), To(t, "check"))

\* refuse_stale waits for whoever has the row, then compares its version with the form's.
LockForm(t) ==
    /\ At(t, "save")
    /\ db[Row(t)].version = tx[t].seen
    /\ Change(t, Version(Row(t), db[Row(t)]), To(t, "check"))

RefuseStale(t) ==
    /\ At(t, "save")
    /\ Free(t, Row(t)) /\ OursAlone(t, {Row(t)})
    /\ db[Row(t)].version # tx[t].seen
    /\ Refuse(t)

\* A form that was not touched writes nothing.
Untouched(t) == \A column \in DOMAIN Sent(t) : Sent(t)[column] = Own(t)[column]

Save(t, extra, next) ==
    Change(t, Version(Row(t), IF Untouched(t) THEN Own(t) ELSE Updated(Own(t), extra ++ Sent(t))), To(t, next))

FormNeeds(t) == IF At(t, "save") THEN {Row(t)} ELSE {}
FormStep(t) == OpenForm(t) \/ LockForm(t) \/ RefuseStale(t)

-----------------------------------------------------------------------------
(* Parents, checks and buttons *)

\* Faulty form of RequireActive: the parent is read and not locked.
FindActive(t, parent, next) == IF db[parent].is = "Active" THEN Look(t, To(t, next)) ELSE Refuse(t)

\* A parent that is not Active is refused; locked, it stays as it is until this transaction ends.
RequireActive(t, parent, next) ==
    IF db[parent].is = "Active"
    THEN Share(t, {parent}, To(t, next))
    ELSE Free(t, parent) /\ Refuse(t)

\* A statement that reads and refuses what it does not like.
Check(t, pc, fine, next) == At(t, pc) /\ IF fine THEN Look(t, To(t, next)) ELSE Refuse(t)

\* Faulty form of Press: the status is moved whatever it was.
PressAgain(t, from, to, next) == Change(t, Version(Row(t), Updated(Own(t), [is |-> to])), next)

\* A button's guarded UPDATE: it waits for whoever has the row, and tests the status it then finds.
Press(t, from, to, next) ==
    IF Own(t).is \in from
    THEN Change(t, Version(Row(t), Updated(Own(t), [is |-> to])), next)
    ELSE Free(t, Row(t)) /\ OursAlone(t, {Row(t)}) /\ Refuse(t)

Button(t, do, R, from, to, next) == Asks(t, do, R) /\ At(t, "begin") /\ Press(t, from, to, next)
=============================================================================
