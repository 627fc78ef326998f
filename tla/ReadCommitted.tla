---------------------------- MODULE ReadCommitted ----------------------------
(***************************************************************************)
(* PostgreSQL's READ COMMITTED transactions as execute_transaction runs    *)
(* them, for any set of rows: what the modules of single handlers are      *)
(* written with.                                                           *)
(*                                                                         *)
(* A statement sees the rows that are committed when it starts and what    *)
(* its own transaction wrote.  A row that is written, or selected FOR      *)
(* UPDATE, stays locked until the transaction ends; COMMIT publishes all   *)
(* it wrote at once and ROLLBACK none of it.  BEGIN is joined with the     *)
(* first statement, which is the first thing others can notice.            *)
(***************************************************************************)
EXTENDS Naturals, FiniteSets, TLC

CONSTANTS
    Rows,       \* the rows of the tables that matter
    Requests,   \* HTTP requests in flight, each running one transaction
    NoRequest   \* the holder of a free row lock

ASSUME ReadCommittedAssumption == IsFiniteSet(Requests) /\ NoRequest \notin Requests

VARIABLES
    db,     \* every row as committed
    lock,   \* which request has the row locked
    tx,     \* how far each request's transaction has come
    job     \* what each request asks for

\* A transaction's next statement (pc), its own versions of the rows it locked, and what it read
\* and still goes by: the things it has yet to work through, and those it found fit so far.
Blank(pc) == [pc |-> pc, mine |-> << >>, todo |-> {}, fit |-> {}, seen |-> {}]

Begun(first) ==
    /\ lock = [r \in Rows |-> NoRequest]
    /\ tx = [t \in Requests |-> Blank(first)]

At(t, pc) == tx[t].pc = pc
Answered(t) == tx[t].pc \in {"done", "failed"}

\* A row as a statement of t sees it.
View(t, r) == IF lock[r] = t THEN tx[t].mine[r] ELSE db[r]

Free(t, r) == lock[r] \in {NoRequest, t}

\* A new version of one row, and the versions of several of which the first counts: TLC's :> and @@,
\* with definitions to reason from.
Version(r, v) == [x \in {r} |-> v]
f ++ g == [r \in DOMAIN f \cup DOMAIN g |-> IF r \in DOMAIN f THEN f[r] ELSE g[r]]

\* t locks the rows `new` gives versions of, and goes on as `next`.
Write(t, new, next) ==
    /\ \A r \in DOMAIN new : Free(t, r)
    /\ lock' = [r \in Rows |-> IF r \in DOMAIN new THEN t ELSE lock[r]]
    /\ tx' = [tx EXCEPT ![t] = [next EXCEPT !.mine = new ++ @]]
    /\ UNCHANGED <<db, job>>

\* SELECT ... FOR UPDATE: the row is locked as it is.
Lock(t, r, next) == Write(t, Version(r, View(t, r)), next)

\* A statement that only reads.
Read(t, next) ==
    /\ tx' = [tx EXCEPT ![t] = next]
    /\ UNCHANGED <<db, lock, job>>

End(t, pc) ==
    /\ lock' = [r \in Rows |-> IF lock[r] = t THEN NoRequest ELSE lock[r]]
    /\ tx' = [tx EXCEPT ![t] = Blank(pc)]
    /\ UNCHANGED job

\* ROLLBACK after a refusal or an error: nothing of what the transaction wrote was ever visible.
Fail(t) == End(t, "failed") /\ UNCHANGED db

\* COMMIT.
Commit(t) ==
    /\ At(t, "commit")
    /\ db' = [r \in Rows |-> View(t, r)]
    /\ End(t, "done")

\* The connection is lost, or the server stopped, somewhere before COMMIT.
Interrupt(t) ==
    /\ tx[t].mine # << >>
    /\ Fail(t)

\* Every request of S waits for one of S and is waited for by one of S; Needs(t) are the rows the
\* next statement of t has to lock.
Deadlocked(S, Needs(_)) ==
    LET WaitsFor(t, u) == u # t /\ \E r \in Needs(t) : lock[r] = u
    IN  /\ S # {}
        /\ \A t \in S : (\E u \in S : WaitsFor(t, u)) /\ (\E u \in S : WaitsFor(u, t))

\* The database breaks a cycle of waits by aborting one of its transactions.
BreakDeadlock(t, Needs(_)) ==
    /\ \E S \in SUBSET Requests : t \in S /\ Deadlocked(S, Needs)
    /\ Fail(t)

AllAnswered ==
    /\ \A t \in Requests : Answered(t)
    /\ UNCHANGED <<db, lock, tx, job>>
=============================================================================
