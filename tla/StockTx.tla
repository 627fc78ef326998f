------------------------------- MODULE StockTx -------------------------------
(***************************************************************************)
(* The transactions that move stock, one database statement at a time.     *)
(*                                                                         *)
(* Every handler runs its statements in one READ COMMITTED transaction     *)
(* (execute_transaction): a statement sees what is committed when it       *)
(* starts and what its own transaction wrote; a row written or selected    *)
(* FOR UPDATE stays locked to the end, and a statement that waits for a    *)
(* row goes on with the row's newest version.  A transaction keeps its     *)
(* own version of the rows it locked, and COMMIT publishes them at once.   *)
(*                                                                         *)
(* Steps that only a transaction itself can see are joined with the step   *)
(* before them.  What an order contains beside quantities, the giveaway    *)
(* holds, prices and the customer are not here, nor are the figures that   *)
(* returns and the gifts of an order write.                                *)
(***************************************************************************)
EXTENDS StockUnits, SequencesExt

CONSTANTS
    Requests,      \* HTTP requests in flight, each running one transaction
    NoRequest,     \* the holder of a free row lock
    Jobs,          \* what a request may ask for
    ProductOf,     \* the product each batch is of
    InitialStock,  \* the units on hand at the start
    Openings,      \* where the orders may stand at the start
    MaxAttempts    \* how often execute_transaction starts a transaction whose connection is lost

Kinds == {"place", "edit", "confirm", "cancel", "dispatch", "sell", "adjust"}
OrderStatus == {"Draft", "Pending", "Confirmed", "Dispatched", "Cancelled"}

JobType == [kind : Kinds, orders : SUBSET Orders, want : [Batches -> Int]]
Opening == [held : Holdings, status : [Orders -> OrderStatus]]

Holds(kind) == kind \in {"place", "edit"}     \* the handlers that hold units for an order
OnShelf(kind) == kind \in {"sell", "adjust"}  \* the handlers that move units of no order

\* Faulty form of Sorted: no handler orders its lines.
SortedNever(kind) == FALSE

\* The handlers that work through their batches in the order of their oids.
Sorted(kind) == kind \in {"place", "edit", "sell"}

Open(s) == s \in {"Pending", "Confirmed"}

ASSUME RequestsAssumption == IsFiniteSet(Requests) /\ NoRequest \notin Requests
ASSUME JobsAssumption ==
    /\ Jobs \subseteq JobType
    /\ \A j \in Jobs :
        /\ OnShelf(j.kind) <=> j.orders = {}
        /\ OnShelf(j.kind) \/ j.kind = "dispatch" \/ \E o \in Orders : j.orders = {o}
        /\ j.kind = "adjust" \/ j.want \in Quantities
ASSUME InitialStockAssumption == InitialStock \in Quantities
ASSUME OpeningsAssumption ==
    /\ Openings \subseteq Opening
    /\ \A s \in Openings :
        /\ \A b \in Batches : Promised(s.held, b) <= InitialStock[b]
        /\ \A o \in Orders : ~Open(s.status[o]) => s.held[o] = Nothing
ASSUME MaxAttemptsAssumption == MaxAttempts \in Nat \ {0}

VARIABLES
    onHand,     \* inventory.quantity_available, as committed
    held,       \* the Active rows of stock_hold per order and batch, as committed
    status,     \* orders.status; "Dispatched" is a Confirmed order whose dispatched_on is set
    items,      \* order_items: how much of each batch is on the order, as committed
    ledger,     \* stock_movement: the rows of each batch in the order they were created
    batchLock,  \* which request has the inventory row locked
    orderLock,  \* which request has the orders row locked
    job,        \* what each request asks for
    tx          \* how far each request's transaction has come

database == <<onHand, held, status, items, ledger>>
locks == <<batchLock, orderLock>>
vars == <<database, locks, job, tx>>

-----------------------------------------------------------------------------
(* Transactions *)

NoOrder == -1   \* the order of a line that is about a batch alone
Lines == (Orders \cup {NoOrder}) \X Batches

Movement == [quantity : Int, balance : Nat]

\* A transaction's next statement (pc), the order rows it has still to lock and those it may change,
\* the lines it has still to work through, the held total its statement's snapshot showed, and its own
\* version of the rows it locked: the batches' quantities, the orders' holds, the movements inserted.
Transaction ==
    [ pc : {"begin", "order", "line", "hold", "take", "write", "done", "failed"},
      attempts : 0..MaxAttempts,
      unlocked : SUBSET Orders,
      ready : SUBSET Orders,
      todo : Seq(Lines),
      seen : Nat,
      shelf : Quantities,
      mine : Holdings,
      written : [Batches -> Seq(Movement)] ]

\* Faulty form of Blank: the attempts start again from none with every retry.
BlankForgetful(pc, attempts) ==
    [ pc |-> pc, attempts |-> 0, unlocked |-> {}, ready |-> {}, todo |-> << >>, seen |-> 0,
      shelf |-> Nothing, mine |-> [o \in Orders |-> Nothing], written |-> [b \in Batches |-> << >>] ]

Blank(pc, attempts) ==
    [ pc |-> pc, attempts |-> attempts, unlocked |-> {}, ready |-> {}, todo |-> << >>, seen |-> 0,
      shelf |-> Nothing, mine |-> [o \in Orders |-> Nothing], written |-> [b \in Batches |-> << >>] ]

Answered(t) == tx[t].pc \in {"done", "failed"}

Kind(t) == job[t].kind
Line(t) == Head(tx[t].todo)
LineBatch(t) == Line(t)[2]

\* The newest version of the rows a request can see: its own where it has the row locked.
ShelfOf(t) == [b \in Batches |-> IF batchLock[b] = t THEN tx[t].shelf[b] ELSE onHand[b]]
HoldsOf(t) == [o \in Orders |-> IF orderLock[o] = t THEN tx[t].mine[o] ELSE held[o]]

Free(lock, t) == lock \in {NoRequest, t}

\* The orders in which the database or the handler may work through a set of lines: an order's lines
\* together, the orders by age, and the batches of one order by oid where the handler sorts them.
Sequences(kind, S) ==
    {s \in SetToSeqs(S) : \A i, j \in DOMAIN s : i < j =>
        /\ s[i][1] <= s[j][1]
        /\ Sorted(kind) /\ s[i][1] = s[j][1] => s[i][2] <= s[j][2]}

TypeOK ==
    /\ onHand \in Quantities
    /\ held \in Holdings
    /\ status \in [Orders -> OrderStatus]
    /\ items \in Holdings
    /\ ledger \in [Batches -> Seq(Movement)]
    /\ batchLock \in [Batches -> Requests \cup {NoRequest}]
    /\ orderLock \in [Orders -> Requests \cup {NoRequest}]
    /\ job \in [Requests -> Jobs]
    /\ tx \in [Requests -> Transaction]

Init ==
    /\ onHand = InitialStock
    /\ \E s \in Openings : held = s.held /\ status = s.status /\ items = s.held
    /\ ledger = [b \in Batches |-> << [quantity |-> InitialStock[b], balance |-> InitialStock[b]] >>]
    /\ batchLock = [b \in Batches |-> NoRequest]
    /\ orderLock = [o \in Orders |-> NoRequest]
    /\ job \in [Requests -> Jobs]
    /\ tx = [t \in Requests |-> Blank("begin", 0)]

Unlock(t) ==
    /\ batchLock' = [b \in Batches |-> IF batchLock[b] = t THEN NoRequest ELSE batchLock[b]]
    /\ orderLock' = [o \in Orders |-> IF orderLock[o] = t THEN NoRequest ELSE orderLock[o]]

\* ROLLBACK: nothing the transaction wrote was ever visible, and its row locks go.
Rollback(t, pc) ==
    /\ tx' = [tx EXCEPT ![t] = Blank(pc, @.attempts)]
    /\ Unlock(t)
    /\ UNCHANGED <<database, job>>

\* Faulty form of Fail: what was written before the refusal stays.
FailHalfDone(t) ==
    /\ onHand' = ShelfOf(t)
    /\ held' = HoldsOf(t)
    /\ ledger' = [b \in Batches |-> ledger[b] \o tx[t].written[b]]
    /\ tx' = [tx EXCEPT ![t] = Blank("failed", @.attempts)]
    /\ Unlock(t)
    /\ UNCHANGED <<status, items, job>>

Fail(t) == Rollback(t, "failed")

Begin(t) ==
    /\ tx[t].pc = "begin"
    /\ \E s \in Sequences(Kind(t), IF OnShelf(Kind(t)) THEN {<<NoOrder, b>> : b \in {c \in Batches : job[t].want[c] # 0}} ELSE {}) :
        tx' = [tx EXCEPT ![t].pc = IF OnShelf(Kind(t)) THEN "line" ELSE "order",
                         ![t].attempts = @ + 1,
                         ![t].unlocked = job[t].orders,
                         ![t].todo = s]
    /\ UNCHANGED <<database, locks, job>>

-----------------------------------------------------------------------------
(* The statements that lock order rows *)

\* A guarded UPDATE or a SELECT FOR UPDATE of the one order the request is about.  It waits for the
\* row, then goes on only from a state in `from`; `own` is what the order holds after the handler let
\* go of its holds or kept them.
ClaimOrder(t, o, from, own, S) ==
    /\ tx[t].pc = "order"
    /\ tx[t].unlocked = {o}
    /\ orderLock[o] = NoRequest
    /\ IF status[o] \in from
       THEN /\ orderLock' = [orderLock EXCEPT ![o] = t]
            /\ \E s \in Sequences(Kind(t), S) :
                tx' = [tx EXCEPT ![t].pc = "line", ![t].unlocked = {}, ![t].ready = {o},
                                 ![t].mine[o] = own, ![t].todo = s]
            /\ UNCHANGED <<database, batchLock, job>>
       ELSE Fail(t)

WantedLines(t, o) == {<<o, b>> : b \in Named(job[t].want)}

PlaceOrder(t, o) == Kind(t) = "place" /\ ClaimOrder(t, o, {"Draft"}, Nothing, WantedLines(t, o))

\* Faulty form of EditOrder: the old holds stay beside the new ones.
EditOrderKeepingHolds(t, o) == Kind(t) = "edit" /\ ClaimOrder(t, o, {"Pending"}, held[o], WantedLines(t, o))

\* The old holds are released before the new lines are held.
EditOrder(t, o) == Kind(t) = "edit" /\ ClaimOrder(t, o, {"Pending"}, Nothing, WantedLines(t, o))

ConfirmOrder(t, o) == Kind(t) = "confirm" /\ ClaimOrder(t, o, {"Pending"}, held[o], {})

CancelOrder(t, o) == Kind(t) = "cancel" /\ ClaimOrder(t, o, {"Pending", "Confirmed"}, Nothing, {})

\* The hand-over locks the orders of its delivery batch, oldest first, leaves out those not ready to
\* send, and gives up when none is.  Then it reads the holds of each order it dispatches.
LockParcel(t, o) ==
    /\ Kind(t) = "dispatch"
    /\ tx[t].pc = "order"
    /\ o \in tx[t].unlocked /\ \A p \in tx[t].unlocked : o <= p
    /\ orderLock[o] = NoRequest
    /\ LET ready == tx[t].ready \cup (IF status[o] = "Confirmed" THEN {o} ELSE {})
           last == tx[t].unlocked = {o}
           lines == UNION {{p} \X Named(held[p]) : p \in ready}
       IN  IF last /\ ready = {}
           THEN Fail(t)
           ELSE /\ orderLock' = [orderLock EXCEPT ![o] = t]
                /\ \E s \in Sequences("dispatch", IF last THEN lines ELSE {}) :
                    tx' = [tx EXCEPT ![t].pc = IF last THEN "line" ELSE "order",
                                     ![t].unlocked = @ \ {o}, ![t].ready = ready,
                                     ![t].mine[o] = held[o], ![t].todo = s]
                /\ UNCHANGED <<database, batchLock, job>>

-----------------------------------------------------------------------------
(* The statements that work on a batch *)

AtLine(t, kinds) == tx[t].pc = "line" /\ tx[t].todo # << >> /\ Kind(t) \in kinds

\* Faulty form of LockBatch: deductFreeStock counts the holds without locking the batch first.
LockBatchToHoldOnly(t) ==
    LET b == LineBatch(t)
    IN  /\ AtLine(t, {"place", "edit", "sell", "adjust"})
        /\ job[t].want[b] > 0
        /\ Free(batchLock[b], t)
        /\ batchLock' = IF Holds(Kind(t)) THEN [batchLock EXCEPT ![b] = t] ELSE batchLock
        /\ tx' = [tx EXCEPT ![t].pc = IF Holds(Kind(t)) THEN "hold" ELSE "take",
                            ![t].shelf[b] = ShelfOf(t)[b]]
        /\ UNCHANGED <<database, orderLock, job>>

\* SELECT ... FOR UPDATE of the batch, before its holds are counted.
LockBatch(t) ==
    LET b == LineBatch(t)
    IN  /\ AtLine(t, {"place", "edit", "sell", "adjust"})
        /\ job[t].want[b] > 0
        /\ Free(batchLock[b], t)
        /\ batchLock' = [batchLock EXCEPT ![b] = t]
        /\ tx' = [tx EXCEPT ![t].pc = IF Holds(Kind(t)) THEN "hold" ELSE "take",
                            ![t].shelf[b] = ShelfOf(t)[b]]
        /\ UNCHANGED <<database, orderLock, job>>

\* holdStock goes on: what is on hand less every Active hold must cover the line.
HoldStock(t) ==
    LET o == Line(t)[1]
        b == LineBatch(t)
        q == job[t].want[b]
    IN  /\ tx[t].pc = "hold"
        /\ IF ShelfOf(t)[b] - Promised(HoldsOf(t), b) >= q
           THEN /\ tx' = [tx EXCEPT ![t].pc = "line", ![t].todo = Tail(@), ![t].mine[o][b] = @ + q]
                /\ UNCHANGED <<database, locks, job>>
           ELSE Fail(t)

\* Faulty form of StartTake: the update looks at what is on hand only, as deductStock does.
StartTakeIgnoringHolds(t) ==
    /\ tx[t].pc = "take"
    /\ tx' = [tx EXCEPT ![t].pc = "write", ![t].seen = 0]
    /\ UNCHANGED <<database, locks, job>>

\* deductFreeStock goes on: the guarded UPDATE takes its snapshot of the holds ...
StartTake(t) ==
    /\ tx[t].pc = "take"
    /\ tx' = [tx EXCEPT ![t].pc = "write", ![t].seen = Promised(HoldsOf(t), LineBatch(t))]
    /\ UNCHANGED <<database, locks, job>>

\* Faulty form of Deducted: the movement is written before the batch is updated.
DeductedAfterMovement(t, b, q) ==
    [tx[t] EXCEPT !.pc = "line", !.todo = Tail(@), !.seen = 0, !.shelf[b] = ShelfOf(t)[b] - q,
                  !.written[b] = Append(@, [quantity |-> -q, balance |-> ShelfOf(t)[b]])]

\* The batch row as t leaves it, with q fewer units and the movement that records them.
Deducted(t, b, q) ==
    [tx[t] EXCEPT !.pc = "line", !.todo = Tail(@), !.seen = 0, !.shelf[b] = ShelfOf(t)[b] - q,
                  !.written[b] = Append(@, [quantity |-> -q, balance |-> ShelfOf(t)[b] - q])]

FreeStockCovers(t) == ShelfOf(t)[LineBatch(t)] - tx[t].seen >= job[t].want[LineBatch(t)]

\* A sale, a gift and a disposal raise the figures of a batch's product as soon as they have its units, and
\* keep that product_stats row locked while they go on to their next batch; an adjustment raises none.
HasFigures(u, b) ==
    /\ Kind(u) = "sell"
    /\ \E c \in Batches : tx[u].written[c] # << >> /\ ProductOf[c] = ProductOf[b]

\* ... waits for the batch row if someone has it, checks the row's newest version against it, and goes on to
\* the product's figures, for which it waits with the batch locked.
TakeFreeStock(t) ==
    LET b == LineBatch(t)
        q == job[t].want[b]
    IN  /\ tx[t].pc = "write"
        /\ Free(batchLock[b], t)
        /\ IF FreeStockCovers(t)
           THEN /\ Kind(t) = "sell" => \A u \in Requests \ {t} : ~HasFigures(u, b)
                /\ batchLock' = [batchLock EXCEPT ![b] = t]
                /\ tx' = [tx EXCEPT ![t] = Deducted(t, b, q)]
                /\ UNCHANGED <<database, orderLock, job>>
           ELSE Fail(t)

\* Dispatch takes what the order held, guarded only by what is on hand, and the hold is spent.
DeductHeldStock(t) ==
    LET o == Line(t)[1]
        b == LineBatch(t)
        q == tx[t].mine[o][b]
    IN  /\ AtLine(t, {"dispatch"})
        /\ Free(batchLock[b], t)
        /\ IF ShelfOf(t)[b] >= q
           THEN /\ batchLock' = [batchLock EXCEPT ![b] = t]
                /\ tx' = [tx EXCEPT ![t] = [Deducted(t, b, q) EXCEPT !.mine[o][b] = 0]]
                /\ UNCHANGED <<database, orderLock, job>>
           ELSE Fail(t)

\* Found or returned units go back onto the batch, whatever is promised.
RestockStock(t) ==
    LET b == LineBatch(t)
        q == job[t].want[b]
    IN  /\ AtLine(t, {"adjust"})
        /\ q < 0
        /\ Free(batchLock[b], t)
        /\ batchLock' = [batchLock EXCEPT ![b] = t]
        /\ tx' = [tx EXCEPT ![t] = Deducted(t, b, q)]
        /\ UNCHANGED <<database, orderLock, job>>

-----------------------------------------------------------------------------
(* How transactions end *)

StatusAfter(kind) ==
    CASE kind \in {"place", "edit"} -> "Pending"
      [] kind = "confirm" -> "Confirmed"
      [] kind = "cancel" -> "Cancelled"
      [] kind = "dispatch" -> "Dispatched"

Commit(t) ==
    /\ tx[t].pc = "line"
    /\ tx[t].todo = << >>
    /\ onHand' = ShelfOf(t)
    /\ held' = HoldsOf(t)
    /\ status' = [o \in Orders |-> IF o \in tx[t].ready THEN StatusAfter(Kind(t)) ELSE status[o]]
    /\ items' = [o \in Orders |-> IF o \in tx[t].ready /\ Holds(Kind(t)) THEN job[t].want ELSE items[o]]
    /\ ledger' = [b \in Batches |-> ledger[b] \o tx[t].written[b]]
    /\ tx' = [tx EXCEPT ![t] = Blank("done", @.attempts)]
    /\ Unlock(t)
    /\ UNCHANGED job

\* The connection fails.  Before COMMIT is sent the work is rolled back and run again, up to a limit; once
\* it is sent, a transaction that was not committed is rolled back and never run again, because the
\* handler cannot tell it from one that was.
LoseConnection(t) ==
    /\ tx[t].pc \notin {"begin", "done", "failed"}
    /\ \/ Rollback(t, IF tx[t].attempts < MaxAttempts THEN "begin" ELSE "failed")
       \/ tx[t].pc = "line" /\ tx[t].todo = << >> /\ Fail(t)

WantsFigures(t) == Kind(t) = "sell" /\ tx[t].pc = "write" /\ FreeStockCovers(t)

\* The request a transaction's next statement waits for.
WaitsFor(t, u) ==
    /\ u # t
    /\ \/ tx[t].pc = "order" /\ \E o \in tx[t].unlocked : orderLock[o] = u /\ \A p \in tx[t].unlocked : o <= p
       \/ tx[t].pc \in {"line", "write"} /\ tx[t].todo # << >> /\ batchLock[LineBatch(t)] = u
       \/ WantsFigures(t) /\ HasFigures(u, LineBatch(t))

\* Every request of S waits for one of S and is waited for by one of S.
Deadlocked(S) ==
    /\ S # {}
    /\ \A t \in S : (\E u \in S : WaitsFor(t, u)) /\ (\E u \in S : WaitsFor(u, t))

\* The database breaks a cycle of waits by aborting one of its transactions; it is not run again.
BreakDeadlock(t) ==
    /\ \E S \in SUBSET Requests : t \in S /\ Deadlocked(S)
    /\ Fail(t)

AllAnswered ==
    /\ \A t \in Requests : Answered(t)
    /\ UNCHANGED vars

Statement(t) ==
    \/ Begin(t)
    \/ \E o \in Orders : PlaceOrder(t, o) \/ EditOrder(t, o) \/ ConfirmOrder(t, o) \/ CancelOrder(t, o) \/ LockParcel(t, o)
    \/ LockBatch(t)
    \/ HoldStock(t)
    \/ StartTake(t)
    \/ TakeFreeStock(t)
    \/ DeductHeldStock(t)
    \/ RestockStock(t)
    \/ Commit(t)

Next ==
    \/ \E t \in Requests : Statement(t) \/ LoseConnection(t) \/ BreakDeadlock(t)
    \/ AllAnswered

Spec == Init /\ [][Next]_vars

\* A statement that can run is run, and the database's deadlock check always runs.
FairSpec == Spec /\ \A t \in Requests : WF_vars(Statement(t)) /\ WF_vars(BreakDeadlock(t))

-----------------------------------------------------------------------------
(* Properties *)

\* Two sales, gifts, losses or orders never get the same unit: in every committed state the units all
\* orders were promised are on hand, however the statements of their transactions interleave
\* (stock-movement.js holdStock, deductFreeStock).
HeldWithinOnHand == \A b \in Batches : Promised(held, b) <= onHand[b]

\* A dispatch, guarded only by what is on hand, never finds less than its orders held, so its
\* refusal "no longer on the shelf" never happens through these handlers (order-moves.js dispatchOrder).
DispatchNeverShort ==
    \A t \in Requests : AtLine(t, {"dispatch"}) /\ Free(batchLock[LineBatch(t)], t) =>
        ShelfOf(t)[LineBatch(t)] >= tx[t].mine[Line(t)[1]][LineBatch(t)]

\* An order waiting to leave holds exactly its lines, through edits, failed edits and retries, and one
\* that left, was cancelled or was never placed holds nothing (stock-movement.js releaseHolds).
OpenOrdersHoldTheirLines ==
    \A o \in Orders : held[o] = IF Open(status[o]) THEN items[o] ELSE Nothing

\* The movements of a batch, in the order they were created, add up to its quantity at every row, so
\* balance_after is what the batch held then and holds now (stock-movement.js recordMovement).
LedgerAddsUp ==
    \A b \in Batches :
        /\ \A i \in 2..Len(ledger[b]) : ledger[b][i].balance = ledger[b][i - 1].balance + ledger[b][i].quantity
        /\ Last(ledger[b]).balance = onHand[b]

\* Handlers that take their batches in one order wait for each other in a circle only over the figures of a
\* product of which each has a batch: every other deadlock has a hand-over or an adjustment in it
\* (create-online-order.js, checkout-pos-sale.js, stock-movement.js incrementProductStat).
SortedHandlersMeetOnFigures ==
    \A S \in SUBSET Requests : Deadlocked(S) =>
        \/ \E t \in S : Kind(t) \in {"dispatch", "adjust"}
        \/ \E t, u \in S :
            /\ WantsFigures(t) /\ HasFigures(u, LineBatch(t))
            /\ batchLock[LineBatch(t)] = t
            /\ \E c \in Batches \ {LineBatch(t)} : batchLock[c] = u /\ ProductOf[c] = ProductOf[LineBatch(t)]

\* What approve-product-dispose.js says of locking batches in one order: "two approvals or a checkout touching
\* the same batches cannot deadlock".
ApprovalsAndSalesNeverDeadlock ==
    \A S \in SUBSET Requests : Deadlocked(S) => \E t \in S : Kind(t) # "sell"

\* Every request ends, done or refused: no wait for a row lasts for ever.
EveryRequestAnswered == \A t \in Requests : <>Answered(t)

\* Each transaction takes effect at its COMMIT as one step of the abstract ledger, or not at all.
Ledger == INSTANCE StockLedger WITH Wants <- {j.want : j \in Jobs}
ImplementsLedger == Ledger!Spec
=============================================================================
