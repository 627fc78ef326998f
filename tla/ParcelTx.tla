------------------------------ MODULE ParcelTx ------------------------------
(***************************************************************************)
(* The handlers that move a parcel, one database statement at a time: an   *)
(* order's own record (confirm, cancel, not delivered, the return of a     *)
(* parcel that came back) and the delivery batches (make, change, cancel,  *)
(* hand over, deliver).                                                    *)
(*                                                                         *)
(* An order and its parcel are two rows, moved by different statements and *)
(* sometimes by different people; a SELECT ... FOR UPDATE OF the order     *)
(* goes on with the newest order but with the parcel as it was before the  *)
(* wait.  How much is in stock and what is owed are StockTx's and Returns' *)
(* business; here the rows of stock and of figures that a parcel's units   *)
(* count in are only locked.                                               *)
(***************************************************************************)
EXTENDS ReadCommitted

CONSTANTS
    Orders,           \* online orders, numbered in the order they were created
    DeliveryBatches,
    MaxReturns,       \* how often one parcel may be reported not delivered
    Stock,            \* rows of inventory and of product_stats
    StockOf,          \* those an order's units count in when it leaves, arrives or comes back
    Jobs,             \* what a request may ask for
    Openings          \* where the rows may stand at the start

ASSUME OrdersAssumption == Orders \subseteq Nat /\ IsFiniteSet(Orders)
ASSUME MaxReturnsAssumption == MaxReturns \in Nat
ASSUME StockAssumption ==
    StockOf \in [{"handOver", "deliver", "confirmReturn"} -> [Orders -> (SUBSET Stock) \ {{}}]]

Order(o) == <<"order", o>>                 \* orders
Parcel(o) == <<"parcel", o>>               \* online_order
Batch(d) == <<"batch", d>>                 \* delivery_batch
Entry(d, o) == <<"entry", d, o>>           \* delivery_batch_order
Return(o, n) == <<"return", o, n>>         \* product_return, of the whole parcel
Units(s) == <<"stock", s>>

StockRows == {Units(s) : s \in Stock}

ParcelRows ==
    {Order(o) : o \in Orders} \cup {Parcel(o) : o \in Orders} \cup {Batch(d) : d \in DeliveryBatches}
    \cup {Entry(d, o) : d \in DeliveryBatches, o \in Orders} \cup {Return(o, n) : o \in Orders, n \in 1..MaxReturns}
    \cup StockRows

ASSUME ParcelRowsAssumption == Rows = ParcelRows

\* "Dispatched" is status Confirmed with dispatched_on set.
OrderStatus == {"Pending", "Confirmed", "Dispatched", "Cancelled", "Delivered", "Returned"}
DeliveryStatus == {"None", "Preparing", "WithCourier", "Delivered", "Failed", "BackInShop"}
BatchStatus == {"None", "Open", "HandedOver", "Cancelled"}
EntryStatus == {"None", "Active", "Freed"}
ReturnStatus == {"None", "Pending", "Cancelled", "Returned"}

Kinds == {"confirm", "cancel", "notDelivered", "confirmReturn", "cancelReturn",
          "create", "change", "cancelBatch", "handOver", "deliver"}

\* The order, the orders wanted, the batch and the return a request is about, where it is about one.
JobType == [kind : Kinds, order : Nat, wanted : SUBSET Orders, batch : DeliveryBatches, nth : 0..MaxReturns]

ASSUME JobsAssumption ==
    /\ Jobs \subseteq JobType
    /\ \A j \in Jobs :
        /\ j.kind \in {"confirm", "cancel", "notDelivered", "confirmReturn", "cancelReturn"} => j.order \in Orders
        /\ j.kind \in {"confirmReturn", "cancelReturn"} => j.nth \in 1..MaxReturns

vars == <<db, lock, tx, job>>

Kind(t) == job[t].kind

\* The order, the batch and the return t is about.
It(t) == Order(job[t].order)
ItsParcel(t) == Parcel(job[t].order)
ItsBatch(t) == Batch(job[t].batch)
ItsReturn(t) == Return(job[t].order, job[t].nth)

IsConfirmed(status) == status \in {"Confirmed", "Dispatched"}

ActiveIn(t, d) == {o \in Orders : View(t, Entry(d, o)) = "Active"}

-----------------------------------------------------------------------------
(* What committed rows agree on *)

RowTypes(rows) ==
    /\ \A o \in Orders : rows[Order(o)] \in OrderStatus /\ rows[Parcel(o)] \in DeliveryStatus
    /\ \A d \in DeliveryBatches : rows[Batch(d)] \in BatchStatus /\ \A o \in Orders : rows[Entry(d, o)] \in EntryStatus
    /\ \A o \in Orders, n \in 1..MaxReturns : rows[Return(o, n)] \in ReturnStatus

\* Where an order and its parcel stand together; every other pair of the two rows is a contradiction.
Standings ==
    [Pending |-> <<"Pending", "None">>, Confirmed |-> <<"Confirmed", "Preparing">>,
     WithCourier |-> <<"Dispatched", "WithCourier">>, Delivered |-> <<"Delivered", "Delivered">>,
     Failed |-> <<"Dispatched", "Failed">>, BackInShop |-> <<"Returned", "BackInShop">>]

StandingOf(rows, o) ==
    IF rows[Order(o)] = "Cancelled" THEN "Cancelled"
    ELSE CHOOSE s \in DOMAIN Standings : Standings[s] = <<rows[Order(o)], rows[Parcel(o)]>>

IsPending(rows, o, n) == rows[Return(o, n)] = "Pending"

\* The order's row, its parcel's row and its returns never contradict each other: a failed parcel is
\* never a sale, has exactly one return waiting, and no other parcel has one (order-moves.js, the
\* guard of deliverOrder; cancel-return.js).
OrderAndParcelAgree(rows) ==
    \A o \in Orders :
        /\ rows[Order(o)] = "Cancelled" => rows[Parcel(o)] \in {"None", "Preparing"}
        /\ rows[Order(o)] # "Cancelled" => \E s \in DOMAIN Standings : Standings[s] = <<rows[Order(o)], rows[Parcel(o)]>>
        /\ rows[Parcel(o)] = "Failed" <=> \E n \in 1..MaxReturns : IsPending(rows, o, n)
        /\ \A m, n \in 1..MaxReturns : IsPending(rows, o, m) /\ IsPending(rows, o, n) => m = n

\* An order is in one live delivery batch at most, however many people put it in one at once: its parcel
\* can only be handed over once (batch-writes.js addOrders).
OneBatchAtATime(rows) ==
    \A o \in Orders, d, e \in DeliveryBatches :
        rows[Entry(d, o)] = "Active" /\ rows[Entry(e, o)] = "Active" => d = e

\* A parcel that left is in a batch that was handed over, so the batch its courier carries can be told
\* (delivery-batch: a parcel leaves only in a delivery batch).
LeftInABatch(rows) ==
    \A o \in Orders : rows[Parcel(o)] \in {"WithCourier", "Failed", "Delivered", "BackInShop"} =>
        \E d \in DeliveryBatches : rows[Batch(d)] = "HandedOver" /\ rows[Entry(d, o)] = "Active"

\* No order is stranded in a batch that was cancelled or has gone without it: it was freed for another
\* batch.  (hand-over-delivery-batch.js, cancel-delivery-batch.js)
NoneLeftBehind(rows) ==
    \A o \in Orders, d \in DeliveryBatches : rows[Entry(d, o)] = "Active" =>
        \/ rows[Batch(d)] = "Open" /\ rows[Order(o)] # "Pending"
        \/ rows[Batch(d)] = "HandedOver" /\ rows[Order(o)] \in {"Dispatched", "Delivered", "Returned"}

RowsAgree(rows) ==
    RowTypes(rows) /\ OrderAndParcelAgree(rows) /\ OneBatchAtATime(rows) /\ LeftInABatch(rows) /\ NoneLeftBehind(rows)

ASSUME OpeningsAssumption == \A rows \in Openings : RowsAgree(rows)

Init ==
    /\ db \in Openings
    /\ Begun("first")
    /\ job \in [Requests -> Jobs]

-----------------------------------------------------------------------------
(* One order's own record *)

\* An order and its parcel move together.
Moved(o, status, delivery) == Version(Order(o), status) ++ Version(Parcel(o), delivery)

\* UPDATE orders ... WHERE status = 'Pending': a row that does not match is not waited for.
ConfirmOrder(t) ==
    /\ Kind(t) = "confirm" /\ At(t, "first")
    /\ IF View(t, It(t)) = "Pending"
       THEN Write(t, Version(It(t), "Confirmed"), [tx[t] EXCEPT !.pc = "parcel"])
       ELSE Fail(t)

PrepareParcel(t) ==
    /\ Kind(t) = "confirm" /\ At(t, "parcel")
    /\ Write(t, Version(ItsParcel(t), "Preparing"), [tx[t] EXCEPT !.pc = "commit"])

\* The order is locked, and then cancelled only before dispatch.
CancelOrder(t) ==
    /\ Kind(t) = "cancel" /\ At(t, "first")
    /\ Free(t, It(t))
    /\ IF View(t, It(t)) \in {"Pending", "Confirmed"}
       THEN Write(t, Version(It(t), "Cancelled"), [tx[t] EXCEPT !.pc = "commit"])
       ELSE Fail(t)

\* Faulty form of LockUndelivered: the parcel row is taken before the order row.
LockUndeliveredParcelFirst(t) ==
    /\ Kind(t) = "notDelivered" /\ At(t, "first")
    /\ Lock(t, ItsParcel(t), [tx[t] EXCEPT !.pc = "parcel"])

LockUndelivered(t) ==
    /\ Kind(t) = "notDelivered" /\ At(t, "first")
    /\ Lock(t, It(t), [tx[t] EXCEPT !.pc = "parcel"])

\* The returns of a parcel that are raised, and the number the next one gets.
Raised(t, o) == {n \in 1..MaxReturns : View(t, Return(o, n)) # "None"}
NextReturn(t, o) == Cardinality(Raised(t, o)) + 1

\* The parcel fails only while it is with the courier, and a return of everything on it is raised,
\* unless every unit of it is on a pending return.  The bound is on the returns of one parcel.
MarkFailed(t) ==
    LET o == job[t].order
        next == Return(o, NextReturn(t, o))
    IN  /\ Kind(t) = "notDelivered" /\ At(t, "parcel")
        /\ NextReturn(t, o) <= MaxReturns
        /\ Free(t, It(t))
        /\ IF /\ IsConfirmed(View(t, It(t))) /\ View(t, Parcel(o)) = "WithCourier"
              /\ \A n \in Raised(t, o) : View(t, Return(o, n)) # "Pending"
           THEN Write(t, Moved(o, View(t, It(t)), "Failed") ++ Version(next, "Pending"), [tx[t] EXCEPT !.pc = "commit"])
           ELSE Fail(t)

LockReturn(t) ==
    /\ Kind(t) = "confirmReturn" /\ At(t, "first")
    /\ Free(t, ItsReturn(t))
    /\ IF View(t, ItsReturn(t)) = "Pending"
       THEN Lock(t, ItsReturn(t), [tx[t] EXCEPT !.pc = "snapshot"])
       ELSE Fail(t)

\* The statement that locks the order has read the parcel before it waits for the order.
ReadReturnedParcel(t) ==
    /\ Kind(t) = "confirmReturn" /\ At(t, "snapshot")
    /\ Read(t, [tx[t] EXCEPT !.pc = "lock", !.seen = {View(t, ItsParcel(t))}])

LockReturnedOrder(t) ==
    /\ Kind(t) = "confirmReturn" /\ At(t, "lock")
    /\ Free(t, It(t))
    /\ IF IsConfirmed(View(t, It(t))) /\ "Failed" \in tx[t].seen
       THEN Lock(t, It(t), [tx[t] EXCEPT !.pc = "parcel"])
       ELSE Fail(t)

\* t goes on to lock the rows of stock and figures that S names, in whatever order the database gives them.
Counting(next, S) == [next EXCEPT !.pc = "stock", !.seen = {Units(s) : s \in S}]

\* The return is settled, the order is Returned and its parcel back in the shop, whatever it was.  Good units
\* go back on the shelf, damaged ones into the figures, gifts into both.  (The code comes to the order and the
\* parcel after the stock; both rows are free for it all the while.)
TakeParcelBack(t) ==
    /\ Kind(t) = "confirmReturn" /\ At(t, "parcel")
    /\ \E S \in (SUBSET StockOf["confirmReturn"][job[t].order]) \ {{}} :
        Write(t, Version(ItsReturn(t), "Returned") ++ Moved(job[t].order, "Returned", "BackInShop"), Counting(tx[t], S))

CancelReturn(t) ==
    /\ Kind(t) = "cancelReturn" /\ At(t, "first")
    /\ IF View(t, ItsReturn(t)) = "Pending"
       THEN Write(t, Version(ItsReturn(t), "Cancelled"), [tx[t] EXCEPT !.pc = "parcel"])
       ELSE Fail(t)

\* A parcel that is not Failed is left alone, and not waited for.
StillWithCourier(t) ==
    /\ Kind(t) = "cancelReturn" /\ At(t, "parcel")
    /\ IF View(t, ItsParcel(t)) = "Failed"
       THEN Write(t, Version(ItsParcel(t), "WithCourier"), [tx[t] EXCEPT !.pc = "commit"])
       ELSE Read(t, [tx[t] EXCEPT !.pc = "commit"])

-----------------------------------------------------------------------------
(* Delivery batches *)

\* INSERT ... ON CONFLICT DO NOTHING: a save repeated after a lost answer finds its batch and is done.
CreateBatch(t) ==
    /\ Kind(t) = "create" /\ At(t, "first")
    /\ IF View(t, ItsBatch(t)) = "None"
       THEN Write(t, Version(ItsBatch(t), "Open"), [tx[t] EXCEPT !.pc = "select"])
       ELSE End(t, "done") /\ UNCHANGED db

Freeing(d, S) == [r \in {Entry(d, o) : o \in S} |-> "Freed"]

\* The batch is locked while it is Open, and the orders no longer wanted are taken out.
ChangeBatch(t) ==
    LET d == job[t].batch
        removed == ActiveIn(t, d) \ job[t].wanted
    IN  /\ Kind(t) = "change" /\ At(t, "first")
        /\ Free(t, Batch(d))
        /\ CASE View(t, Batch(d)) # "Open" -> Fail(t)
             [] ActiveIn(t, d) = job[t].wanted -> End(t, "done") /\ UNCHANGED db
             [] OTHER -> Write(t, Version(Batch(d), "Open") ++ Freeing(d, removed), [tx[t] EXCEPT !.pc = "select"])

\* refuse_stale: someone changed the batch's row after the person opened it, at any earlier time.
RefuseStale(t) ==
    /\ Kind(t) = "change" /\ At(t, "first")
    /\ Free(t, ItsBatch(t))
    /\ Fail(t)

\* Faulty form of CancelBatch: a batch the courier has is cancelled too.
CancelBatchAnyTime(t) ==
    LET d == job[t].batch
    IN  /\ Kind(t) = "cancelBatch" /\ At(t, "first")
        /\ Write(t, Version(Batch(d), "Cancelled") ++ Freeing(d, ActiveIn(t, d)), [tx[t] EXCEPT !.pc = "commit"])

CancelBatch(t) ==
    LET d == job[t].batch
    IN  /\ Kind(t) = "cancelBatch" /\ At(t, "first")
        /\ IF View(t, Batch(d)) = "Open"
           THEN Write(t, Version(Batch(d), "Cancelled") ++ Freeing(d, ActiveIn(t, d)), [tx[t] EXCEPT !.pc = "commit"])
           ELSE Fail(t)

HandOverBatch(t) ==
    /\ Kind(t) = "handOver" /\ At(t, "first")
    /\ IF View(t, ItsBatch(t)) = "Open"
       THEN Write(t, Version(ItsBatch(t), "HandedOver"), [tx[t] EXCEPT !.pc = "select"])
       ELSE Fail(t)

DeliverBatch(t) ==
    /\ Kind(t) = "deliver" /\ At(t, "first")
    /\ Free(t, ItsBatch(t))
    /\ IF View(t, ItsBatch(t)) = "HandedOver"
       THEN Lock(t, ItsBatch(t), [tx[t] EXCEPT !.pc = "select"])
       ELSE Fail(t)

\* The orders a statement selects to lock, and among them those whose parcel looked right: in its
\* snapshot, for the parcels' rows are not locked.
Select(t, orders, right) == Read(t, [tx[t] EXCEPT !.pc = "lock", !.todo = orders, !.seen = right])

IsReady(t, o) == View(t, Order(o)) = "Confirmed" /\ View(t, Parcel(o)) = "Preparing"
InABatch(t, o) == \E d \in DeliveryBatches : View(t, Entry(d, o)) = "Active"

\* addOrders looks for the orders that are ready and in no batch.
SelectToAdd(t) ==
    LET added == job[t].wanted \ ActiveIn(t, job[t].batch)
    IN  /\ Kind(t) \in {"create", "change"} /\ At(t, "select")
        /\ Select(t, {o \in added : IsReady(t, o) /\ ~InABatch(t, o)}, added)

SelectToHandOver(t) ==
    LET orders == ActiveIn(t, job[t].batch)
    IN  /\ Kind(t) = "handOver" /\ At(t, "select")
        /\ Select(t, orders, {o \in orders : View(t, Parcel(o)) = "Preparing"})

SelectToDeliver(t) ==
    LET orders == ActiveIn(t, job[t].batch) \cap job[t].wanted
    IN  /\ Kind(t) = "deliver" /\ At(t, "select")
        /\ IF orders = job[t].wanted
           THEN Select(t, orders, {o \in orders : View(t, Parcel(o)) = "WithCourier"})
           ELSE Fail(t)

\* addOrders locks its orders as the database finds them, the others oldest first.
InTurn(t, o) == o \in tx[t].todo /\ (Kind(t) \in {"create", "change"} \/ \A p \in tx[t].todo : o <= p)

\* Faulty form of Fits: the order as it was before the wait for its row.
FitsAsSelected(t, o) == o \in tx[t].seen

\* Whether an order just locked, in its newest version, is one to go on with.
Fits(t, o) ==
    CASE Kind(t) = "deliver" -> IsConfirmed(View(t, Order(o))) /\ o \in tx[t].seen
      [] OTHER -> View(t, Order(o)) = "Confirmed" /\ o \in tx[t].seen

LockOrder(t, o) ==
    /\ At(t, "lock") /\ Kind(t) \in {"create", "change", "handOver", "deliver"}
    /\ InTurn(t, o)
    /\ Lock(t, Order(o), [tx[t] EXCEPT !.todo = @ \ {o}, !.fit = IF Fits(t, o) THEN @ \cup {o} ELSE @])

AllLocked(t) == At(t, "lock") /\ tx[t].todo = {} /\ Kind(t) # "confirmReturn"
GoOn(t) == [tx[t] EXCEPT !.pc = IF tx[t].fit = {} THEN "commit" ELSE "work", !.todo = tx[t].fit]

\* Every order asked for has to be fit to join the batch.
AllFitToAdd(t) ==
    /\ AllLocked(t) /\ Kind(t) \in {"create", "change"}
    /\ IF tx[t].fit = tx[t].seen THEN Read(t, GoOn(t)) ELSE Fail(t)

\* Faulty form of LeaveOut: the orders left out stay in the batch.
LeaveOutInBatch(t) ==
    /\ AllLocked(t) /\ Kind(t) = "handOver"
    /\ IF tx[t].fit # {} THEN Read(t, GoOn(t)) ELSE Fail(t)

\* Orders no longer ready are left out of the hand-over and freed; the rest still go.
LeaveOut(t) ==
    LET d == job[t].batch
    IN  /\ AllLocked(t) /\ Kind(t) = "handOver"
        /\ IF tx[t].fit # {}
           THEN Write(t, Freeing(d, ActiveIn(t, d) \ tx[t].fit), GoOn(t))
           ELSE Fail(t)

SomeToDeliver(t) ==
    /\ AllLocked(t) /\ Kind(t) = "deliver"
    /\ IF tx[t].fit # {} THEN Read(t, GoOn(t)) ELSE Fail(t)

\* The next order is done; after the last one the transaction commits.
Done(t, o) == [tx[t] EXCEPT !.pc = IF tx[t].todo = {o} THEN "commit" ELSE @, !.todo = @ \ {o}]

\* Faulty form of AddEntry: without the partial unique index.
AddEntryUnchecked(t, o) ==
    /\ Kind(t) \in {"create", "change"} /\ At(t, "work")
    /\ o \in tx[t].todo
    /\ Write(t, Version(Entry(job[t].batch, o), "Active"), Done(t, o))

\* The partial unique index waits for another entry of the order that is being written, and refuses a
\* second Active one.
AddEntry(t, o) ==
    LET others == {Entry(d, o) : d \in DeliveryBatches \ {job[t].batch}}
    IN  /\ Kind(t) \in {"create", "change"} /\ At(t, "work")
        /\ o \in tx[t].todo
        /\ \A r \in others : Free(t, r)
        /\ IF \A r \in others : View(t, r) # "Active"
           THEN Write(t, Version(Entry(job[t].batch, o), "Active"), Done(t, o))
           ELSE Fail(t)

\* dispatchOrder: the order from Confirmed, its parcel from Preparing, or nothing at all.  (No handler
\* writes 'Packed'.)  The order is locked, so its two statements see the same.  Its batches of stock are locked
\* as its holds come back.  (The code does so between the two; a Preparing parcel is free for it all the while.)
DispatchOrder(t, o) ==
    /\ Kind(t) = "handOver" /\ At(t, "work")
    /\ InTurn(t, o)
    /\ IF View(t, Order(o)) = "Confirmed" /\ View(t, Parcel(o)) = "Preparing"
       THEN Write(t, Moved(o, "Dispatched", "WithCourier"), Counting(Done(t, o), StockOf["handOver"][o]))
       ELSE Fail(t)

\* Faulty form of DeliverOrder: the parcel as the hand-picked list showed it is believed.
DeliverOrderUnguarded(t, o) ==
    /\ Kind(t) = "deliver" /\ At(t, "work")
    /\ InTurn(t, o)
    /\ Write(t, Moved(o, "Delivered", "Delivered"), Counting(Done(t, o), StockOf["deliver"][o]))

\* deliverOrder: a parcel that failed while the order was waited for is never a sale.  What is sold is counted
\* in the figures of its products, line by line.
DeliverOrder(t, o) ==
    /\ Kind(t) = "deliver" /\ At(t, "work")
    /\ InTurn(t, o)
    /\ IF View(t, Order(o)) = "Dispatched" /\ View(t, Parcel(o)) = "WithCourier"
       THEN Write(t, Moved(o, "Delivered", "Delivered"), Counting(Done(t, o), StockOf["deliver"][o]))
       ELSE Fail(t)

\* The units of an order just moved are counted in one row after the other, and every row stays locked while
\* the next order is done.
LockStock(t, s) ==
    /\ At(t, "stock")
    /\ Units(s) \in tx[t].seen
    /\ Lock(t, Units(s), [tx[t] EXCEPT
            !.seen = @ \ {Units(s)},
            !.pc = CASE tx[t].seen # {Units(s)} -> "stock" [] tx[t].todo # {} -> "work" [] OTHER -> "commit"])

-----------------------------------------------------------------------------

\* The rows the next statement of t has to lock, and may have to wait for.
Needs(t) ==
    CASE At(t, "first") -> CASE Kind(t) \in {"confirm", "cancel", "notDelivered"} -> {It(t)}
                             [] Kind(t) \in {"confirmReturn", "cancelReturn"} -> {ItsReturn(t)}
                             [] OTHER -> {ItsBatch(t)}
      [] At(t, "parcel") -> {It(t), ItsParcel(t)} \ (IF Kind(t) = "cancelReturn" THEN {It(t)} ELSE {})
      [] At(t, "lock") -> IF Kind(t) = "confirmReturn" THEN {It(t)} ELSE {Order(o) : o \in {p \in Orders : InTurn(t, p)}}
      [] At(t, "work") -> IF Kind(t) \in {"create", "change"}
                          THEN {Entry(d, o) : d \in DeliveryBatches, o \in tx[t].todo}
                          ELSE {Parcel(o) : o \in {p \in Orders : InTurn(t, p)}}
      [] At(t, "stock") -> tx[t].seen
      [] OTHER -> {}

RecordStep(t) ==
    \/ ConfirmOrder(t) \/ PrepareParcel(t)
    \/ CancelOrder(t)
    \/ LockUndelivered(t) \/ MarkFailed(t)
    \/ LockReturn(t) \/ ReadReturnedParcel(t) \/ LockReturnedOrder(t) \/ TakeParcelBack(t)
    \/ CancelReturn(t) \/ StillWithCourier(t)

BatchStep(t) ==
    \/ CreateBatch(t) \/ ChangeBatch(t) \/ RefuseStale(t) \/ CancelBatch(t) \/ HandOverBatch(t) \/ DeliverBatch(t)
    \/ SelectToAdd(t) \/ SelectToHandOver(t) \/ SelectToDeliver(t)
    \/ AllFitToAdd(t) \/ LeaveOut(t) \/ SomeToDeliver(t)
    \/ \E o \in Orders : LockOrder(t, o) \/ AddEntry(t, o) \/ DispatchOrder(t, o) \/ DeliverOrder(t, o)

StockStep(t) == \E s \in Stock : LockStock(t, s)

Next ==
    \/ \E t \in Requests : RecordStep(t) \/ BatchStep(t) \/ StockStep(t) \/ Commit(t) \/ Interrupt(t) \/ BreakDeadlock(t, Needs)
    \/ AllAnswered

Spec == Init /\ [][Next]_vars

-----------------------------------------------------------------------------
(* Properties *)

TypeOK ==
    /\ RowTypes(db)
    /\ lock \in [Rows -> Requests \cup {NoRequest}]
    /\ \A t \in Requests : {r \in Rows : lock[r] = t} = DOMAIN tx[t].mine

\* A parcel is where its order and its batches say: with the courier of a batch that was handed over, or
\* in one batch at most and free for another.
ParcelsAreWhereBatchesSay == TypeOK /\ RowsAgree(db)

\* Pressing Deliver, Not delivered and the return's buttons at once never ends in a deadlock over orders,
\* parcels, batches and returns: every deadlock has a request in it that puts orders in a batch, which locks
\* them in no order, or is one over rows of stock and figures alone (mark-order-not-delivered.js on the order of
\* its locks; order-moves.js).
RecordsMeetOnStock ==
    \A S \in SUBSET Requests : Deadlocked(S, Needs) =>
        \/ \E t \in S : Kind(t) \in {"create", "change"}
        \/ \A t \in S : At(t, "stock")

\* Every press takes effect at one instant, or is refused.
Shop == INSTANCE Parcels WITH
    Batches <- DeliveryBatches,
    standing <- [o \in Orders |-> StandingOf(db, o)],
    batch <- [d \in DeliveryBatches |-> db[Batch(d)]],
    contents <- [d \in DeliveryBatches |-> {o \in Orders : db[Entry(d, o)] = "Active"}]

ImplementsParcels == Shop!Spec
=============================================================================
