------------------------------- MODULE Returns -------------------------------
(***************************************************************************)
(* The units and the money of one order after it is placed: cancelled,     *)
(* delivered, returned in parts by returns that are raised, confirmed or   *)
(* cancelled by different people, and refunded.                            *)
(*                                                                         *)
(* Every handler here locks the order, so each is one step, with one       *)
(* exception: cancelling a return locks that return only, and falls        *)
(* between the statements of a return being raised.  The order has one row *)
(* per line, at one price; amounts are whole.                              *)
(***************************************************************************)
EXTENDS Integers, FiniteSets, Functions

CONSTANTS
    Lines,            \* the lines of the order
    Quantity,         \* the units sold on each line
    UnitPrice,        \* what one unit of a line was sold for, its discount taken off
    DeliveryCharge,   \* what an online order pays for delivery
    MaxReturns,       \* how many returns are raised against the order
    Advances          \* the part payments the order may have been placed with

ASSUME LinesAssumption ==
    /\ IsFiniteSet(Lines) /\ Lines # {}
    /\ Quantity \in [Lines -> Nat \ {0}]
    /\ UnitPrice \in [Lines -> Nat]
ASSUME MoneyAssumption == DeliveryCharge \in Nat /\ MaxReturns \in Nat /\ Advances \subseteq Nat

VARIABLES
    order,      \* orders and online_order: where the order and its money stand
    returned,   \* order_items.returned_qty
    returns,    \* product_return and return_details
    raising     \* the return being raised, while its order is locked

vars == <<order, returned, returns, raising>>

Returns == 1..MaxReturns

OrderType ==
    [ channel : {"POS", "ONLINE"},
      status : {"Pending", "Confirmed", "Cancelled", "Purchased", "Delivered", "PartiallyReturned", "Returned"},
      parcel : {"None", "Preparing", "WithCourier", "Delivered", "Failed", "BackInShop"},
      payment : {"unpaid", "partially_paid", "paid", "partially_refunded", "refunded"},
      paid : Nat,        \* amount_paid
      refunded : Nat,    \* amount_refunded
      due : Nat,         \* refund_due
      refund : {"None", "ToRefund", "Refunded"} ]

Units == [Lines -> Nat]

ReturnType ==
    [ status : {"None", "Pending", "Returned", "Cancelled"},
      units : Units,
      refund : Nat,               \* refund_amount
      withDelivery : BOOLEAN,     \* refund_delivery_charge
      notDelivered : BOOLEAN ]    \* return_reason is not_delivered

NoUnits == [l \in Lines |-> 0]
NoReturn == [status |-> "None", units |-> NoUnits, refund |-> 0, withDelivery |-> FALSE, notDelivered |-> FALSE]
NotRaising == [nth |-> 0, units |-> NoUnits, withDelivery |-> FALSE, notDelivered |-> FALSE, whole |-> FALSE]

ValueOf(units) == SumFunction([l \in Lines |-> units[l] * UnitPrice[l]])
Delivery == IF order.channel = "ONLINE" THEN DeliveryCharge ELSE 0
Total == ValueOf(Quantity) + Delivery

Least(a, b) == IF a <= b THEN a ELSE b
AtLeastZero(a) == IF a >= 0 THEN a ELSE 0

Pending == {n \in Returns : returns[n].status = "Pending"}
Settled == {n \in Returns : returns[n].status = "Returned"}
PendingUnits(l) == SumFunctionOnSet([n \in Returns |-> returns[n].units[l]], Pending)
PendingRefunds == SumFunctionOnSet([n \in Returns |-> returns[n].refund], Pending)

\* The payment status is authoritative, not the amount paid.
Received ==
    CASE order.payment = "paid" -> Total
      [] order.payment = "unpaid" -> 0
      [] OTHER -> order.paid

Refundable(pending) == AtLeastZero(Received - order.refunded - order.due - pending)

TypeOK ==
    /\ order \in OrderType
    /\ returned \in Units
    /\ returns \in [Returns -> ReturnType]
    /\ raising \in [nth : 0..MaxReturns, units : Units, withDelivery : BOOLEAN, notDelivered : BOOLEAN, whole : BOOLEAN]

Placed(channel, status, parcel, payment, paid) ==
    [channel |-> channel, status |-> status, parcel |-> parcel, payment |-> payment, paid |-> paid,
     refunded |-> 0, due |-> 0, refund |-> "None"]

\* A counter sale; an online order from its placing to the courier; paid, in part or not at all.
Init ==
    /\ \E payment \in {"unpaid", "partially_paid", "paid"}, advance \in Advances :
        \/ /\ order = Placed("POS", "Purchased", "None", payment,
                             CASE payment = "paid" -> ValueOf(Quantity) [] payment = "unpaid" -> 0 [] OTHER -> advance)
           /\ payment = "partially_paid" => advance < ValueOf(Quantity)
        \/ /\ \E s \in {<<"Pending", "None">>, <<"Confirmed", "Preparing">>, <<"Confirmed", "WithCourier">>} :
                order = Placed("ONLINE", s[1], s[2], payment,
                               CASE payment = "paid" -> ValueOf(Quantity) + DeliveryCharge [] payment = "unpaid" -> 0 [] OTHER -> advance)
           /\ payment = "partially_paid" => advance < ValueOf(Quantity) + DeliveryCharge
    /\ returned = NoUnits
    /\ returns = [n \in Returns |-> NoReturn]
    /\ raising = NotRaising

\* The order's row is free to lock.
OrderFree == raising = NotRaising

-----------------------------------------------------------------------------
(* The order's own handlers *)

\* Only before dispatch.  The money the business holds is owed back.
CancelOrder ==
    LET owed == AtLeastZero(Received - order.refunded)
    IN  /\ OrderFree
        /\ order.channel = "ONLINE" /\ order.status \in {"Pending", "Confirmed"} /\ order.parcel \in {"None", "Preparing"}
        /\ order' = [order EXCEPT !.status = "Cancelled",
                                  !.due = IF owed > 0 THEN owed ELSE @,
                                  !.refund = IF owed > 0 THEN "ToRefund" ELSE @]
        /\ UNCHANGED <<returned, returns, raising>>

\* The courier collected what was left, so the order is paid in full.
DeliverOrder ==
    /\ OrderFree
    /\ order.status = "Confirmed" /\ order.parcel = "WithCourier"
    /\ order' = [order EXCEPT !.status = "Delivered", !.parcel = "Delivered", !.payment = "paid",
                              !.paid = IF order.payment = "paid" THEN @ ELSE Total]
    /\ UNCHANGED <<returned, returns, raising>>

\* Faulty form of RecordRefund: the refund stays owed after the last of it was sent.
RecordRefundStillOwed(amount) ==
    /\ OrderFree
    /\ order.channel = "ONLINE" /\ order.refund = "ToRefund"
    /\ amount <= order.due
    /\ order' = [order EXCEPT !.refunded = @ + amount, !.due = @ - amount]
    /\ UNCHANGED <<returned, returns, raising>>

\* The business says it sent money back, as much as is owed at most.
RecordRefund(amount) ==
    /\ OrderFree
    /\ order.channel = "ONLINE" /\ order.refund = "ToRefund"
    /\ amount <= order.due
    /\ order' = [order EXCEPT !.refunded = @ + amount,
                              !.due = @ - amount,
                              !.refund = IF order.due = amount THEN "Refunded" ELSE "ToRefund",
                              !.payment = IF order.paid - order.refunded - amount <= 0 THEN "refunded" ELSE "partially_refunded"]
    /\ UNCHANGED <<returned, returns, raising>>

-----------------------------------------------------------------------------
(* Returns *)

\* Faulty form of Outstanding: the units on returns not confirmed yet are not counted.
OutstandingOfConfirmed(l) == Quantity[l] - returned[l]

\* The units of a line that are on no return.
Outstanding(l) == Quantity[l] - returned[l] - PendingUnits(l)

\* raiseReturn, up to its reading of the units: the order is locked, and the units asked for must be out.
StartRaise(units, withDelivery, notDelivered) ==
    LET whole == \A l \in Lines : Outstanding(l) = units[l]
    IN  /\ units # NoUnits
        /\ \A l \in Lines : units[l] <= Outstanding(l)
        /\ withDelivery => whole
        /\ \E n \in Returns :
            /\ returns[n].status = "None" /\ \A m \in 1..(n - 1) : returns[m].status # "None"
            /\ raising' = [nth |-> n, units |-> units, withDelivery |-> withDelivery, notDelivered |-> notDelivered, whole |-> whole]
        /\ UNCHANGED <<returned, returns>>

CreateReturn(units, withDelivery) ==
    /\ OrderFree
    /\ order.status \in {"Purchased", "Delivered", "PartiallyReturned"}
    /\ StartRaise(units, withDelivery, FALSE)
    /\ UNCHANGED order

\* Not delivered raises a return of everything on the parcel.
NotDelivered ==
    /\ OrderFree
    /\ order.status = "Confirmed" /\ order.parcel = "WithCourier"
    /\ StartRaise([l \in Lines |-> AtLeastZero(Outstanding(l))], FALSE, TRUE)
    /\ UNCHANGED order

\* Faulty form of RefundOf: the refunds of other returns waiting are not counted.
RefundOfAlone(r) ==
    LET value == ValueOf(r.units) + (IF r.withDelivery THEN Delivery ELSE 0)
        kept == IF r.whole /\ ~r.withDelivery THEN Delivery ELSE 0
    IN  Least(value, AtLeastZero(Refundable(0) - kept))

\* Faulty form of RefundOf: an advance goes back with the delivery charge in it.
RefundOfEverything(r) ==
    LET value == ValueOf(r.units) + (IF r.withDelivery THEN Delivery ELSE 0)
    IN  Least(value, Refundable(PendingRefunds))

\* Faulty form of RefundOf: a return of everything is worth the delivery charge too.
RefundOfWholeWithDelivery(r) == Least(ValueOf(r.units) + (IF r.whole THEN Delivery ELSE 0), Refundable(PendingRefunds))

\* What a return gives back: its worth, out of money received that is not spoken for.  When everything
\* comes back and the delivery charge is kept, the money left must cover it.
RefundOf(r) ==
    LET value == ValueOf(r.units) + (IF r.withDelivery THEN Delivery ELSE 0)
        kept == IF r.whole /\ ~r.withDelivery THEN Delivery ELSE 0
    IN  Least(value, AtLeastZero(Refundable(PendingRefunds) - kept))

\* raiseReturn goes on from its reading of the refunds to COMMIT.
FinishRaise ==
    /\ ~OrderFree
    /\ returns' = [returns EXCEPT ![raising.nth] =
        [status |-> "Pending", units |-> raising.units, refund |-> RefundOf(raising),
         withDelivery |-> raising.withDelivery, notDelivered |-> raising.notDelivered]]
    /\ order' = IF raising.notDelivered THEN [order EXCEPT !.parcel = "Failed"] ELSE order
    /\ raising' = NotRaising
    /\ UNCHANGED returned

\* The transaction that raises a return is rolled back.
DropRaise ==
    /\ ~OrderFree
    /\ raising' = NotRaising
    /\ UNCHANGED <<order, returned, returns>>

\* Faulty form of AllBack: units on returns still waiting count as back.
AllBackOrOnTheWay(back) == \A l \in Lines : back[l] + PendingUnits(l) >= Quantity[l]

AllBack(back) == \A l \in Lines : back[l] = Quantity[l]

\* Faulty form of Confirmable: a return that gives the delivery charge back settles without the rest.
ConfirmableInPart(r, back) == \A l \in Lines : back[l] <= Quantity[l]

\* A return still fits its order when its units are out and, where it gives the delivery charge back,
\* everything has come back with it.
Confirmable(r, back) ==
    /\ \A l \in Lines : back[l] <= Quantity[l]
    /\ r.withDelivery => AllBack(back)

\* The units go onto the shelf or are written off, and the money is handed over the counter or owed.
ConfirmReturn(n) ==
    LET r == returns[n]
        back == [l \in Lines |-> returned[l] + r.units[l]]
        refund == Least(r.refund, Refundable(0))
        moved == [order EXCEPT !.status = IF AllBack(back) THEN "Returned" ELSE "PartiallyReturned",
                               !.parcel = IF r.notDelivered THEN "BackInShop" ELSE @]
    IN  /\ OrderFree
        /\ r.status = "Pending"
        /\ IF r.notDelivered
           THEN order.status = "Confirmed" /\ order.parcel = "Failed"
           ELSE order.status \in {"Purchased", "Delivered", "PartiallyReturned"}
        /\ Confirmable(r, back)
        /\ returned' = back
        /\ returns' = [returns EXCEPT ![n].status = "Returned", ![n].refund = refund]
        /\ order' =
            CASE refund = 0 -> moved
              [] refund > 0 /\ order.channel = "POS" ->
                    [moved EXCEPT !.refunded = @ + refund, !.refund = "Refunded",
                                  !.payment = IF order.paid - order.refunded - refund <= 0 THEN "refunded" ELSE "partially_refunded"]
              [] OTHER -> [moved EXCEPT !.due = @ + refund, !.refund = "ToRefund"]
        /\ UNCHANGED raising

\* Only a return that is waiting, whoever has the order locked.  A parcel reported not delivered by
\* mistake is with the courier again.
CancelReturn(n) ==
    /\ returns[n].status = "Pending"
    /\ returns' = [returns EXCEPT ![n].status = "Cancelled"]
    /\ order' = IF returns[n].notDelivered /\ order.parcel = "Failed" THEN [order EXCEPT !.parcel = "WithCourier"] ELSE order
    /\ UNCHANGED <<returned, raising>>

Next ==
    \/ CancelOrder \/ DeliverOrder \/ NotDelivered
    \/ \E amount \in 1..Total : RecordRefund(amount)
    \/ \E units \in [Lines -> UNION {0..Quantity[l] : l \in Lines}], withDelivery \in BOOLEAN : CreateReturn(units, withDelivery)
    \/ FinishRaise \/ DropRaise
    \/ \E n \in Returns : ConfirmReturn(n) \/ CancelReturn(n)

Spec == Init /\ [][Next]_vars

-----------------------------------------------------------------------------
(* Properties *)

\* No unit is on two returns: what came back and what is waiting to never exceeds what was sold
\* (return-utils.js getPendingReturnQty).
NoUnitReturnedTwice == \A l \in Lines : returned[l] + PendingUnits(l) <= Quantity[l]

\* What was given back, is owed back and is promised by returns still waiting never exceeds what the
\* business received, through deliveries, part refunds and cancelled returns (refundableNow).
PromisesCovered == order.refunded + order.due + PendingRefunds <= Received

\* Money goes back only for what came back: never for units the customer kept, nor the delivery charge
\* before the whole order came back (splitReturnValue, confirm-return.js on refund_delivery_charge).
RefundsAreEarned ==
    order.status # "Cancelled" =>
        order.refunded + order.due <= ValueOf(returned) + (IF \E n \in Settled : returns[n].withDelivery THEN Delivery ELSE 0)

\* The delivery charge is given back once, by the return that completes the order.
DeliveryGivenBackWithTheOrder ==
    \A n \in Settled : returns[n].withDelivery => order.status = "Returned" /\ \A m \in Settled \ {n} : ~returns[m].withDelivery

\* When the parcel never arrived, or everything came back with the delivery charge kept, the business
\* keeps the charge, or all it was given where that is less (raiseReturn, kept_delivery).
DeliveryChargeKept ==
    order.status = "Returned" /\ (\A n \in Settled : ~returns[n].withDelivery) =>
        Received - order.refunded - order.due >= Least(Delivery, Received)

\* What is owed and given back is covered by what was received, earned by what came back, and gives the
\* delivery charge back once or not at all, whatever part refunds, cancelled returns and deliveries come between.
RefundsAreRight == TypeOK /\ PromisesCovered /\ RefundsAreEarned /\ DeliveryGivenBackWithTheOrder /\ DeliveryChargeKept

\* The order says it is owed a refund exactly while money is owed, so it can always be recorded, and
\* never more than once (record-order-refund.js).
OwedWhileDue == order.refund = "ToRefund" <=> order.due > 0

\* The order's status says how much of it came back.
StatusTellsReturned ==
    /\ order.status = "Returned" <=> returned = Quantity
    /\ order.status = "PartiallyReturned" => returned # NoUnits
    /\ order.status \in {"Confirmed", "Cancelled", "Pending", "Purchased", "Delivered"} => returned = NoUnits

\* What the order says of its refund and its returns is so.
OrderTellsItsReturns == OwedWhileDue /\ StatusTellsReturned
=============================================================================
