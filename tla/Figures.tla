------------------------------ MODULE Figures ------------------------------
(***************************************************************************)
(* What the reports read: orders from their placing to their returns, the  *)
(* stock and the papers that move it, day by day.                          *)
(*                                                                         *)
(* Every handler is one step here: that they behave as single steps is     *)
(* what StockTx, ParcelTx, Returns, BackOffice and SalesDesk are about.    *)
(* What is kept is each date, amount and count that a report reads.  The   *)
(* money of an order is worked out as Returns does.                        *)
(***************************************************************************)
EXTENDS Integers, FiniteSetsExt

CONSTANTS
    Sold,        \* order_items: the order, batch, quantity, price and discount of each line
    Deal,        \* the channel, buyer, seller, source, place, delivery charge, payment and gift of each order
    Stock,       \* inventory: the product, cost, price, use and place of each batch, and how it came
    Goods,       \* product: its category, sub-category, brand and restock level
    Papers,      \* purchases, disposals and adjustments: the kind, batch and units of each, and their reason
    Plans,       \* bound: the orders, papers and deletes that happen together in one behaviour, with or without "edits", "returns" and "payments"
    LastDay,     \* bound: the days that are modelled
    MaxReturns   \* bound: the returns raised against one order

ASSUME FiguresAssumption == LastDay \in Nat \ {0} /\ MaxReturns \in Nat /\ IsFiniteSet(Plans)

VARIABLES
    plan,       \* what happens in this behaviour
    today,      \* the business's day
    order,      \* orders and online_order, as in Returns
    dates,      \* when each order was placed (each Pending row of its history), confirmed, dispatched and sold
    returned,   \* order_items.returned_qty
    returns,    \* product_return and return_details
    gift,       \* the giveaway on each order
    onHand,     \* inventory.quantity_available
    moved,      \* stock_movement: the units each batch moved on each day, by reason
    paper,      \* where each purchase, disposal and adjustment stands, and the day it was approved
    writtenOff, \* the disposals that damaged returns become: units of a batch on a day
    stats,      \* product_stats
    deleted     \* product.is_deleted

documents == <<order, dates, returned, returns, gift>>
shelf == <<onHand, moved, stats>>
desk == <<paper, writtenOff, deleted>>
vars == <<plan, today, documents, shelf, desk>>

Orders == DOMAIN Deal
Lines == DOMAIN Sold
Batches == DOMAIN Stock
Products == DOMAIN Goods
Days == 1..LastDay
Reasons == {"carried_over", "received", "sold", "dispatched", "returned", "given_away", "gift_returned", "disposed", "adjusted"}
Counters == {"total_sold", "total_returned", "total_damaged", "total_wasted", "total_given_away"}

SumOver(f(_), S) == MapThenSumSet(f, S)
LinesOf(o) == {l \in Lines : Sold[l].order = o}
UnitsOf(o, b) == SumOver(LAMBDA l : IF Sold[l].batch = b THEN Sold[l].quantity ELSE 0, LinesOf(o))
ProductOf(l) == Stock[Sold[l].batch].product
Net(l) == Sold[l].price - Sold[l].discount
GiftUnits(o, b) == IF Deal[o].gift = b THEN 1 ELSE 0

\* The order's money, as its returns work it out.
Money(o) == INSTANCE Returns WITH
    Lines <- LinesOf(o), Quantity <- [l \in LinesOf(o) |-> Sold[l].quantity], UnitPrice <- [l \in LinesOf(o) |-> Net(l)],
    DeliveryCharge <- Deal[o].charge, MaxReturns <- MaxReturns, Advances <- {},
    order <- order[o], returned <- [l \in LinesOf(o) |-> returned[l]], returns <- returns[o],
    raising <- [nth |-> 0, units |-> [l \in LinesOf(o) |-> 0], withDelivery |-> FALSE, notDelivered |-> FALSE, whole |-> FALSE]

\* stock_hold: what orders not yet dispatched hold, their gifts among it.
Waiting == {o \in Orders : order[o].channel = "ONLINE" /\ order[o].parcel \in {"None", "Preparing"} /\ order[o].status \in {"Pending", "Confirmed"}}
Held(b) == SumOver(LAMBDA o : UnitsOf(o, b) + GiftUnits(o, b), Waiting)

\* A batch exists from the start, or from its purchase's verifying on.
Exists(b) == Stock[b].purchase # "none" => paper[Stock[b].purchase].status = "Done"
Opening(b) == IF Stock[b].purchase = "none" THEN Stock[b].units ELSE 0

NotMade == [channel |-> "none", status |-> "none", parcel |-> "None", payment |-> "unpaid", paid |-> 0, refunded |-> 0, due |-> 0, refund |-> "None"]
Undated == [placed |-> {}, confirmed |-> 0, dispatched |-> 0, sold |-> 0, business |-> FALSE]
NoReturn(o) == [status |-> "None", units |-> [l \in LinesOf(o) |-> 0], refund |-> 0, withDelivery |-> FALSE, notDelivered |-> FALSE, damaged |-> {}, on |-> 0]

Init ==
    /\ plan \in Plans
    /\ today = 1
    /\ order = [o \in Orders |-> NotMade]
    /\ dates = [o \in Orders |-> Undated]
    /\ returned = [l \in Lines |-> 0]
    /\ returns = [o \in Orders |-> [n \in 1..MaxReturns |-> NoReturn(o)]]
    /\ gift = [o \in Orders |-> [status |-> "None", on |-> 0]]
    /\ onHand = [b \in Batches |-> Opening(b)]
    /\ moved = [b \in Batches |-> [d \in Days |-> [r \in Reasons |-> IF d = 1 /\ r = "carried_over" THEN Opening(b) ELSE 0]]]
    /\ paper = [p \in DOMAIN Papers |-> [status |-> "Submitted", on |-> 0, payment |-> "unpaid", paid |-> 0]]
    /\ writtenOff = [b \in Batches |-> [d \in Days |-> 0]]
    /\ stats = [p \in Products |-> [c \in Counters |-> 0]]
    /\ deleted = [p \in Products |-> FALSE]

\* stock-movement.js: on hand and the ledger change together, by what `units` says of each batch.
Move(reason, units(_)) ==
    /\ onHand' = [b \in Batches |-> onHand[b] + units(b)]
    /\ moved' = [b \in Batches |-> [moved[b] EXCEPT ![today][reason] = @ + units(b)]]

\* product_stats: a counter of each product rises by what `units` says of its batches.
Counted(old, counter, units(_)) ==
    [p \in Products |-> [old[p] EXCEPT ![counter] = @ + SumOver(units, {b \in Batches : Stock[b].product = p})]]

-----------------------------------------------------------------------------
(* Orders *)

New(o, channel) == o \in plan /\ order[o] = NotMade /\ Deal[o].channel = channel
Fits(o) == \A b \in Batches : UnitsOf(o, b) + GiftUnits(o, b) > 0 =>
             Exists(b) /\ ~deleted[Stock[b].product] /\ UnitsOf(o, b) + GiftUnits(o, b) <= onHand[b] - Held(b)

Taken(o, status) ==
    [NotMade EXCEPT !.channel = Deal[o].channel, !.status = status, !.payment = Deal[o].payment,
        !.paid = CASE Deal[o].payment = "paid" -> SumOver(LAMBDA l : Net(l) * Sold[l].quantity, LinesOf(o)) + Deal[o].charge
                   [] Deal[o].payment = "unpaid" -> 0
                   [] OTHER -> Deal[o].advance]

\* A counter sale is a sale at once.
CheckOut(o) ==
    /\ New(o, "POS") /\ Fits(o)
    /\ order' = [order EXCEPT ![o] = Taken(o, "Purchased")]
    /\ dates' = [dates EXCEPT ![o].sold = today]
    /\ Move("sold", LAMBDA b : -UnitsOf(o, b))
    /\ stats' = Counted(stats, "total_sold", LAMBDA b : UnitsOf(o, b))
    /\ UNCHANGED <<plan, today, returned, returns, gift, desk>>

Place(o) ==
    /\ New(o, "ONLINE") /\ Fits(o)
    /\ order' = [order EXCEPT ![o] = Taken(o, "Pending")]
    /\ dates' = [dates EXCEPT ![o].placed = {today}]
    /\ gift' = [gift EXCEPT ![o].status = IF Deal[o].gift = "none" THEN "None" ELSE "Planned"]
    /\ UNCHANGED <<plan, today, returned, returns, shelf, desk>>

\* Editing writes a Pending row to the history again.
Edit(o) ==
    /\ "edits" \in plan /\ order[o].status = "Pending"
    /\ dates' = [dates EXCEPT ![o].placed = @ \cup {today}]
    /\ UNCHANGED <<plan, today, order, returned, returns, gift, shelf, desk>>

Confirm(o) ==
    /\ order[o].status = "Pending"
    /\ order' = [order EXCEPT ![o].status = "Confirmed", ![o].parcel = "Preparing"]
    /\ dates' = [dates EXCEPT ![o].confirmed = today]
    /\ UNCHANGED <<plan, today, returned, returns, gift, shelf, desk>>

\* The parcel leaves: the held units off the shelf, and the gift with them.
Dispatch(o) ==
    /\ order[o].status = "Confirmed" /\ order[o].parcel = "Preparing"
    /\ \A b \in Batches : UnitsOf(o, b) + GiftUnits(o, b) <= onHand[b]
    /\ order' = [order EXCEPT ![o].parcel = "WithCourier"]
    /\ dates' = [dates EXCEPT ![o].dispatched = today]
    /\ onHand' = [b \in Batches |-> onHand[b] - UnitsOf(o, b) - GiftUnits(o, b)]
    /\ moved' = [b \in Batches |-> [moved[b] EXCEPT ![today]["dispatched"] = @ - UnitsOf(o, b), ![today]["given_away"] = @ - GiftUnits(o, b)]]
    /\ gift' = [gift EXCEPT ![o] = IF @.status = "Planned" THEN [status |-> "Given", on |-> today] ELSE @]
    /\ stats' = Counted(stats, "total_given_away", LAMBDA b : GiftUnits(o, b))
    /\ UNCHANGED <<plan, today, returned, returns, desk>>

\* Faulty form of SaleDay: the sale is dated when the parcel left.
DayOfLeaving(o) == dates[o].dispatched

\* An online order becomes a sale on the day it is delivered.
SaleDay(o) == today

\* The courier collected what was left.  The day of the sale is written once.
Deliver(o) ==
    /\ order[o].status = "Confirmed" /\ order[o].parcel = "WithCourier" /\ dates[o].sold = 0
    /\ order' = [order EXCEPT ![o].status = "Delivered", ![o].parcel = "Delivered", ![o].payment = "paid",
                              ![o].paid = IF order[o].payment = "paid" THEN @ ELSE Money(o)!Total]
    /\ dates' = [dates EXCEPT ![o].sold = SaleDay(o)]
    /\ stats' = Counted(stats, "total_sold", LAMBDA b : UnitsOf(o, b))
    /\ UNCHANGED <<plan, today, returned, returns, gift, onHand, moved, desk>>

\* Before dispatch, for a reason on the business's side or the customer's.  The holds are released.
Cancel(o, business) ==
    LET owed == Money(o)!AtLeastZero(Money(o)!Received - order[o].refunded)
    IN  /\ o \in Waiting
        /\ order' = [order EXCEPT ![o].status = "Cancelled", ![o].due = IF owed > 0 THEN owed ELSE @, ![o].refund = IF owed > 0 THEN "ToRefund" ELSE @]
        /\ dates' = [dates EXCEPT ![o].business = business]
        /\ gift' = [gift EXCEPT ![o].status = IF @ = "Planned" THEN "Cancelled" ELSE @]
        /\ UNCHANGED <<plan, today, returned, returns, shelf, desk>>

\* Bound: what is owed is sent back at once.
RecordRefund(o) ==
    /\ order[o].channel = "ONLINE" /\ order[o].refund = "ToRefund"
    /\ order' = [order EXCEPT ![o].refunded = @ + order[o].due, ![o].due = 0, ![o].refund = "Refunded",
                              ![o].payment = IF order[o].paid - order[o].refunded - order[o].due <= 0 THEN "refunded" ELSE "partially_refunded"]
    /\ UNCHANGED <<plan, today, dates, returned, returns, gift, shelf, desk>>

\* raiseReturn in one step, as Returns takes it in two.
Raise(o, units, withDelivery, notDelivered) ==
    LET whole == \A l \in LinesOf(o) : Money(o)!Outstanding(l) = units[l]
        r == [units |-> units, withDelivery |-> withDelivery, notDelivered |-> notDelivered, whole |-> whole]
    IN  /\ "returns" \in plan /\ \E l \in LinesOf(o) : units[l] > 0
        /\ \A l \in LinesOf(o) : units[l] <= Money(o)!Outstanding(l)
        /\ withDelivery => whole
        /\ \E n \in 1..MaxReturns :
            /\ returns[o][n].status = "None" /\ \A m \in 1..(n - 1) : returns[o][m].status # "None"
            /\ returns' = [returns EXCEPT ![o][n] = [NoReturn(o) EXCEPT !.status = "Pending", !.units = units, !.refund = Money(o)!RefundOf(r),
                                                                        !.withDelivery = withDelivery, !.notDelivered = notDelivered]]
        /\ order' = [order EXCEPT ![o].parcel = IF notDelivered THEN "Failed" ELSE @]
        /\ UNCHANGED <<plan, today, dates, returned, gift, shelf, desk>>

CreateReturn(o) ==
    /\ order[o].status \in {"Purchased", "Delivered", "PartiallyReturned"}
    /\ \E units \in [LinesOf(o) -> 0..Max({Sold[l].quantity : l \in LinesOf(o)})], withDelivery \in BOOLEAN : Raise(o, units, withDelivery, FALSE)

NotDelivered(o) ==
    /\ order[o].status = "Confirmed" /\ order[o].parcel = "WithCourier"
    /\ Raise(o, [l \in LinesOf(o) |-> Money(o)!AtLeastZero(Money(o)!Outstanding(l))], FALSE, TRUE)

CancelReturn(o, n) ==
    /\ returns[o][n].status = "Pending"
    /\ returns' = [returns EXCEPT ![o][n].status = "Cancelled"]
    /\ order' = [order EXCEPT ![o].parcel = IF returns[o][n].notDelivered /\ @ = "Failed" THEN "WithCourier" ELSE @]
    /\ UNCHANGED <<plan, today, dates, returned, gift, shelf, desk>>

\* Good units go back on the shelf, never onto a deleted product; damaged ones become a disposal approved
\* at once that moves no stock.  A parcel that never arrived counts no return, and its gift comes back.
ConfirmReturn(o, n, damaged) ==
    LET r == returns[o][n]
        back == [l \in LinesOf(o) |-> returned[l] + r.units[l]]
        refund == Money(o)!Least(r.refund, Money(o)!Refundable(0))
        moved1 == [order[o] EXCEPT !.status = IF Money(o)!AllBack(back) THEN "Returned" ELSE "PartiallyReturned",
                                   !.parcel = IF r.notDelivered THEN "BackInShop" ELSE @]
        units(b, lines) == SumOver(LAMBDA l : IF Sold[l].batch = b THEN r.units[l] ELSE 0, lines)
        good(b) == units(b, LinesOf(o) \ damaged)
        bad(b) == units(b, damaged)
        giftBack(b) == IF r.notDelivered /\ gift[o].status = "Given" THEN GiftUnits(o, b) ELSE 0
        counted == Counted(stats, "total_damaged", bad)
    IN  /\ r.status = "Pending"
        /\ IF r.notDelivered
           THEN order[o].status = "Confirmed" /\ order[o].parcel = "Failed"
           ELSE order[o].status \in {"Purchased", "Delivered", "PartiallyReturned"}
        /\ Money(o)!Confirmable(r, back)
        /\ damaged \subseteq {l \in LinesOf(o) : r.units[l] > 0}
        /\ \A b \in Batches : good(b) + giftBack(b) > 0 => ~deleted[Stock[b].product]
        /\ returned' = [l \in Lines |-> IF l \in LinesOf(o) THEN back[l] ELSE returned[l]]
        /\ returns' = [returns EXCEPT ![o][n].status = "Returned", ![o][n].refund = refund, ![o][n].damaged = damaged, ![o][n].on = today]
        /\ order' = [order EXCEPT ![o] =
            CASE refund = 0 -> moved1
              [] refund > 0 /\ order[o].channel = "POS" ->
                    [moved1 EXCEPT !.refunded = @ + refund, !.refund = "Refunded",
                                   !.payment = IF order[o].paid - order[o].refunded - refund <= 0 THEN "refunded" ELSE "partially_refunded"]
              [] OTHER -> [moved1 EXCEPT !.due = @ + refund, !.refund = "ToRefund"]]
        /\ onHand' = [b \in Batches |-> onHand[b] + good(b) + giftBack(b)]
        /\ moved' = [b \in Batches |-> [moved[b] EXCEPT ![today]["returned"] = @ + good(b), ![today]["gift_returned"] = @ + giftBack(b)]]
        /\ gift' = [gift EXCEPT ![o].status = IF r.notDelivered /\ @ = "Given" THEN "Returned" ELSE @]
        /\ writtenOff' = [b \in Batches |-> [writtenOff[b] EXCEPT ![today] = @ + bad(b)]]
        /\ stats' = Counted(IF r.notDelivered THEN counted ELSE Counted(counted, "total_returned", good), "total_given_away", LAMBDA b : -giftBack(b))
        /\ UNCHANGED <<plan, today, dates, paper, deleted>>

-----------------------------------------------------------------------------
(* Papers *)

Open(p, kind) == p \in plan /\ Papers[p].kind = kind /\ paper[p].status = "Submitted"
UnitsOn(p, b) == IF Papers[p].batch = b THEN Papers[p].units ELSE 0
Approved(p) == [paper EXCEPT ![p].status = "Done", ![p].on = today]
FreeOn(p) == onHand[Papers[p].batch] - Held(Papers[p].batch)

VerifyPurchase(p) ==
    /\ Open(p, "purchase")
    /\ Move("received", LAMBDA b : UnitsOn(p, b))
    /\ paper' = Approved(p)
    /\ UNCHANGED <<plan, today, documents, stats, writtenOff, deleted>>

PayPurchase(p, payment) ==
    /\ {p, "payments"} \subseteq plan /\ Papers[p].kind = "purchase" /\ paper[p].payment # payment
    /\ paper' = [paper EXCEPT ![p].payment = payment, ![p].paid = CASE payment = "paid" -> Papers[p].total [] payment = "unpaid" -> 0 [] OTHER -> Papers[p].advance]
    /\ UNCHANGED <<plan, today, documents, shelf, writtenOff, deleted>>

\* Only what no order holds is thrown away.
ApproveDisposal(p) ==
    /\ Open(p, "disposal") /\ Exists(Papers[p].batch) /\ Papers[p].units <= FreeOn(p)
    /\ Move("disposed", LAMBDA b : -UnitsOn(p, b))
    /\ paper' = Approved(p)
    /\ stats' = Counted(stats, IF Papers[p].reason \in {"damaged", "quality_reject"} THEN "total_damaged" ELSE "total_wasted", LAMBDA b : UnitsOn(p, b))
    /\ UNCHANGED <<plan, today, documents, writtenOff, deleted>>

VerifyAdjustment(p) ==
    /\ \/ Open(p, "in") /\ ~deleted[Stock[Papers[p].batch].product] /\ Move("adjusted", LAMBDA b : UnitsOn(p, b))
       \/ Open(p, "out") /\ Papers[p].units <= FreeOn(p) /\ Move("adjusted", LAMBDA b : -UnitsOn(p, b))
    /\ Exists(Papers[p].batch)
    /\ paper' = Approved(p)
    /\ UNCHANGED <<plan, today, documents, stats, writtenOff, deleted>>

BatchesOf(p) == {b \in Batches : Stock[b].product = p}

\* Faulty form of Idle: what is still to arrive is not looked at.
EmptyShelf(p) == \A b \in BatchesOf(p) : onHand[b] = 0 /\ Held(b) = 0

\* Nothing on hand, nothing promised and nothing to arrive.
Idle(p) ==
    /\ \A b \in BatchesOf(p) : onHand[b] = 0 /\ Held(b) = 0
    /\ \A q \in plan \cap DOMAIN Papers : Papers[q].kind = "purchase" /\ Stock[Papers[q].batch].product = p => paper[q].status # "Submitted"

DeleteProduct(p) ==
    /\ p \in plan /\ ~deleted[p] /\ Idle(p)
    /\ deleted' = [deleted EXCEPT ![p] = TRUE]
    /\ UNCHANGED <<plan, today, documents, shelf, paper, writtenOff>>

NextDay == today < LastDay /\ today' = today + 1 /\ UNCHANGED <<plan, documents, shelf, desk>>

Next ==
    \/ \E o \in Orders :
        \/ CheckOut(o) \/ Place(o) \/ Edit(o) \/ Confirm(o) \/ Dispatch(o) \/ Deliver(o) \/ NotDelivered(o) \/ RecordRefund(o) \/ CreateReturn(o)
        \/ \E business \in BOOLEAN : Cancel(o, business)
        \/ \E n \in 1..MaxReturns : CancelReturn(o, n) \/ \E damaged \in SUBSET LinesOf(o) : ConfirmReturn(o, n, damaged)
    \/ \E p \in DOMAIN Papers :
        \/ VerifyPurchase(p) \/ ApproveDisposal(p) \/ VerifyAdjustment(p)
        \/ \E payment \in {"unpaid", "partially_paid", "paid"} : PayPurchase(p, payment)
    \/ \E p \in Products : DeleteProduct(p)
    \/ NextDay

Spec == Init /\ [][Next]_vars
=============================================================================
