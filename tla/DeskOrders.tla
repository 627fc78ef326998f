------------------------------ MODULE DeskOrders ------------------------------
(***************************************************************************)
(* Orders at the sales desk: placed online, from a draft or a booking or   *)
(* not, edited while Pending, parked and checked out at the counter,       *)
(* cancelled, sent with a parcel and taken back when it is refused.        *)
(*                                                                         *)
(* An order has one line, of the one batch; a sale's lines in several      *)
(* batches are the subject of StockTx, its delivery of ParcelTx and its    *)
(* refunds of Returns.                                                     *)
(***************************************************************************)
EXTENDS OrderGifts

\* What has been paid follows from the payment status, whatever amount was sent.
resolveAmountPaid(status, total, amount) ==
    CASE status = "paid" -> total
      [] status = "partially_paid" -> IF amount < total THEN amount ELSE total
      [] OTHER -> 0

PAYMENT_STATUS == [COD |-> "unpaid", ADVANCE |-> "partially_paid", PREPAID |-> "paid", paid |-> "paid", unpaid |-> "unpaid"]

Status(t) == PAYMENT_STATUS[Sent(t).pay]
Paid(t) == resolveAmountPaid(Status(t), Sent(t).total, Sent(t).amount)

\* The total is what the batch costs now, and an advance that covers it is a payment in full.
price_lines(t, from, next) ==
    Check(t, from, Sent(t).total = Sent(t).units * View(t, TheBatch).price
                   /\ ~(Status(t) = "partially_paid" /\ Paid(t) = Sent(t).total), next)

Editing(t) == Do(t) = "save"
BookingOf(t) == IF Editing(t) THEN Own(t).booking ELSE Sent(t).booking

\* What the order becomes.
Header(t, is, channel, customer, booking) ==
    [is |-> is, channel |-> channel, customer |-> customer, units |-> Sent(t).units, total |-> Sent(t).total,
     paid |-> Paid(t), booking |-> booking, held |-> 0]

\* A draft is priced as the batch is now, and nothing is paid.
DraftHeader(t, channel) ==
    [is |-> "Draft", channel |-> channel, customer |-> Nobody, units |-> Sent(t).units,
     total |-> Sent(t).units * View(t, TheBatch).price, paid |-> 0, booking |-> NoOrder, held |-> 0]

-----------------------------------------------------------------------------
(* Numbers and new rows *)

\* Faulty form of TakeNumber: the day's orders are counted without waiting for who else is counting.
CountOrders(t, next) == Look(t, To(t, next))

\* nextInvoiceNo waits for any other sale that is minting a number to commit.
TakeNumber(t, next) == Change(t, Version(InvoiceDesk, 0), To(t, next))

nextInvoiceNo(t) == Cardinality({o \in Orders : View(t, o).is # "None"}) + 1

\* An order's own draft becomes it; otherwise it is a new row, and refused if there is one already.
WriteOrder(t, from, draft, header, next) ==
    \/ At(t, from) /\ draft /\ Change(t, Version(Row(t), Updated(Own(t), header)), To(t, next))
    \/ At(t, from) /\ ~draft /\ IF Editing(t) THEN Refuse(t) ELSE Look(t, To(t, "number"))
    \/ At(t, "number") /\ TakeNumber(t, "insert")
    \/ At(t, "insert") /\ Exists(t, Row(t)) /\ Refuse(t)
    \/ /\ At(t, "insert") /\ IsNew(t, Row(t))
       /\ Change(t, Version(Row(t), header ++ [number |-> nextInvoiceNo(t), by |-> By(t), version |-> 1]), To(t, next))

Draft(t, channel) == Own(t).is = "Draft" /\ Own(t).channel = channel

-----------------------------------------------------------------------------
(* Online orders *)

\* Faulty form of LockBuyer: the customer is looked at and not locked.
ReadBuyer(t, c, next) == Look(t, To(t, next))

\* The customer is locked before an address is written, and what describes the buyer is filled in once.
LockBuyer(t, c, next) ==
    Change(t, Version(c, IF View(t, c).filled THEN View(t, c) ELSE Updated(View(t, c), [filled |-> TRUE])), To(t, next))

\* Blocked and not acknowledged, not what was booked, or an address the customer no longer has.
Unfit(t, c, b) ==
    \/ View(t, c).flag = "Blocked" /\ ~Sent(t).ack
    \/ b # NoOrder /\ ~checkConversion(View(t, b), c, Sent(t).units, Paid(t))
    \/ Sent(t).saved # Nobody /\ Sent(t).saved \notin Saved(t, c)

\* Editing writes the same over a Pending order, whose own holds were released: its booking's rules stay.
write_online_order(t) ==
    LET b == BookingOf(t)
        c == Customer(t)
    IN  \/ find_or_create_customer(t, "find", "customer")
        \/ At(t, "customer") /\ Free(t, c) /\ Unfit(t, c, b) /\ Refuse(t)
        \/ At(t, "customer") /\ ~Unfit(t, c, b) /\ LockBuyer(t, c, IF Sent(t).saved = Nobody THEN "address" ELSE "header")
        \/ insert_address(t, "header")
        \/ WriteOrder(t, "header", IF Editing(t) THEN Own(t).is = "Pending" ELSE Draft(t, "ONLINE"),
                      Header(t, "Pending", "ONLINE", c, b), "hold")
        \/ At(t, "hold") /\ holdStock(t, Sent(t).units, Version(Row(t), [Own(t) EXCEPT !.held = Sent(t).units]),
                                      IF b = NoOrder \/ Editing(t) THEN "commit" ELSE "convert")
        \/ At(t, "convert") /\ convertBooking(t, b, Row(t), "commit")

create_online_order(t) ==
    /\ Asks(t, "place", Orders)
    /\ \/ BookingOf(t) = NoOrder /\ price_lines(t, "begin", "find")
       \/ BookingOf(t) # NoOrder /\ At(t, "begin") /\ lockBooking(t, BookingOf(t), "price")
       \/ price_lines(t, "price", "find")
       \/ write_online_order(t)

edit_online_order(t) ==
    /\ Asks(t, "save", Orders)
    /\ \/ At(t, "check") /\ Own(t).is # "Pending" /\ Refuse(t)
       \/ /\ At(t, "check") /\ Own(t).is = "Pending"
          /\ Change(t, Version(Row(t), [Own(t) EXCEPT !.held = 0]), To(t, IF Own(t).booking = NoOrder THEN "price" ELSE "booking"))
       \/ At(t, "booking") /\ Change(t, Version(BookingOf(t), View(t, BookingOf(t))), To(t, "price"))
       \/ price_lines(t, "price", "find")
       \/ write_online_order(t)

\* A draft, or a parked cart, holds no stock and has no customer yet; saved again it is the same draft.
save_draft(t) ==
    /\ Asks(t, "draft", Orders)
    /\ WriteOrder(t, "begin", Draft(t, Sent(t).channel), DraftHeader(t, Sent(t).channel), "commit")

\* Only by whoever saved it.
discard_draft(t) ==
    /\ Asks(t, "discard", Orders) /\ At(t, "begin")
    /\ IF Draft(t, Sent(t)) /\ Own(t).by = By(t) THEN Press(t, {"Draft"}, "Cancelled", To(t, "commit")) ELSE Refuse(t)

confirm_order(t) == Button(t, "confirm", Orders, {"Pending"}, "Confirmed", To(t, "commit"))

\* Every hold of the order is released, its gifts' too, and the gifts are cancelled with it.
cancel_order(t) ==
    LET gifts == {g \in HeldGifts(t) : View(t, g).order = Row(t)}
    IN  /\ Asks(t, "cancel", Orders)
        /\ \/ At(t, "begin") /\ Own(t).is \notin {"Pending", "Confirmed"} /\ Free(t, Row(t)) /\ Refuse(t)
           \/ /\ At(t, "begin") /\ Own(t).is \in {"Pending", "Confirmed"}
              /\ Change(t, Version(Row(t), Updated(Own(t), [is |-> "Cancelled", held |-> 0]))
                           ++ [g \in gifts |-> [View(t, g) EXCEPT !.hold = "Released"]], To(t, "gifts"))
           \/ At(t, "gifts") /\ dropOrderGifts(t, Row(t), "commit")

-----------------------------------------------------------------------------
(* Parcels *)

\* What the order holds is listed, then leaves the shelf, each hold by its own UPDATE.
deductHeldStock(t) ==
    LET units == Own(t).held + GiftUnits(t, tx[t].todo)
    IN  \/ At(t, "holds") /\ Look(t, [To(t, "leave") EXCEPT !.todo = {g \in HeldGifts(t) : View(t, g).order = Row(t)}])
        \/ /\ At(t, "leave") /\ Free(t, TheBatch)
           /\ IF units > View(t, TheBatch).onHand THEN Refuse(t)
              ELSE Change(t, Version(Row(t), [Own(t) EXCEPT !.held = 0]) ++ Less(t, units)
                             ++ [g \in tx[t].todo |-> [View(t, g) EXCEPT !.hold = "Deducted"]], [To(t, "gifts") EXCEPT !.todo = {}])

dispatchOrder(t) ==
    /\ Asks(t, "dispatch", Orders)
    /\ \/ At(t, "begin") /\ Press(t, {"Confirmed"}, "Dispatched", To(t, "holds"))
       \/ deductHeldStock(t)
       \/ At(t, "gifts") /\ sendOrderGifts(t, Row(t), "commit")

\* The courier collected what was left, so the whole total is paid.
deliverOrder(t) ==
    /\ Asks(t, "deliver", Orders) /\ At(t, "begin")
    /\ IF Own(t).is = "Dispatched"
       THEN Change(t, Version(Row(t), Updated(Own(t), [is |-> "Delivered", paid |-> Own(t).total])), To(t, "commit"))
       ELSE Free(t, Row(t)) /\ Refuse(t)

\* The return of a refused parcel is confirmed: its units are back, and its gifts with them.
take_back(t) ==
    /\ Asks(t, "take back", Orders)
    /\ \/ At(t, "begin") /\ Press(t, {"Dispatched"}, "Returned", To(t, "restock"))
       \/ At(t, "restock") /\ Change(t, More(t, Own(t).units), To(t, "gifts"))
       \/ At(t, "gifts") /\ returnOrderGifts(t, Row(t), "commit")

-----------------------------------------------------------------------------
(* The counter *)

\* A parked cart held nothing, so its stock is checked now, and only whoever parked it checks it out.
checkout_pos_sale(t) ==
    LET customer == IF Sent(t).phone = Nobody THEN Nobody ELSE Customer(t)
    IN  /\ Asks(t, "checkout", Orders)
        /\ \/ price_lines(t, "begin", IF Sent(t).phone = Nobody THEN "sale" ELSE "find")
           \/ find_or_create_customer(t, "find", "sale")
           \/ WriteOrder(t, "sale", Draft(t, "POS") /\ Own(t).by = By(t),
                         Header(t, "Purchased", "POS", customer, NoOrder), "deduct")
           \/ At(t, "deduct") /\ deductFreeStock(t, Sent(t).units, "commit")

OrderStep(t) ==
    \/ create_online_order(t) \/ edit_online_order(t) \/ save_draft(t) \/ discard_draft(t) \/ confirm_order(t)
    \/ cancel_order(t) \/ dispatchOrder(t) \/ deliverOrder(t) \/ take_back(t) \/ checkout_pos_sale(t)

\* The rows the next statement of t has to lock.
OrderNeeds(t) ==
    CASE At(t, "begin") /\ Do(t) \in {"cancel", "confirm", "dispatch", "deliver", "take back", "discard"} -> {Row(t)}
      [] (At(t, "begin") /\ Do(t) = "place") \/ At(t, "booking") -> {BookingOf(t)} \cap PreOrders
      [] At(t, "customer") -> {Customer(t)}
      [] At(t, "number") -> {InvoiceDesk}
      [] At(t, "header") \/ At(t, "sale") \/ At(t, "insert") -> {Row(t)}
      [] At(t, "leave") \/ At(t, "restock") \/ At(t, "deduct") -> {TheBatch}
      [] OTHER -> {}
=============================================================================
