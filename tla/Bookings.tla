------------------------------- MODULE Bookings -------------------------------
(***************************************************************************)
(* Pre-orders: what a customer asks for before it is in stock, with an     *)
(* advance.  A booking touches no stock; it is cancelled, with part of the *)
(* advance owed back, or becomes one online order.                         *)
(*                                                                         *)
(* A unit is booked at the price of one, so a booking's total is its       *)
(* units; dates, methods and notes are left out.                           *)
(***************************************************************************)
EXTENDS Customers

CONSTANTS
    PreOrders,      \* preorders
    NoOrder         \* what an order not made from a booking, and a booking not made an order, refers to

ASSUME BookingsAssumption == PreOrders \subseteq Rows \ {NoOrder}

\* preorders: `due` and `refunded` are advance_refund_due and advance_refunded.
PreOrderType ==
    [is : {"None", "Pending", "Confirmed", "Cancelled", "Converted"}, by : Nat, customer : Customers, units : Nat,
     advance : Nat, due : Nat, refunded : Nat, order : Rows \cup {NoOrder}, version : Nat]

OPEN_STATUSES == {"Pending", "Confirmed"}

NewBooking(t) ==
    [is |-> "Pending", by |-> By(t), customer |-> Customer(t), units |-> Sent(t).units, advance |-> Sent(t).advance,
     due |-> 0, refunded |-> 0, order |-> NoOrder, version |-> 1]

\* A request repeated after a lost answer finds the booking it already saved.
create_pre_order(t) ==
    /\ Asks(t, "book", PreOrders)
    /\ \/ find_or_create_customer(t, "begin", "book")
       \/ /\ At(t, "book") /\ IsNew(t, Row(t))
          /\ IF Sent(t).advance > Sent(t).units THEN Refuse(t) ELSE Change(t, Version(Row(t), NewBooking(t)), To(t, "commit"))
       \/ /\ At(t, "book") /\ Exists(t, Row(t))
          /\ IF Own(t).by = By(t) THEN Look(t, To(t, "commit")) ELSE Refuse(t)

\* A Confirmed booking keeps its units; its advance and its customer may change.
update_pre_order(t) ==
    LET new == [customer |-> Customer(t), units |-> Sent(t).units, advance |-> Sent(t).advance]
        same == \A column \in DOMAIN new : new[column] = Own(t)[column]
    IN  /\ Asks(t, "save", PreOrders)
        /\ \/ Check(t, "check", Own(t).is = "Pending" \/ (Own(t).is = "Confirmed" /\ Sent(t).units = Own(t).units), "find")
           \/ find_or_create_customer(t, "find", "rebook")
           \/ /\ At(t, "rebook")
              /\ IF new.advance > new.units THEN Refuse(t)
                 ELSE Change(t, Version(Row(t), IF same THEN Own(t) ELSE Updated(Own(t), new)), To(t, "commit"))

confirm_pre_order(t) == Button(t, "accept", PreOrders, {"Pending"}, "Confirmed", To(t, "commit"))

\* What of the advance is owed back is said when the booking is cancelled.
cancel_pre_order(t) ==
    /\ Asks(t, "call off", PreOrders) /\ At(t, "begin")
    /\ IF Own(t).is \in OPEN_STATUSES /\ Sent(t) <= Own(t).advance
       THEN Change(t, Version(Row(t), Updated(Own(t), [is |-> "Cancelled", due |-> Sent(t)])), To(t, "commit"))
       ELSE Free(t, Row(t)) /\ Refuse(t)

record_pre_order_refund(t) ==
    /\ Asks(t, "pay back", PreOrders) /\ At(t, "begin")
    /\ IF Own(t).is = "Cancelled" /\ Own(t).refunded < Own(t).due
       THEN Change(t, Version(Row(t), Updated(Own(t), [refunded |-> Own(t).due])), To(t, "commit"))
       ELSE Free(t, Row(t)) /\ Refuse(t)

BookingStep(t) ==
    \/ create_pre_order(t) \/ update_pre_order(t) \/ confirm_pre_order(t) \/ cancel_pre_order(t) \/ record_pre_order_refund(t)

BookingNeeds(t) ==
    IF At(t, "book") \/ (At(t, "begin") /\ Do(t) \in {"accept", "call off", "pay back"}) THEN {Row(t)} ELSE {}

-----------------------------------------------------------------------------
(* Conversion, inside the online order's own transaction *)

\* Faulty form of lockBooking: the booking is read and not locked.
readBooking(t, b, next) == IF View(t, b).is \in OPEN_STATUSES THEN Look(t, To(t, next)) ELSE Refuse(t)

\* A second conversion waits here, then finds the booking Converted.
lockBooking(t, b, next) ==
    IF View(t, b).is \in OPEN_STATUSES
    THEN Change(t, Version(b, View(t, b)), To(t, next))
    ELSE Free(t, b) /\ Refuse(t)

\* Every booked unit arrives, for the customer who booked, and the advance is what the order was paid.
checkConversion(booking, customer, units, paid) ==
    LET advance == booking.advance - booking.refunded
    IN  customer = booking.customer /\ units >= booking.units /\ paid = advance

\* The booking closes exactly when the order exists; closed by somebody else meanwhile, nothing is made.
convertBooking(t, b, order, next) ==
    IF View(t, b).is \in OPEN_STATUSES
    THEN Change(t, Version(b, Updated(View(t, b), [is |-> "Converted", order |-> order])), To(t, next))
    ELSE Free(t, b) /\ Refuse(t)
=============================================================================
