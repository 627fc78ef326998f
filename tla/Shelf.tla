--------------------------------- MODULE Shelf ---------------------------------
(***************************************************************************)
(* The one batch the desk sells from, and who holds its units: online      *)
(* orders that wait for their parcel, and the gifts that travel in it.     *)
(* What is on the shelf and not held can be sold, held or given.           *)
(***************************************************************************)
EXTENDS Bookings, Campaigns

CONSTANTS
    Orders,         \* orders
    Gifts,          \* giveaway
    TheBatch,       \* the row of inventory
    InvoiceDesk     \* pg_advisory_xact_lock(hashtext('orders.invoice_no'))

ASSUME ShelfAssumption ==
    /\ Orders \cup Gifts \cup {TheBatch, InvoiceDesk} \subseteq Rows /\ NoOrder \notin Orders /\ IsFiniteSet(Orders)
    /\ CustomerRows \cap (PreOrders \cup CampaignRows \cup Orders \cup Gifts) = {}
    /\ PreOrders \cap (CampaignRows \cup Orders \cup Gifts) = {}
    /\ CampaignRows \cap (Orders \cup Gifts) = {} /\ Orders \cap Gifts = {}
    /\ TheBatch # InvoiceDesk
    /\ {TheBatch, InvoiceDesk} \cap (CustomerRows \cup PreOrders \cup CampaignRows \cup Orders \cup Gifts) = {}

\* orders with its online_order, items and holds: `held` are the units of its own Active holds.  A
\* Confirmed order that was dispatched is "Dispatched", with `delivery_status` WithCourier; `total` and
\* `paid` are money.
OrderRowType ==
    [is : {"None", "Draft", "Pending", "Confirmed", "Dispatched", "Delivered", "Purchased", "Returned", "Cancelled"},
     channel : {"ONLINE", "POS"}, by : Nat, customer : Customers \cup {Nobody}, number : Nat, units : Nat, total : Nat,
     paid : Nat, booking : PreOrders \cup {NoOrder}, held : Nat, version : Nat]

\* giveaway with its line and its hold.
GiftRowType ==
    [is : {"None", "Draft", "Held", "Given", "Cancelled", "Returned"}, by : Nat, order : Orders \cup {NoOrder},
     line : Lines \cup {NoLine}, units : Nat, hold : {"None", "Active", "Deducted", "Released"}, version : Nat]

ShelfRowType(r) ==
    CASE r \in CustomerRows -> CustomerRowType(r)
      [] r \in PreOrders -> PreOrderType
      [] r \in CampaignRows -> CampaignRowType(r)
      [] r \in Orders -> OrderRowType
      [] r \in Gifts -> GiftRowType
      [] r = TheBatch -> [onHand : Nat, price : Nat]
      [] OTHER -> {0}

SumOver(S, units(_)) == FoldSet(LAMBDA x, sum : units(x) + sum, 0, S)

HeldGifts(t) == {g \in Gifts : View(t, g).hold = "Active"}
GiftUnits(t, G) == SumOver(G, LAMBDA g : View(t, g).units)

\* What is on hand and in no Active hold, as a statement of t sees it.
Sellable(t) ==
    LET onHand == View(t, TheBatch).onHand
        held == SumOver(Orders, LAMBDA o : View(t, o).held) + GiftUnits(t, HeldGifts(t))
    IN  IF held > onHand THEN 0 ELSE onHand - held

Moved(t, n) == Version(TheBatch, [View(t, TheBatch) EXCEPT !.onHand = n])
Less(t, units) == Moved(t, View(t, TheBatch).onHand - units)
More(t, units) == Moved(t, View(t, TheBatch).onHand + units)

\* Faulty form of holdStock: the batch is not locked before what is free of it is counted.
holdUnlocked(t, units, new, next) == IF units > Sellable(t) THEN Refuse(t) ELSE Change(t, new, To(t, next))

\* The batch is locked, and what is free of it counted after that; `new` are the rows that hold the units.
holdStock(t, units, new, next) ==
    /\ Free(t, TheBatch)
    /\ IF units > Sellable(t) THEN Refuse(t) ELSE Change(t, new ++ Less(t, 0), To(t, next))

deductFreeStock(t, units, next) ==
    /\ Free(t, TheBatch)
    /\ IF units > Sellable(t) THEN Refuse(t) ELSE Change(t, Less(t, units), To(t, next))

\* The price applies to what is sold from now on: an order keeps what it was sold at.
update_batch_pricing(t) ==
    /\ Do(t) = "price" /\ At(t, "begin")
    /\ Change(t, Version(TheBatch, [View(t, TheBatch) EXCEPT !.price = Sent(t)]), To(t, "commit"))
=============================================================================
