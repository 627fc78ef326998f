------------------------------ MODULE Purchasing ------------------------------
(***************************************************************************)
(* Purchase orders: drafted, submitted, edited, paid, cancelled, and       *)
(* verified, which is the one way a delivery becomes stock.                *)
(*                                                                         *)
(* Amounts are left out: an order is paid or it is not.                    *)
(***************************************************************************)
EXTENDS Catalogue

\* What the lines of an order or an adjustment point at must exist and be in use, each table read by a
\* statement of its own and no row locked.
ProductsInUse(products) == \A p \in products : db[p].is = "Active"
WarehousesInUse(places) == \A i \in DOMAIN places : db[places[i].warehouse].is = "Active"
AislesFit(places) ==
    \A i \in DOMAIN places : places[i].aisle # Nothing =>
        db[places[i].aisle].is = "Active" /\ db[places[i].aisle].warehouse = places[i].warehouse

check_references(t) ==
    LET lines == Sent(t).lines
    IN  /\ Row(t) \in PurchaseOrders
        /\ \/ Check(t, "supplier", db[Sent(t).supplier].is = "Active", "products")
           \/ Check(t, "products", ProductsInUse({lines[i].product : i \in DOMAIN lines}), "warehouses")
           \/ Check(t, "warehouses", WarehousesInUse(lines), "aisles")
           \/ Check(t, "aisles", AislesFit(lines), "write")

\* A create sent again after its answer was lost finds its own order, and is answered for it only if
\* that is still what it sent.
answer_repeat(t) ==
    LET order == db[Row(t)]
        same == order.is = Sent(t).is /\ Len(order.lines) = Len(Sent(t).lines)
    IN  /\ order.is # "None"
        /\ End(t, IF same THEN "done" ELSE "failed")
        /\ LetGo(t)
        /\ UNCHANGED db

create_purchase_order(t) ==
    /\ Asks(t, "create", PurchaseOrders)
    /\ \/ At(t, "begin") /\ Look(t, To(t, "supplier"))
       \/ At(t, "write") /\ db[Row(t)].is = "None" /\ Insert(t, To(t, "commit"))
       \/ At(t, "write") /\ answer_repeat(t)

\* The payment is the form's while the order is a draft, and Record payment's from then on.
Payment(t) == [paid |-> IF Own(t).is = "Draft" THEN Sent(t).paid ELSE Own(t).paid]

\* A document that is still open; once submitted it does not become a draft again, and its form no
\* longer has the payment.
Editable(t) ==
    \/ Own(t).is = "Draft"
    \/ Own(t).is = "Submitted" /\ Sent(t).is = "Submitted" /\ "paid" \notin DOMAIN Sent(t)

update_purchase_order_details(t) ==
    /\ Asks(t, "save", PurchaseOrders)
    /\ \/ At(t, "check") /\ ~Editable(t) /\ Refuse(t)
       \/ At(t, "check") /\ Editable(t) /\ Look(t, To(t, "supplier"))
       \/ At(t, "write") /\ Save(t, Payment(t), "commit")

update_purchase_payment(t) ==
    /\ Asks(t, "pay", PurchaseOrders)
    /\ At(t, "check")
    /\ IF Own(t).is \in {"Submitted", "Verified"} THEN Save(t, << >>, "commit") ELSE Refuse(t)

cancel_purchase_order(t) ==
    /\ Asks(t, "cancel", PurchaseOrders)
    /\ At(t, "begin")
    /\ Press(t, {"Draft", "Submitted"}, "Cancelled", To(t, "commit"))

\* The lines of `places` that arrived.
Arrived(places, which) == LET order == SetToSortSeq(which, <) IN [i \in DOMAIN order |-> places[order[i]]]

\* The page shows the lines that are ticked off; if an edit replaced them, nothing is received.
verify_purchase_order(t) ==
    /\ Asks(t, "verify", PurchaseOrders)
    /\ \/ At(t, "begin") /\ Look(t, [To(t, "press") EXCEPT !.seen = db[Row(t)].lines])
       \/ At(t, "press") /\ Press(t, {"Submitted"}, "Verified", To(t, "receive"))
       \/ At(t, "receive") /\ Own(t).lines # tx[t].seen /\ Refuse(t)
       \/ /\ At(t, "receive") /\ Own(t).lines = tx[t].seen
          /\ \E which \in SUBSET DOMAIN Own(t).lines :
                 Change(t, Row(t) :> [Own(t) EXCEPT !.made = @ \o Arrived(Own(t).lines, which)], To(t, "commit"))

PurchasingStep(t) ==
    \/ check_references(t) \/ create_purchase_order(t) \/ update_purchase_order_details(t)
    \/ update_purchase_payment(t) \/ cancel_purchase_order(t) \/ verify_purchase_order(t)

PurchasingNeeds(t) ==
    CASE At(t, "begin") /\ Do(t) = "cancel" -> {Row(t)}
      [] At(t, "press") -> {Row(t)}
      [] At(t, "write") /\ Asks(t, "create", PurchaseOrders) /\ db[Row(t)].is = "None" -> {Row(t)}
      [] OTHER -> {}
=============================================================================
