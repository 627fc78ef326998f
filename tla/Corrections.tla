----------------------------- MODULE Corrections -----------------------------
(***************************************************************************)
(* Disposals and stock adjustments: drafted, submitted, edited, rejected,  *)
(* cancelled, and approved or verified, which moves the units.             *)
(*                                                                         *)
(* No unit is held here, so what a batch has is free; StockTx has the      *)
(* holds that deductFreeStock leaves alone.                                *)
(***************************************************************************)
EXTENDS Purchasing

\* The line that is being worked on, and what it is about.  A submitted document has one: the forms
\* cannot submit it without, so the refusal of a document with no lines never happens.
Line(t) == tx[t].todo[1]
LineProduct(line) == IF line.way = "new" THEN line.at.product ELSE ProductOf[line.batch]
NextLine(t) == [To(t, IF Len(tx[t].todo) = 1 THEN "commit" ELSE "line") EXCEPT !.todo = Tail(@)]

\* Which way the line goes.
TakesOut(t) == Line(t).way = "out"
PutsIn(t) == Line(t).way # "out"

\* Each line that takes a unit finds one.
Enough(lines) == \A i \in DOMAIN lines : lines[i].way = "out" => db[lines[i].batch] >= 1

\* deductFreeStock: the batch is locked, and refused if it has no unit left.
Deduct(t, b, next) ==
    IF View(t, b) >= 1
    THEN Change(t, b :> View(t, b) - 1, next)
    ELSE Free(t, b) /\ Refuse(t)

SaveDocument(t, R) ==
    /\ Asks(t, "save", R)
    /\ \/ At(t, "check") /\ ~Editable(t) /\ Refuse(t)
       \/ At(t, "check") /\ Editable(t) /\ Look(t, To(t, "products"))
       \/ At(t, "write") /\ Save(t, << >>, "commit")

CreateDocument(t, R) ==
    /\ Asks(t, "create", R)
    /\ \/ At(t, "begin") /\ Look(t, To(t, "products"))
       \/ At(t, "write") /\ Insert(t, To(t, "commit"))

-----------------------------------------------------------------------------
(* Disposals *)

\* A draft may name a batch that has too little; to submit it each line must fit.
check_dispose_lines(t) ==
    LET lines == Sent(t).lines
    IN  /\ Row(t) \in Disposals
        /\ \/ Check(t, "products", ProductsInUse({LineProduct(lines[i]) : i \in DOMAIN lines}), "batches")
           \/ Check(t, "batches", Sent(t).is = "Draft" \/ Enough(lines), "write")

create_product_dispose(t) == CreateDocument(t, Disposals)
update_product_dispose(t) == SaveDocument(t, Disposals)
reject_product_dispose(t) == Button(t, "reject", Disposals, {"Submitted"}, "Rejected", To(t, "commit"))
cancel_product_dispose(t) == Button(t, "cancel", Disposals, {"Draft", "Submitted"}, "Cancelled", To(t, "commit"))

InBatchOrder(lines) == SortSeq(lines, LAMBDA one, other : one.batch < other.batch)

\* The lines in the order of their batches, and after each the figures of its product.
approve_product_dispose(t) ==
    LET figures == Stats[LineProduct(Line(t))]
    IN  /\ Asks(t, "approve", Disposals)
        /\ \/ At(t, "begin") /\ Press(t, {"Submitted"}, "Approved", [To(t, "line") EXCEPT !.todo = InBatchOrder(Own(t).lines)])
           \/ At(t, "line") /\ TakesOut(t) /\ Deduct(t, Line(t).batch, To(t, "figures"))
           \/ At(t, "figures") /\ Change(t, figures :> View(t, figures) + 1, NextLine(t))

-----------------------------------------------------------------------------
(* Stock adjustments *)

NewPlaces(lines) ==
    LET new == SelectSeq(lines, LAMBDA line : line.way = "new") IN [i \in DOMAIN new |-> new[i].at]

check_adjustment_lines(t) ==
    LET lines == Sent(t).lines
    IN  /\ Row(t) \in Adjustments
        /\ \/ Check(t, "products", ProductsInUse({LineProduct(lines[i]) : i \in DOMAIN lines}), "batches")
           \/ Check(t, "batches", Sent(t).is = "Draft" \/ Enough(lines), "warehouses")
           \/ Check(t, "warehouses", WarehousesInUse(NewPlaces(lines)), "aisles")
           \/ Check(t, "aisles", AislesFit(NewPlaces(lines)), "write")

create_stock_adjustment(t) == CreateDocument(t, Adjustments)
update_stock_adjustment(t) == SaveDocument(t, Adjustments)
reject_stock_adjustment(t) == Button(t, "reject", Adjustments, {"Submitted"}, "Rejected", To(t, "commit"))
cancel_stock_adjustment(t) == Button(t, "cancel", Adjustments, {"Draft", "Submitted"}, "Cancelled", To(t, "commit"))

\* Faulty form of RefuseDeletedProduct: the product is read and not locked.
FindProductKept(t) == IF db[LineProduct(Line(t))].is = "Deleted" THEN Refuse(t) ELSE Look(t, To(t, "put"))

\* refuseDeletedProduct, before units are put on a batch or in a new one.
RefuseDeletedProduct(t) ==
    LET product == LineProduct(Line(t))
    IN  IF db[product].is = "Deleted"
        THEN Free(t, product) /\ Refuse(t)
        ELSE Share(t, {product}, To(t, "put"))

\* The lines in the order they were typed.
verify_stock_adjustment(t) ==
    /\ Asks(t, "verify", Adjustments)
    /\ \/ At(t, "begin") /\ Press(t, {"Submitted"}, "Verified", [To(t, "line") EXCEPT !.todo = Own(t).lines])
       \/ At(t, "line") /\ TakesOut(t) /\ Deduct(t, Line(t).batch, NextLine(t))
       \/ At(t, "line") /\ PutsIn(t) /\ RefuseDeletedProduct(t)
       \/ At(t, "put") /\ Line(t).way = "in" /\ Change(t, Line(t).batch :> View(t, Line(t).batch) + 1, NextLine(t))
       \/ At(t, "put") /\ Line(t).way = "new" /\ Change(t, Row(t) :> [Own(t) EXCEPT !.made = Append(@, Line(t).at)], NextLine(t))

CorrectionsStep(t) ==
    \/ check_dispose_lines(t) \/ create_product_dispose(t) \/ update_product_dispose(t)
    \/ reject_product_dispose(t) \/ cancel_product_dispose(t) \/ approve_product_dispose(t)
    \/ check_adjustment_lines(t) \/ create_stock_adjustment(t) \/ update_stock_adjustment(t)
    \/ reject_stock_adjustment(t) \/ cancel_stock_adjustment(t) \/ verify_stock_adjustment(t)

CorrectionsNeeds(t) ==
    CASE At(t, "begin") /\ Do(t) \in {"reject", "approve"} -> {Row(t)}
      [] At(t, "begin") /\ Asks(t, "verify", Adjustments) -> {Row(t)}
      [] At(t, "line") /\ TakesOut(t) -> {Line(t).batch}
      [] At(t, "figures") -> {Stats[LineProduct(Line(t))]}
      [] At(t, "put") /\ Line(t).way = "in" -> {Line(t).batch}
      [] OTHER -> {}

CorrectionsWants(t) == IF At(t, "line") /\ PutsIn(t) THEN {LineProduct(Line(t))} ELSE {}
=============================================================================
