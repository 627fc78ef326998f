----------------------------- MODULE MCFigures -----------------------------
(* A lamp in two batches, one of them to arrive, and a mug of no brand; an  *)
(* online order of both products with a mug for a gift, paid in part, one   *)
(* paid at delivery, and two sales at the counter, one of them on the tab.  *)
(* A list shows one row, where the code's LIMITs are from 5 to 12.          *)
EXTENDS Reports

line(order_, batch, quantity, price, discount) == [order |-> order_, batch |-> batch, quantity |-> quantity, price |-> price, discount |-> discount]
MCSold == [
    w1 |-> line("web", "old_lamps", 1, 10, 1),
    w2 |-> line("web", "mugs", 1, 5, 0),
    c1 |-> line("cod", "new_lamps", 2, 12, 0),
    t1 |-> line("till", "mugs", 1, 5, 0),
    t2 |-> line("till", "new_lamps", 1, 12, 2),
    b1 |-> line("tab", "old_lamps", 2, 10, 1)]

deal(channel, buyer, seller, source, district, charge, payment, advance, gift_) ==
    [channel |-> channel, buyer |-> buyer, seller |-> seller, source |-> source, district |-> district,
     charge |-> charge, payment |-> payment, advance |-> advance, gift |-> gift_]
MCDeal == [
    web |-> deal("ONLINE", "ann", "sam", "facebook", "dhaka", 3, "partially_paid", 4, "mugs"),
    cod |-> deal("ONLINE", "ann", "tia", "none", "sylhet", 2, "unpaid", 0, "none"),
    till |-> deal("POS", "none", "sam", "none", "none", 0, "paid", 0, "none"),
    tab |-> deal("POS", "bob", "tia", "none", "none", 0, "partially_paid", 7, "none")]

batch_(product, cost, price, units, purchase, use, warehouse, aisle, expiry) ==
    [product |-> product, cost |-> cost, price |-> price, units |-> units, purchase |-> purchase, use |-> use,
     warehouse |-> warehouse, aisle |-> aisle, expiry |-> expiry]
MCStock == [
    old_lamps |-> batch_("lamp", 6, 10, 3, "none", "ready_for_sale", "shop", "front", 0),
    new_lamps |-> batch_("lamp", 7, 12, 2, "order_5", "ready_for_sale", "store", "none", 2),
    mugs |-> batch_("mug", 2, 5, 2, "none", "ready_for_sale", "shop", "none", 0)]

goods(category, sub_category, brand, threshold) == [category |-> category, sub_category |-> sub_category, brand |-> brand, threshold |-> threshold]
MCGoods == [lamp |-> goods("light", "table", "acme", 2), mug |-> goods("kitchen", "cups", "none", 1)]

paper_(kind, batch, ordered, units, reason, supplier, total, advance) ==
    [kind |-> kind, batch |-> batch, ordered |-> ordered, units |-> units, reason |-> reason, supplier |-> supplier, total |-> total, advance |-> advance]
MCPapers == [
    order_5 |-> paper_("purchase", "new_lamps", 3, 2, "none", "lumen", 14, 5),
    broken |-> paper_("disposal", "old_lamps", 1, 1, "quality_reject", "none", 0, 0),
    thrown |-> paper_("disposal", "mugs", 2, 2, "expired", "none", 0, 0),
    found |-> paper_("in", "mugs", 1, 1, "count", "none", 0, 0),
    lost |-> paper_("out", "old_lamps", 3, 3, "count", "none", 0, 0)]

ad(type, partner, fee, from, until, batches, cost) == [type |-> type, partner |-> partner, fee |-> fee, from |-> from, until |-> until, batches |-> batches, cost |-> cost]
MCAds == [
    glow |-> ad("video", "rafi", 3, 2, 2, {"new_lamps"}, 4),
    launch |-> ad("video", "nila", 0, 1, 2, {"old_lamps"}, 0),
    cups |-> ad("giveaway", "rafi", 1, 3, 3, {"mugs"}, 2)]

MCPlans == {{"cod", "order_5", "returns"}, {"till", "order_5", "returns"}, {"web", "cod", "till", "order_5"},
            {"tab", "till", "order_5"}, {"tab", "returns"}, {"web", "order_5", "edits", "payments"}, {"lost", "lamp", "order_5"}, {"web", "mug", "returns"}, {"thrown", "found", "mug"}, {"web", "edits", "broken"}}

MCListRows == [list \in {"top_products", "products", "flow_places", "flow_products", "flow_customers"} |-> 1]
=============================================================================
