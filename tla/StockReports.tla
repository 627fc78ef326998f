---------------------------- MODULE StockReports ----------------------------
(***************************************************************************)
(* The reports and pages that read the stock, the papers that move it and  *)
(* what is owed for it.  Bound: every product and aisle is Active.         *)
(***************************************************************************)
EXTENDS SalesReports

Stored == {b \in Batches : Exists(b)}
Live(b) == ~deleted[Stock[b].product]
InStock == {b \in Stored : onHand[b] > 0}

\* One row per batch: only what is ready for sale and not held can be sold, and never less than none.
Free(b) == Max({onHand[b] - Held(b), 0})
Sellable(b) == IF Stock[b].use = "ready_for_sale" THEN Free(b) ELSE 0
BatchFigures(b) ==
    [on_hand |-> onHand[b], held |-> Held(b), sellable |-> Sellable(b), value |-> onHand[b] * Stock[b].cost,
     revenue |-> IF Stock[b].use = "ready_for_sale" THEN onHand[b] * Stock[b].price ELSE 0]
Column(S, column) == SumOver(LAMBDA b : BatchFigures(b)[column], S)
Added(S) == [column \in {"on_hand", "held", "sellable", "value", "revenue"} |-> Column(S, column)]

-----------------------------------------------------------------------------
(* What is on the shelf *)

StockOnHand == [b \in {x \in InStock : Live(x)} |-> BatchFigures(b)]

ExpiringStock(within) ==
    [b \in {x \in InStock : Live(x) /\ Stock[x].expiry # 0 /\ Stock[x].expiry <= today + within} |-> Stock[b].expiry - today]

\* The overview: every product that is not deleted and ever had a batch.
ProductStock == [p \in {Stock[b].product : b \in {x \in Stored : Live(x)}} |-> Added(BatchesOf(p) \cap Stored)]
StockStatus(p) ==
    LET sellable == Column(BatchesOf(p) \cap Stored, "sellable")
    IN  CASE sellable = 0 -> "out" [] sellable > 0 /\ sellable <= Goods[p].threshold -> "low" [] OTHER -> "in"
StockHeadline == Added({b \in Stored : Stock[b].product \in DOMAIN ProductStock})

\* The dashboard's row counts what the overview marks.
StockToWatch == [mark \in {"out", "low"} |-> Cardinality({p \in DOMAIN ProductStock : StockStatus(p) = mark})]

\* A product's page: its batches, sold out ones included.
ProductPage(p) == [b \in BatchesOf(p) \cap Stored |-> BatchFigures(b)]

\* A product is low wherever it lies: its level is for all places together.
LowAmong(S) == {p \in {Stock[b].product : b \in S} : ~deleted[p] /\ Goods[p].threshold > 0 /\ StockStatus(p) # "in"}

\* Places count what lies in them, a deleted product's too.
In(warehouse) == {b \in Stored : Stock[b].warehouse = warehouse}
WarehouseStats(warehouse) ==
    [figures |-> Added(In(warehouse)), products |-> {Stock[b].product : b \in In(warehouse) \cap InStock},
     unplaced |-> Column({b \in In(warehouse) : Stock[b].aisle = "none"}, "on_hand"), low |-> LowAmong(In(warehouse) \cap InStock)]
On(aisle) == {b \in InStock : Stock[b].aisle = aisle}
AisleStats(aisle) == [figures |-> Added(On(aisle)), items |-> {Stock[b].product : b \in On(aisle)}, low |-> LowAmong(On(aisle))]

\* A category's, a sub-category's or a brand's page.
Among(group, k) == {p \in Products : Goods[p][group] = k /\ ~deleted[p]}
ProductStockStats(group, k) ==
    LET batches == {b \in Stored : Stock[b].product \in Among(group, k)}
    IN  [products |-> Among(group, k), figures |-> Added(batches),
         low |-> {p \in Among(group, k) : StockStatus(p) = "low"}, out |-> {p \in Among(group, k) : StockStatus(p) = "out"}]

\* Kept for own use, a product counts those batches; one that is sold counts all but those, priced or not.
ReorderList ==
    LET own(p) == \A b \in BatchesOf(p) \cap Stored : Stock[b].use = "internal_use"
        in_stock(p) == SumOver(Free, {b \in BatchesOf(p) \cap Stored : own(p) \/ Stock[b].use # "internal_use"})
    IN  [p \in {x \in Products : ~deleted[x] /\ in_stock(x) <= Goods[x].threshold} |-> in_stock(p)]

-----------------------------------------------------------------------------
(* The exports by category, sub-category, brand, warehouse and aisle *)

\* A product's row: the sums of its batches that `counts` picks, and its lifetime counters.
ProductRow(p, counts(_)) ==
    [figures |-> Added({b \in BatchesOf(p) \cap Stored : counts(b)}), sold |-> stats[p]["total_sold"],
     returned |-> stats[p]["total_returned"], given_away |-> stats[p]["total_given_away"]]
ProductsWith(counts(_)) == {p \in Products : ~deleted[p] /\ \E b \in BatchesOf(p) \cap Stored : counts(b)}
Any(b) == TRUE
\* All but the exports of a category join the product's sub-category, and leave out a product without one.
Filed(p) == Goods[p].sub_category # "none"

ProductListByCategory(c) == [p \in Among("category", c) |-> ProductRow(p, Any)]
ProductListBySubCategory(s) == [p \in Among("sub_category", s) |-> ProductRow(p, Any)]
ProductListByBrand(b) == [p \in {x \in Among("brand", b) : Filed(x)} |-> ProductRow(p, Any)]
\* By place, a product's row sums only the batches that lie there.
ProductListByWarehouse(w) == LET here(b) == Stock[b].warehouse = w /\ Filed(Stock[b].product) IN [p \in ProductsWith(here) |-> ProductRow(p, here)]
ProductListByAisle(a) == LET here(b) == Stock[b].aisle = a /\ Filed(Stock[b].product) IN [p \in ProductsWith(here) |-> ProductRow(p, here)]

LiveBatches(counts(_)) == [b \in {x \in Stored : Live(x) /\ counts(x)} |-> BatchFigures(b)]
InventoryByCategory(c) == LiveBatches(LAMBDA b : Goods[Stock[b].product].category = c)
InventoryBySubCategory(s) == LiveBatches(LAMBDA b : Goods[Stock[b].product].sub_category = s)
InventoryByBrand(br) == LiveBatches(LAMBDA b : Goods[Stock[b].product].brand = br /\ Filed(Stock[b].product))
InventoryByWarehouse(w) == LiveBatches(LAMBDA b : Stock[b].warehouse = w /\ Filed(Stock[b].product))
InventoryByAisle(a) == LiveBatches(LAMBDA b : Stock[b].aisle = a /\ Filed(Stock[b].product))

-----------------------------------------------------------------------------
(* The page about the catalogue, and the papers that wait *)

WarehouseFullness(w) == SumOver(LAMBDA b : onHand[b], In(w))
EmptyAisles == {a \in {Stock[b].aisle : b \in Batches} \ {"none"} : \A b \in Stored : Stock[b].aisle = a => onHand[b] = 0}
Spread(group) == [k \in {Goods[p][group] : p \in {x \in Products : ~deleted[x]}} |-> Cardinality(Among(group, k))]
\* Bought from: units received on a verified purchase.
BoughtFrom(s) == \E p \in DOMAIN Papers : Papers[p].kind = "purchase" /\ Papers[p].supplier = s /\ paper[p].status = "Done" /\ Papers[p].units > 0

PapersWaiting(kinds) == Cardinality({p \in plan \cap DOMAIN Papers : Papers[p].kind \in kinds /\ paper[p].status = "Submitted"})

-----------------------------------------------------------------------------
(* What moved *)

MovedIn(p, period, reasons) ==
    SumOver(LAMBDA b : SumOver(LAMBDA d : SumOver(LAMBDA r : moved[b][d][r], reasons), period), BatchesOf(p))

\* From the ledger, signed: what had a balance or moved.  What a batch carried over into it belongs to the opening.
StockMovementSummary(from, to) ==
    [p \in {x \in Products : \/ MovedIn(x, 1..(from - 1), Reasons) # 0
                             \/ \E b \in BatchesOf(x), d \in from..to, r \in Reasons : moved[b][d][r] # 0} |->
        [opening |-> MovedIn(p, 1..(from - 1), Reasons) + MovedIn(p, from..to, {"carried_over"}),
         units_received |-> MovedIn(p, from..to, {"received"}),
         out_on_orders |-> MovedIn(p, from..to, {"sold", "dispatched"}),
         returned |-> MovedIn(p, from..to, {"returned"}),
         given_away |-> MovedIn(p, from..to, {"given_away", "gift_returned"}),
         disposed |-> MovedIn(p, from..to, {"disposed"}),
         adjusted |-> MovedIn(p, from..to, Reasons \ {"carried_over", "received", "sold", "dispatched", "returned", "given_away", "gift_returned", "disposed"}),
         closing |-> MovedIn(p, 1..to, Reasons)]]

ApprovedIn(period, kinds) == {p \in DOMAIN Papers : Papers[p].kind \in kinds /\ paper[p].status = "Done" /\ paper[p].on \in period}
PaperUnits(papers, product) == SumOver(LAMBDA p : IF Stock[Papers[p].batch].product = product THEN Papers[p].units ELSE 0, papers)

\* The disposals damaged returns became are marked: a loss, but not off the shelf.
Disposals(period) ==
    [p \in Products |->
        [off_the_shelf |-> PaperUnits(ApprovedIn(period, {"disposal"}), p),
         from_returns |-> SumOver(LAMBDA b : SumOver(LAMBDA d : writtenOff[b][d], period), BatchesOf(p))]]
StockAdjustments(period) ==
    [p \in Products |-> [units_in |-> PaperUnits(ApprovedIn(period, {"in"}), p), units_out |-> PaperUnits(ApprovedIn(period, {"out"}), p)]]

\* Faulty form of Giveaways: one that came back is still counted.
GiftsThatLeft(period) ==
    [p \in Products |-> Cardinality({o \in Orders : gift[o].status \in {"Given", "Returned"} /\ gift[o].on \in period /\ Stock[Deal[o].gift].product = p})]

\* By the day given; one that came back is not counted.
Giveaways(period) ==
    [p \in Products |-> Cardinality({o \in Orders : gift[o].status = "Given" /\ gift[o].on \in period /\ Stock[Deal[o].gift].product = p})]

\* The marketing overview's gifts, in units and at cost.
MarketingGiven(period) ==
    LET given == {o \in Orders : gift[o].status = "Given" /\ gift[o].on \in period}
    IN  [units |-> Cardinality(given), cost |-> SumOver(LAMBDA o : Stock[Deal[o].gift].cost, given)]

\* A product's page: its lifetime in units.
Lifetime(p) == [sold |-> stats[p]["total_sold"], returned |-> stats[p]["total_returned"],
                damaged |-> stats[p]["total_damaged"], given_away |-> stats[p]["total_given_away"]]

-----------------------------------------------------------------------------
(* Purchases and suppliers *)

PurchaseMoney(p) ==
    LET paid == CASE paper[p].payment = "paid" -> Papers[p].total [] paper[p].payment = "unpaid" -> 0 [] OTHER -> paper[p].paid
    IN  [supplier |-> Papers[p].supplier, units |-> Papers[p].units, total |-> Papers[p].total, paid |-> paid, owed |-> Max({Papers[p].total - paid, 0})]
PurchasesReceived(period) == [p \in ApprovedIn(period, {"purchase"}) |-> PurchaseMoney(p)]
SupplierDues == [p \in {x \in ApprovedIn(Days, {"purchase"}) : paper[x].payment # "paid" /\ PurchaseMoney(x).owed > 0} |-> PurchaseMoney(p).owed]

BatchesFrom(s) == {b \in Batches : SupplierOf(b) = s}
SupplierStats(s) ==
    LET received == {p \in ApprovedIn(Days, {"purchase"}) : Papers[p].supplier = s}
        spent == SumOver(LAMBDA p : PurchaseMoney(p).total, received)
        paid == SumOver(LAMBDA p : PurchaseMoney(p).paid, received)
        sold == {l \in Lines : Sold[l].batch \in BatchesFrom(s) /\ order[Sold[l].order].status \in {"Purchased", "Delivered", "PartiallyReturned"}}
    IN  [orders |-> Cardinality(received), spent |-> spent, paid |-> paid, owed |-> Max({spent - paid, 0}),
         received |-> SumOver(LAMBDA p : Papers[p].units, received),
         faulty |-> SumOver(LAMBDA p : IF Papers[p].batch \in BatchesFrom(s) /\ Papers[p].reason = "quality_reject" THEN Papers[p].units ELSE 0,
                            ApprovedIn(Days, {"disposal"})),
         sold |-> SumOver(Kept, sold), sales |-> SalesOf(sold), cost |-> CostOf(sold)]

\* A purchase's export: a row for each line, with what its batch began with.
PurchaseOrderReport(p) ==
    [ordered |-> Papers[p].ordered, verified |-> IF paper[p].status = "Done" THEN Papers[p].units ELSE 0,
     batch |-> SumOver(LAMBDA b : IF Stock[b].purchase = p /\ Exists(b) THEN Papers[p].units ELSE 0, Batches),
     paid |-> PurchaseMoney(p).paid]
PurchaseOrderProductsReport(p) == {<<Stock[b].product, PurchaseOrderReport(p)>> : b \in {x \in Batches : Stock[x].purchase = p}}

\* The supplier's exports join each purchase of a product with every batch of it for sale or waiting for its price.
OrderedFrom(s, product) == {p \in DOMAIN Papers \cap plan : /\ Papers[p].kind = "purchase" /\ Papers[p].supplier = s
                                                            /\ Stock[Papers[p].batch].product = product}
Quantity(p) == IF paper[p].status = "Done" THEN Papers[p].units ELSE Papers[p].ordered
JoinedRows(product) == Max({1, Cardinality({b \in BatchesOf(product) \cap Stored : Stock[b].use \in {"ready_for_sale", "pending_pricing"}})})
SupplierExport(s) ==
    [product \in {x \in Products : ~deleted[x] /\ OrderedFrom(s, x) # {}} |-> SumOver(Quantity, OrderedFrom(s, product)) * JoinedRows(product)]
\* The performance report's quantities are joined in the same way.
SupplierPerformance(s) ==
    [product \in {x \in Products : ~deleted[x] /\ OrderedFrom(s, x) # {}} |->
        [quantity |-> SumOver(LAMBDA p : Quantity(p) * JoinedRows(product), OrderedFrom(s, product)), orders |-> Cardinality(OrderedFrom(s, product))]]
=============================================================================
