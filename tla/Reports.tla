------------------------------- MODULE Reports -------------------------------
(***************************************************************************)
(* What the reports promise together.  Each is a query of its own over     *)
(* rows of its own, dated and filtered its own way; the figures that bear  *)
(* one name must be one number.                                            *)
(***************************************************************************)
EXTENDS StockReports

Periods == {from..to : from, to \in Days} \ {{}}
Sides == SUBSET Channels \ {{}}
Groups(group) == {Goods[p][group] : p \in Products} \ {"none"}
Warehouses == {Stock[b].warehouse : b \in Batches}
Aisles == {Stock[b].aisle : b \in Batches} \ {"none"}
SupplierNames == {Papers[p].supplier : p \in DOMAIN Papers} \ {"none"}
\* A report filters by day and by channel on their own: a period over all channels, and all days of some.
Readings == (Periods \X {Channels}) \cup ({Days} \X Sides)
Sum(report, column) == SumOver(LAMBDA k : report[k][column], DOMAIN report)
\* A report worked out once, for several of its columns.
Table(report) == {<<k, report[k]>> : k \in DOMAIN report}
ColumnSum(table, column) == SumOver(LAMBDA row : row[2][column], table)
\* A list that may be cut has each row as the report has it, and none that sold more is missing.
HeadOf(list, report, rows) ==
    /\ \A k \in DOMAIN list : list[k].sales = report[k].sales
    /\ \A k \in DOMAIN list, left \in DOMAIN report \ DOMAIN list : report[left].sales <= report[k].sales
    /\ Cardinality(DOMAIN list) < rows => Sum(list, "sales") = Sum(report, "sales")

\* The marketing pages count the sales, the orders and the new customers that the sales pages count, and what a
\* campaign is measured against is what no campaign promoted, of which not everything outgrows the rest.
\* marketing/analytics.
MarketingAgrees ==
    /\ \A <<period, side>> \in Readings :
        LET daily == Table(MarketingDaily(period, side))
        IN  /\ ColumnSum(daily, "sales") = Totals(period, side).sales /\ ColumnSum(daily, "first_time") = Repeat(period, side).new
            /\ Audience(period, side) \subseteq Buyers(period, side)
    /\ \A period \in Periods :
        LET sources == MarketingSources(period, Channels)
            flow == FlowBySource(period)
            sold == SalesBySource(period, {"ONLINE"})
        IN  /\ Sum(sources, "placed") = Sum(flow, "placed") /\ Sum(sources, "cancelled") = Sum(flow, "cancelled")
            /\ Sum(sources, "refused") = Sum(flow, "failed")
            /\ period = Days => \A s \in DOMAIN sold \ {"none"} : sources[s].sales = sold[s].sales
    /\ LET on == LastDay + 2
           results == CampaignResults(1..on, on, Channels)
       IN  /\ \A field \in {"type", "partner"} :
               /\ Sum(Compared(results, field), "campaigns") = Cardinality(results)
               /\ Sum(Compared(results, field), "cost") = SumOver(LAMBDA r : r.cost, results)
           /\ \A r \in results :
               LET window == Window(r.campaign, on)
                   rest == Unpromoted(window, on, Channels)
               IN  /\ r.figures.business_window = Totals(window, Channels).sales /\ r.figures.first_time = Repeat(window, Channels).new
                   /\ r.figures.rest_before = Sum(rest, "before") /\ r.figures.rest_window = Sum(rest, "window")
                   /\ Rising(window, on, Channels) = DOMAIN rest => DOMAIN rest = {}

\* Sales, cost and count of a period are one number on every report, page and dashboard that shows them,
\* however it splits them: by order, day, product, category, channel, source, customer, person or supplier.
\* report/sales, report/customer, report/marketing, sales/analytics, dashboard.
SalesReportsAgree ==
    /\ MarketingAgrees
    /\ \A <<period, side>> \in Readings :
           LET sales == Totals(period, side).sales
               cost == Totals(period, side).cost
               orders == Totals(period, side).orders
               online == Totals(period, side \cap {"ONLINE"})
               counter == Totals(period, side \cap {"POS"})
               daily == Table(DailySales(period, side))
               categories == Table(ProfitByCategory(period, side))
               products == Table(SalesByProduct(period, side))
               sources == Table(SalesBySource(period, side))
               suppliers == Table(Suppliers(period, side))
               places == Table(Places(period, side))
           IN  /\ {sales} = {RegisterColumn(period, side, "sales"), ColumnSum(daily, "sales"), ColumnSum(products, "sales"),
                             ColumnSum(categories, "sales"), Sum(ByChannel(period, side), "sales"), ColumnSum(sources, "sales"),
                             Sum(CustomersByAgeAndGender(period, side), "sales"), ColumnSum(suppliers, "sales"),
                             SumOver(LAMBDA who : Person(who, period, side).sales, People), SumOver(LAMBDA who : OwnTotals(who, period, side).sales, People),
                             AtAGlance(period, side).sales,
                             Discounts(period, side).list_price - Discounts(period, side).discount - Totals(period, side).returns}
               /\ {cost} = {RegisterColumn(period, side, "cost"), ColumnSum(daily, "cost"), ColumnSum(products, "cost"),
                            ColumnSum(categories, "cost"), ColumnSum(suppliers, "cost"),
                            AtAGlance(period, side).sales - AtAGlance(period, side).profit}
               /\ {orders} = {RegisterCount(period, side), ColumnSum(daily, "count"), ColumnSum(sources, "count"),
                              SumOver(LAMBDA who : Person(who, period, side).sold_orders, People)}
               /\ {online.sales} = {ColumnSum(daily, "online"), Sum(CustomersByDistrict(period, side), "sales"), ColumnSum(places, "sales")}
               /\ {counter.sales} = {ColumnSum(daily, "counter"), Counter(period, side).value}
               /\ counter.orders = Counter(period, side).sales /\ online.orders = ColumnSum(places, "orders")
               /\ HeadOf(ProductsPage(period, side), SalesByProduct(period, side), ListRows["products"])
               /\ HeadOf(TopProducts(period, side), SalesByProduct(period, side), ListRows["top_products"])
               /\ Buyers(period, side) = Ages(period, side) /\ Repeat(period, side).customers = Cardinality(Buyers(period, side))

\* Units balance: what each day opened with and moved is what it closed with and is on hand; and the
\* lifetime counters, the sales, the returns, the gifts, the disposals and the purchases count the same units.
\* report/stock, report/marketing/utils/giveaways.js, sales/analytics/utils/products.js, product_stats.
UnitsAddUp ==
    LET shown(report, p, column) == IF p \in DOMAIN report THEN report[p][column] ELSE 0
        columns == {"units_received", "out_on_orders", "returned", "given_away", "disposed", "adjusted"}
        since == StockMovementSummary(1, LastDay)
        returnedUnits(column) == Sum(ReturnsReport(Days, Channels), column)
    IN  /\ \A from, to \in Days : from <= to =>
            LET summary == StockMovementSummary(from, to)
            IN  \A p \in Products :
                    /\ shown(summary, p, "opening") + SumOver(LAMBDA c : shown(summary, p, c), columns) = shown(summary, p, "closing")
                    /\ from > 1 => shown(summary, p, "opening") = shown(StockMovementSummary(1, from - 1), p, "closing")
                    /\ -shown(summary, p, "disposed") = Disposals(from..to)[p].off_the_shelf
                    /\ shown(summary, p, "adjusted") = StockAdjustments(from..to)[p].units_in - StockAdjustments(from..to)[p].units_out
        /\ \A p \in Products :
            /\ shown(since, p, "closing") = SumOver(LAMBDA b : BatchFigures(b).on_hand, BatchesOf(p))
            /\ -shown(since, p, "given_away") = Giveaways(Days)[p] /\ Lifetime(p).given_away = Giveaways(Days)[p]
            /\ stats[p]["total_damaged"] + stats[p]["total_wasted"] = Disposals(Days)[p].off_the_shelf + Disposals(Days)[p].from_returns
        /\ \A period \in Periods : MarketingGiven(period).units = SumOver(LAMBDA p : Giveaways(period)[p], Products)
        /\ SumOver(LAMBDA p : Lifetime(p).sold, Products) - SumOver(Kept, LinesIn(Days, Channels)) = returnedUnits("restocked") + returnedUnits("damaged")
        /\ SumOver(LAMBDA p : Lifetime(p).returned, Products) = returnedUnits("restocked")
        /\ SumOver(LAMBDA s : SupplierStats(s).sold, SupplierNames) = SumOver(LAMBDA s : IF s = "none" THEN 0 ELSE Suppliers(Days, Channels)[s].kept_units, DOMAIN Suppliers(Days, Channels))

\* What is on hand is one figure on the overview, the dashboard, the reports and the pages of the warehouses and of
\* the aisles with what is on none, and a product is low on all of them or on none; the exports of the categories,
\* sub-categories and brands, the warehouses and the aisles add up to it for what belongs to one; what is owed for it
\* is one figure on the dues, the purchases and the suppliers' pages.
\* inventory/overview, configuration stats pages and exports, report/stock, dashboard/utils.
StockPagesAgree ==
    LET on_hand == Sum(StockOnHand, "on_hand")
        of(group, column) == SumOver(LAMBDA b : StockOnHand[b][column], {b \in DOMAIN StockOnHand : Goods[Stock[b].product][group] # "none"})
        filed(b) == Filed(Stock[b].product)
        branded(b) == filed(b) /\ Goods[Stock[b].product].brand # "none"
        placed(b) == filed(b) /\ Stock[b].aisle # "none"
        those(belongs(_)) == SumOver(LAMBDA b : StockOnHand[b]["on_hand"], {b \in DOMAIN StockOnHand : belongs(b)})
        over(names, report(_), column) == SumOver(LAMBDA k : Sum(report(k), column), names)
        lists(names, report(_)) == SumOver(LAMBDA k : SumOver(LAMBDA p : report(k)[p].figures["on_hand"], DOMAIN report(k)), names)
        ready(p) == \A b \in BatchesOf(p) : Stock[b].use = "ready_for_sale"
    IN  /\ {on_hand} = {StockHeadline["on_hand"], SumOver(LAMBDA p : Sum(ProductPage(p), "on_hand"), DOMAIN ProductStock),
                        SumOver(LAMBDA w : WarehouseStats(w).figures["on_hand"], Warehouses), SumOver(WarehouseFullness, Warehouses),
                        SumOver(LAMBDA a : AisleStats(a).figures["on_hand"], Aisles) + SumOver(LAMBDA w : WarehouseStats(w).unplaced, Warehouses)}
        /\ {of("category", "on_hand")} = {lists(Groups("category"), ProductListByCategory), over(Groups("category"), InventoryByCategory, "on_hand")}
        /\ {those(filed)} = {lists(Groups("sub_category"), ProductListBySubCategory), lists(Warehouses, ProductListByWarehouse),
                              over(Groups("sub_category"), InventoryBySubCategory, "on_hand"), over(Warehouses, InventoryByWarehouse, "on_hand")}
        /\ {those(branded)} = {lists(Groups("brand"), ProductListByBrand), over(Groups("brand"), InventoryByBrand, "on_hand")}
        /\ {those(placed)} = {lists(Aisles, ProductListByAisle), over(Aisles, InventoryByAisle, "on_hand")}
        /\ {Sum(StockOnHand, "sellable")} = {StockHeadline["sellable"]}
        /\ of("category", "sellable") = SumOver(LAMBDA c : ProductStockStats("category", c).figures["sellable"], Groups("category"))
        /\ of("sub_category", "sellable") = over(Warehouses, InventoryByWarehouse, "sellable")
        /\ StockToWatch["out"] + StockToWatch["low"] = Cardinality({p \in DOMAIN ProductStock : p \in DOMAIN ReorderList /\ ready(p)})
        /\ UNION {ProductStockStats("category", c).low : c \in Groups("category")} = {p \in DOMAIN ProductStock : StockStatus(p) = "low"}
        /\ \A a \in Aisles : AisleStats(a).low = AisleStats(a).items \cap UNION {WarehouseStats(w).low : w \in Warehouses}
        /\ DOMAIN ExpiringStock(LastDay) = {b \in DOMAIN StockOnHand : Stock[b].expiry # 0}
        /\ EmptyAisles = {a \in Aisles : AisleStats(a).figures["on_hand"] = 0}
        /\ \A group \in {"category", "brand"} : SumOver(LAMBDA k : Spread(group)[k], DOMAIN Spread(group)) = Cardinality({p \in Products : ~deleted[p]})
        /\ \A kinds \in {{"purchase"}, {"disposal"}, {"in", "out"}} :
            PapersWaiting(kinds) + Cardinality(ApprovedIn(Days, kinds)) = Cardinality({p \in plan \cap DOMAIN Papers : Papers[p].kind \in kinds})
        /\ \A s \in SupplierNames :
            LET mine == {p \in ApprovedIn(Days, {"purchase"}) : Papers[p].supplier = s}
            IN  /\ BoughtFrom(s) <=> SupplierStats(s).received > 0
                /\ SupplierStats(s).owed = SumOver(LAMBDA p : SupplierDues[p], mine \cap DOMAIN SupplierDues)
                /\ SupplierStats(s).spent = SumOver(LAMBDA p : PurchasesReceived(Days)[p].total, mine)
                /\ \A p \in mine : PurchaseOrderReport(p).paid = PurchasesReceived(Days)[p].paid /\ PurchaseOrderReport(p).batch = PurchaseOrderReport(p).verified
                /\ \A p \in mine : \A row \in PurchaseOrderProductsReport(p) : row[2].verified = PurchasesReceived(Days)[p].units
                /\ \A p \in DOMAIN SupplierExport(s) : SupplierExport(s)[p] = SupplierPerformance(s)[p].quantity

\* The money of every sale balances after any returns and refunds: what the customer keeps is what they paid
\* plus what they owe; and the dues, the customers' list and a customer's page owe the same: something for a sale
\* at the counter that was not paid in full, nothing for a parcel, whose delivery pays it.
\* report/sales/utils/order-money.js, customer-dues.js, customer-list.js, sales/customer/utils/customer-history.js.
EverySaleBalances ==
    /\ \A o \in SoldIn(Days, Channels) : OrderMoney(o).customer_total = OrderMoney(o).received + OrderMoney(o).owed
    /\ RegisterColumn(Days, Channels, "returns") = Sum(ReturnsReport(Days, Channels), "value")
    /\ \A side \in Sides : CodWithCouriers(side) = CustomerDues(side \cap {"ONLINE"}) /\ DOMAIN CodWithCouriers(side) = {}
    /\ \A side \in Sides : \A c \in DOMAIN CustomerList(side) :
        /\ CustomerStats(c, side).owed = CustomerList(side)[c].owed /\ CustomerStats(c, side).value = CustomerList(side)[c].bought
        /\ CustomerList(side)[c].owed = SumOver(LAMBDA o : IF Deal[o].buyer = c THEN CustomerDues(side)[o] ELSE 0, DOMAIN CustomerDues(side))

\* Every online order placed is in one stage of the funnel, on one day of the period however often it is
\* edited, and the dashboard's counts are the funnel's.
\* A parcel that was not delivered has a return waiting until it is back in the shop.
\* sales/analytics/utils/order-flow.js, team.js, dashboard/utils/attention.js, for-you.js.
OrdersAccountedFor ==
    /\ \A period \in Periods :
        LET f == Funnel(period)
        IN  /\ f.placed = f.cancelled + f.waiting_confirm + f.waiting_dispatch + f.with_courier + f.failed + f.delivered
            /\ f.delivered = f.kept + f.returned
            /\ f.placed = SumOver(LAMBDA d : Funnel({d}).placed, period)
            /\ f.placed = SumOver(LAMBDA who : Person(who, period, Channels).taken, People)
            /\ f.kept = SumOver(LAMBDA who : ForYou(who, period).sold, People)
            /\ f.placed = Arrivals(period, {"ONLINE"})["ONLINE"]
            /\ f.cancelled = Sum(CancelReasons(period), "before_confirm") + Sum(CancelReasons(period), "after_confirm")
            /\ {f.failed} = {Sum(FlowByTerms(period), "failed"), SumOver(LAMBDA who : Person(who, period, Channels).failed, People)}
            /\ {f.dispatched} = {Sum(FlowByTerms(period), "dispatched"), SumOver(LAMBDA who : Person(who, period, Channels).dispatched, People)}
            /\ {Outcomes(period).cancelled} = {CancelReasons(period)[FALSE].before_confirm + CancelReasons(period)[FALSE].after_confirm,
                                               SumOver(LAMBDA who : Person(who, period, Channels).cancelled, People)}
            /\ Sum(FlowByCustomer(period), "cancelled") <= Outcomes(period).cancelled
            /\ \A c \in DOMAIN FlowByCustomer(period) : FlowByCustomer(period)[c].placed <= CustomerStats(c, {"ONLINE"}).orders
            /\ LET cut == Cardinality({Deal[o].district : o \in PlacedIn(period)}) > ListRows["flow_places"]
               IN  \A count \in {"placed", "cancelled", "business_cancelled", "dispatched", "failed"} :
                       LET shown == Sum(FlowByPlace(period), count)
                       IN  IF cut THEN shown <= Counts(PlacedIn(period))[count] ELSE shown = Counts(PlacedIn(period))[count]
            /\ \A count \in {"placed", "cancelled", "business_cancelled", "dispatched", "failed"} :
                Sum(FlowBySource(period), count) = Counts({o \in PlacedIn(period) : Deal[o].source # "none"})[count]
            /\ LET e == Outcomes(period) IN f.placed = e.kept + e.failed + e.returned + e.cancelled + e.open
    /\ LET f == Funnel(Days)
       IN  OrdersToConfirm = f.waiting_confirm /\ OrdersToDispatch = f.waiting_dispatch /\ ParcelsWithCourier = f.with_courier
    /\ Refusal(Days).failed = Funnel(Days).failed
    /\ ReturnsToConfirm.parcels = Cardinality({o \in Orders : order[o].parcel = "Failed"})
    /\ \A period \in Periods : LET flow == FlowByProduct(period)
                               IN  \A p \in DOMAIN flow, q \in Products :
                                       /\ flow[p].units = Demand(p, period, {"ONLINE"})
                                       /\ q \notin DOMAIN flow => Demand(q, period, {"ONLINE"}) <= flow[p].units

\* A day that is over only loses sales, by returns; no step moves a sale into it or makes one of it larger.
\* What a campaign is judged by, read today, no sale of today moves.
\* The day an order was sold is written once (order-moves.js, checkout-pos-draft.js).
ClosedDaysOnlyFall ==
    [][\A d \in 1..(today - 1) :
        /\ DOMAIN DailySales({d}, Channels)' = DOMAIN DailySales({d}, Channels)
        /\ Sum(DailySales({d}, Channels), "sales")' <= Sum(DailySales({d}, Channels), "sales")
        /\ today' = today => \A c \in {x \in DOMAIN Ads : Ads[x].from = d} : BusinessWindow(c, today, Channels)' <= BusinessWindow(c, today, Channels)]_vars
=============================================================================
