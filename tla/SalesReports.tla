---------------------------- MODULE SalesReports ----------------------------
(***************************************************************************)
(* The reports and pages that read sales and orders.  A report is a        *)
(* function from its rows' keys to their figures, for the days of a period *)
(* and the channels its reader sells through.                              *)
(***************************************************************************)
EXTENDS Figures

CONSTANTS
    Ads,        \* campaign: the type, partner and fee of each, the first and last day it is measured, its batches, and what it cost in all
    Floor,      \* FLOOR of campaign-result.js: under this many units nothing is judged
    ListRows    \* LIMIT: the rows of each list that is cut; of a report there are never too many

ASSUME SalesReportsAssumption ==
    Floor \in Nat \ {0} /\ ListRows \in [{"top_products", "products", "flow_places", "flow_products", "flow_customers"} -> Nat \ {0}]

Channels == {"POS", "ONLINE"}

Kept(l) == Sold[l].quantity - returned[l]
IsSold(o) == dates[o].sold # 0

\* ORDER BY and LIMIT: the first rows of a table.  Which of two that are level is cut is left open; in the code the name says.
Listed(list, table, Above(_, _)) ==
    LET keys == DOMAIN table
        first == CHOOSE S \in kSubset(Min({ListRows[list], Cardinality(keys)}), keys) : \A x \in S, y \in keys \ S : ~Above(y, x)
    IN  [k \in first |-> table[k]]

\* A sale belongs to the day it was made: at the counter at once, online when its parcel was delivered.
SoldIn(period, channels) == {o \in Orders : dates[o].sold \in period /\ order[o].channel \in channels}
LinesIn(period, channels) == {l \in Lines : Sold[l].order \in SoldIn(period, channels)}
KeptUnits(o) == SumOver(Kept, LinesOf(o))
KeepsSome(O) == {o \in O : KeptUnits(o) > 0}
KeptNotReturned(O) == {o \in O : order[o].status # "Returned"}
LineSales(l) == Net(l) * Kept(l)
LineCost(l) == Stock[Sold[l].batch].cost * Kept(l)
LineReturns(l) == Net(l) * returned[l]
SalesOf(lines) == SumOver(LineSales, lines)
CostOf(lines) == SumOver(LineCost, lines)

\* Faulty form of Received: what is still to be given back is counted as kept.
ReceivedUntilRefunded(o) == (CASE order[o].payment = "paid" -> Money(o)!Total [] order[o].payment = "unpaid" -> 0 [] OTHER -> order[o].paid) - order[o].refunded

\* What the business keeps of what was paid.
Received(o) ==
    (CASE order[o].payment = "paid" -> Money(o)!Total [] order[o].payment = "unpaid" -> 0 [] OTHER -> order[o].paid)
        - order[o].refunded - order[o].due

\* order-money.js: an order's goods, returns, sales and delivery, what the business keeps of what was paid,
\* and what is owed: nothing of an order that is settled.
OrderMoney(o) ==
    LET lines == LinesOf(o)
        delivery == IF \E n \in 1..MaxReturns : returns[o][n].status = "Returned" /\ returns[o][n].withDelivery THEN 0 ELSE Deal[o].charge
        total == SalesOf(lines) + delivery
    IN  [ returns |-> SumOver(LineReturns, lines), sales |-> SalesOf(lines), cost |-> CostOf(lines), delivery |-> delivery,
          customer_total |-> total, received |-> Received(o),
          owed |-> IF order[o].payment = "paid" THEN 0 ELSE Money(o)!AtLeastZero(total - Received(o)) ]

-----------------------------------------------------------------------------
(* Sales reports *)

SalesRegister(period, channels) == [o \in SoldIn(period, channels) |-> OrderMoney(o)]
RegisterColumn(period, channels, column) == LET r == SalesRegister(period, channels) IN SumOver(LAMBDA o : r[o][column], DOMAIN r)
RegisterCount(period, channels) == Cardinality(KeepsSome(SoldIn(period, channels)))

DailySales(period, channels) ==
    [d \in {dates[o].sold : o \in SoldIn(period, channels)} |->
        [sales |-> SalesOf(LinesIn({d}, channels)), cost |-> CostOf(LinesIn({d}, channels)),
         counter |-> SalesOf(LinesIn({d}, channels \cap {"POS"})), online |-> SalesOf(LinesIn({d}, channels \cap {"ONLINE"})),
         count |-> Cardinality(KeepsSome(SoldIn({d}, channels)))]]

Figured(lines) == [sales |-> SalesOf(lines), cost |-> CostOf(lines)]
LinesOfProduct(p, period, channels) == {l \in LinesIn(period, channels) : ProductOf(l) = p}
UnitsKept(products, days, channels) == SumOver(Kept, {l \in LinesIn(days, channels) : ProductOf(l) \in products})

SalesByProduct(period, channels) == [p \in {ProductOf(l) : l \in LinesIn(period, channels)} |-> Figured(LinesOfProduct(p, period, channels))]

ProfitByCategory(period, channels) ==
    [c \in {Goods[ProductOf(l)].category : l \in LinesIn(period, channels)} |->
        Figured({l \in LinesIn(period, channels) : Goods[ProductOf(l)].category = c})]

\* Confirmed returns by the day of their confirming; a parcel that never arrived is not one.
ReturnsReport(period, channels) ==
    LET rows == {r \in Orders \X (1..MaxReturns) :
                    /\ returns[r[1]][r[2]].status = "Returned" /\ ~returns[r[1]][r[2]].notDelivered
                    /\ returns[r[1]][r[2]].on \in period /\ order[r[1]].channel \in channels}
    IN  [r \in rows |-> LET ret == returns[r[1]][r[2]]
                        IN  [value |-> SumOver(LAMBDA l : ret.units[l] * Net(l), LinesOf(r[1])),
                             damaged |-> SumOver(LAMBDA l : ret.units[l], ret.damaged),
                             restocked |-> SumOver(LAMBDA l : ret.units[l], LinesOf(r[1]) \ ret.damaged)]]

Owing(channels) == {o \in Orders : IsSold(o) /\ order[o].status # "Cancelled" /\ order[o].payment # "paid" /\ order[o].channel \in channels}
CustomerDues(channels) == [o \in {x \in Owing(channels) : OrderMoney(x).owed > 0} |-> OrderMoney(o).owed]
CodWithCouriers(channels) == [o \in {x \in Owing(channels \cap {"ONLINE"}) : OrderMoney(x).owed > 0} |-> OrderMoney(o).owed]

-----------------------------------------------------------------------------
(* Customers, sources and people *)

CustomerList(channels) ==
    [c \in {Deal[o].buyer : o \in Orders} \ {"none"} |->
        LET bought == {o \in Orders : Deal[o].buyer = c /\ IsSold(o) /\ order[o].status # "Cancelled" /\ order[o].channel \in channels}
        IN  [sales |-> Cardinality(KeptNotReturned(bought)),
             bought |-> SumOver(LAMBDA o : OrderMoney(o).sales, bought) + SumOver(LAMBDA o : OrderMoney(o).delivery, KeptNotReturned(bought)),
             owed |-> SumOver(LAMBDA o : OrderMoney(o).owed, bought)]]

\* The record page of a customer: the paid amount is read where the order is not settled.
CustomerStats(c, channels) ==
    LET mine == {o \in Orders : Deal[o].buyer = c /\ order[o].channel \in channels}
        bought == {o \in mine : IsSold(o)}
        owing == {o \in bought : order[o].status # "Cancelled" /\ order[o].payment # "paid"}
        refunded(o) == \E n \in 1..MaxReturns : returns[o][n].status = "Returned" /\ returns[o][n].withDelivery
        delivery(o) == IF refunded(o) THEN 0 ELSE Deal[o].charge
        keeps(o) == (IF order[o].payment = "unpaid" THEN 0 ELSE order[o].paid) - order[o].refunded - order[o].due
    IN  [orders |-> Cardinality(mine),
         sales |-> Cardinality(KeptNotReturned(bought)),
         value |-> SalesOf({l \in Lines : Sold[l].order \in bought}) + SumOver(delivery, KeptNotReturned(bought)),
         owed |-> SumOver(LAMBDA o : Money(o)!AtLeastZero(SalesOf(LinesOf(o)) + delivery(o) - keeps(o)), owing)]

Rows(period, channels, key(_)) ==
    [k \in {key(o) : o \in SoldIn(period, channels)} |->
        LET O == {o \in SoldIn(period, channels) : key(o) = k}
        IN  [sales |-> SalesOf({l \in Lines : Sold[l].order \in O}), count |-> Cardinality(KeepsSome(O))]]

\* A walk-in sale is a row of its own.
CustomersByAgeAndGender(period, channels) == Rows(period, channels, LAMBDA o : Deal[o].buyer)
CustomersByDistrict(period, channels) == Rows(period, channels \cap {"ONLINE"}, LAMBDA o : Deal[o].district)
\* The counter is one row, and so are the online orders with no source.
SalesBySource(period, channels) == Rows(period, channels, LAMBDA o : IF order[o].channel = "POS" THEN "counter" ELSE Deal[o].source)

\* team.js, for one person: what they sold, the online orders they took and how those ended.
PlacedOn(o) == IF dates[o].placed = {} THEN 0 ELSE Min(dates[o].placed)
Person(who, period, channels) ==
    LET sold == {o \in SoldIn(period, channels) : Deal[o].seller = who}
        taken == {o \in Orders : Deal[o].seller = who /\ PlacedOn(o) \in period /\ "ONLINE" \in channels}
    IN  [sales |-> SalesOf({l \in Lines : Sold[l].order \in sold}), sold_orders |-> Cardinality(KeepsSome(sold)),
         taken |-> Cardinality(taken),
         cancelled |-> Cardinality({o \in taken : order[o].status = "Cancelled" /\ ~dates[o].business}),
         business_cancelled |-> Cardinality({o \in taken : order[o].status = "Cancelled" /\ dates[o].business}),
         dispatched |-> Cardinality({o \in taken : dates[o].dispatched # 0}),
         failed |-> Cardinality({o \in taken : order[o].parcel \in {"Failed", "BackInShop"}})]
People == {Deal[o].seller : o \in Orders}

-----------------------------------------------------------------------------
(* Sales analytics *)

\* kept-sales.js: every headline reads these lines; one person's own are narrowed to their orders.
KeptSales(period, channels, narrow(_)) ==
    LET lines == {l \in LinesIn(period, channels) : narrow(Sold[l].order)}
    IN  [sales |-> SalesOf(lines), cost |-> CostOf(lines), returns |-> SumOver(LineReturns, lines),
         orders |-> Cardinality({Sold[l].order : l \in {k \in lines : Kept(k) > 0}})]
Totals(period, channels) == KeptSales(period, channels, LAMBDA o : TRUE)
OwnTotals(who, period, channels) == KeptSales(period, channels, LAMBDA o : Deal[o].seller = who)
ByChannel(period, channels) == [c \in {order[o].channel : o \in SoldIn(period, channels)} |-> Totals(period, {c})]

\* extras.js: the counter's sales are those not returned in full.
Counter(period, channels) ==
    LET sold == KeptNotReturned(SoldIn(period, channels \cap {"POS"}))
    IN  [sales |-> Cardinality(sold), value |-> SalesOf({l \in Lines : Sold[l].order \in sold}),
         without_customer |-> Cardinality({o \in sold : Deal[o].buyer = "none"})]

\* products.js: a sold line's supplier is that of the purchase its batch came from, if it came from one.
SupplierOf(b) == IF Stock[b].purchase = "none" THEN "none" ELSE Papers[Stock[b].purchase].supplier
ReturnedDamaged(lines) ==
    SumOver(LAMBDA l : SumOver(LAMBDA n : IF returns[Sold[l].order][n].status = "Returned" /\ l \in returns[Sold[l].order][n].damaged
                                          THEN returns[Sold[l].order][n].units[l] ELSE 0, 1..MaxReturns), lines)

\* Faulty form of Suppliers: what came from no purchase is left out.
SuppliersOnly(period, channels) ==
    [s \in {SupplierOf(Sold[l].batch) : l \in LinesIn(period, channels)} \ {"none"} |->
        LET lines == {l \in LinesIn(period, channels) : SupplierOf(Sold[l].batch) = s}
        IN  [sales |-> SalesOf(lines), cost |-> CostOf(lines), kept_units |-> SumOver(Kept, lines), damaged_units |-> ReturnedDamaged(lines)]]

Suppliers(period, channels) ==
    [s \in {SupplierOf(Sold[l].batch) : l \in LinesIn(period, channels)} |->
        LET lines == {l \in LinesIn(period, channels) : SupplierOf(Sold[l].batch) = s}
        IN  [sales |-> SalesOf(lines), cost |-> CostOf(lines), kept_units |-> SumOver(Kept, lines), damaged_units |-> ReturnedDamaged(lines)]]
Demand(p, period, channels) ==
    SumOver(LAMBDA l : Sold[l].quantity,
            {l \in Lines : /\ ProductOf(l) = p
                           /\ \/ Sold[l].order \in SoldIn(period, channels \cap {"POS"})
                              \/ PlacedOn(Sold[l].order) \in period /\ "ONLINE" \in channels})

ProductsPage(period, channels) ==
    LET row(lines, p) ==
            [kept_units |-> SumOver(Kept, lines), demand_units |-> Demand(p, period, channels), sales |-> SalesOf(lines), cost |-> CostOf(lines),
             sold_units |-> SumOver(LAMBDA l : Sold[l].quantity, lines), returned_units |-> SumOver(LAMBDA l : returned[l], lines),
             damaged_units |-> ReturnedDamaged(lines)]
        rows == [p \in {ProductOf(l) : l \in LinesIn(period, channels)} |-> row(LinesOfProduct(p, period, channels), p)]
    IN  Listed("products", rows, LAMBDA p, q : rows[p].sales > rows[q].sales)
TopProducts(period, channels) ==
    LET rows == [p \in {x \in Products : UnitsKept({x}, period, channels) > 0} |->
                    [units |-> UnitsKept({p}, period, channels), sales |-> SalesOf(LinesOfProduct(p, period, channels))]]
    IN  Listed("top_products", rows,
               LAMBDA p, q : rows[p].sales > rows[q].sales \/ (rows[p].sales = rows[q].sales /\ rows[p].units > rows[q].units))

\* Each customer who kept something, once; and those whose sale is not returned in full.
Buyers(period, channels) == {Deal[o].buyer : o \in KeepsSome(SoldIn(period, channels))} \ {"none"}
Ages(period, channels) == {Deal[o].buyer : o \in KeptNotReturned(SoldIn(period, channels))} \ {"none"}
\* A customer is new in the period of their first sale ever.
Repeat(period, channels) ==
    LET sales(c, days) == {o \in KeptNotReturned(SoldIn(days, channels)) : Deal[o].buyer = c}
        customers == Ages(period, channels)
    IN  [customers |-> Cardinality(customers),
         new |-> Cardinality({c \in customers : sales(c, 1..(Min(period) - 1)) = {}}),
         bought_twice |-> Cardinality({c \in customers : Cardinality(sales(c, period)) >= 2})]

\* team.js: what was given off the list price, and where the orders came in.
Discounts(period, channels) ==
    LET lines == LinesIn(period, channels)
    IN  [list_price |-> SumOver(LAMBDA l : Sold[l].price * Sold[l].quantity, lines), discount |-> SumOver(LAMBDA l : Sold[l].discount * Sold[l].quantity, lines),
         lines |-> Cardinality(lines), discounted_lines |-> Cardinality({l \in lines : Sold[l].discount > 0})]
Arrivals(period, channels) ==
    [c \in channels |-> Cardinality(IF c = "POS" THEN SoldIn(period, {"POS"}) ELSE {o \in Orders : PlacedOn(o) \in period})]

\* The dashboard's headline reads the same lines.
AtAGlance(period, channels) ==
    LET totals == Totals(period, channels) IN [sales |-> totals.sales, profit |-> totals.sales - totals.cost, orders |-> totals.orders]

\* customers.js: places are the online sales not returned in full, by district.
Places(period, channels) ==
    [d \in {Deal[o].district : o \in KeptNotReturned(SoldIn(period, channels \cap {"ONLINE"}))} |->
        LET O == {o \in KeptNotReturned(SoldIn(period, channels \cap {"ONLINE"})) : Deal[o].district = d}
        IN  [orders |-> Cardinality(O), sales |-> SalesOf({l \in Lines : Sold[l].order \in O})]]

-----------------------------------------------------------------------------
(* The way of an online order *)

\* Faulty form of PlacedIn: an order is placed again by each editing of it.
PlacedOrEditedIn(period) == {o \in Orders : dates[o].placed \cap period # {}}

\* order-flow.js: an order is placed once, on the day of its first Pending row.
PlacedIn(period) == {o \in Orders : PlacedOn(o) \in period}

Cancelled(o) == order[o].status = "Cancelled"
Failed(o) == order[o].parcel \in {"Failed", "BackInShop"}
Was(date) == date # 0
Returned(o) == IsSold(o) /\ order[o].status = "Returned"

Funnel(period) ==
    LET count(P(_)) == Cardinality({o \in PlacedIn(period) : P(o)})
    IN  [ placed |-> Cardinality(PlacedIn(period)),
          confirmed |-> count(LAMBDA o : Was(dates[o].confirmed)),
          dispatched |-> count(LAMBDA o : Was(dates[o].dispatched)),
          delivered |-> count(IsSold),
          kept |-> count(LAMBDA o : IsSold(o) /\ order[o].status # "Returned"),
          waiting_confirm |-> count(LAMBDA o : ~Was(dates[o].confirmed) /\ ~Cancelled(o)),
          waiting_dispatch |-> count(LAMBDA o : Was(dates[o].confirmed) /\ ~Was(dates[o].dispatched) /\ ~Cancelled(o)),
          with_courier |-> count(LAMBDA o : Was(dates[o].dispatched) /\ ~IsSold(o) /\ ~Failed(o)),
          failed |-> count(Failed),
          cancelled |-> count(Cancelled),
          returned |-> count(Returned) ]

\* Split by reason, an order is cancelled before it was confirmed or after.
CancelReasons(period) ==
    [b \in BOOLEAN |->
        LET mine == {o \in PlacedIn(period) : Cancelled(o) /\ dates[o].business = b}
        IN  [before_confirm |-> Cardinality({o \in mine : ~Was(dates[o].confirmed)}), after_confirm |-> Cardinality({o \in mine : Was(dates[o].confirmed)})]]

\* The counts of a grouping.
Counts(O) ==
    [placed |-> Cardinality(O),
     cancelled |-> Cardinality({o \in O : Cancelled(o) /\ ~dates[o].business}), business_cancelled |-> Cardinality({o \in O : Cancelled(o) /\ dates[o].business}),
     dispatched |-> Cardinality({o \in O : Was(dates[o].dispatched)}), failed |-> Cardinality({o \in O : Failed(o)})]
FlowBy(period, key(_)) == [k \in {key(o) : o \in PlacedIn(period)} |-> Counts({o \in PlacedIn(period) : key(o) = k})]
Named(flow) == [k \in DOMAIN flow \ {"none"} |-> flow[k]]
FlowByPlace(period) ==
    LET flow == Named(FlowBy(period, LAMBDA o : Deal[o].district))
    IN  Listed("flow_places", flow, LAMBDA d, e : flow[d].placed > flow[e].placed)
FlowByTerms(period) ==
    LET flow == FlowBy(period, LAMBDA o : Deal[o].payment)
    IN  [terms \in DOMAIN flow |-> [dispatched |-> flow[terms].dispatched, failed |-> flow[terms].failed]]
\* Whoever called off two orders or more themselves.
FlowByCustomer(period) ==
    LET flow == Named(FlowBy(period, LAMBDA o : Deal[o].buyer))
        rows == [c \in {x \in DOMAIN flow : flow[x].cancelled >= 2} |-> [placed |-> flow[c].placed, cancelled |-> flow[c].cancelled]]
    IN  Listed("flow_customers", rows,
               LAMBDA c, d : rows[c].cancelled > rows[d].cancelled \/ (rows[c].cancelled = rows[d].cancelled /\ rows[c].placed > rows[d].placed))
\* An order with no source is in no row.
FlowBySource(period) == Named(FlowBy(period, LAMBDA o : Deal[o].source))
\* A product counts units.
FlowByProduct(period) ==
    LET lines(O) == {l \in Lines : Sold[l].order \in O}
        units(p, O) == SumOver(LAMBDA l : IF ProductOf(l) = p THEN Sold[l].quantity ELSE 0, lines(O))
        off(business) == {o \in PlacedIn(period) : Cancelled(o) /\ dates[o].business = business}
        rows == [p \in {ProductOf(l) : l \in lines(PlacedIn(period))} |->
                    [units |-> units(p, PlacedIn(period)), cancelled_units |-> units(p, off(FALSE)), business_cancelled_units |-> units(p, off(TRUE))]]
    IN  Listed("flow_products", rows, LAMBDA p, q : rows[p].units > rows[q].units)

\* How the orders ended; what ended in no way, or for the business's reasons, is open.
Outcomes(period) ==
    LET count(P(_)) == Cardinality({o \in PlacedIn(period) : P(o)})
        kept(o) == IsSold(o) /\ order[o].status # "Returned"
        called_off(o) == Cancelled(o) /\ ~dates[o].business
    IN  [kept |-> count(kept), failed |-> count(Failed), returned |-> count(Returned), cancelled |-> count(called_off),
         open |-> count(LAMBDA o : ~kept(o) /\ ~Failed(o) /\ ~Returned(o) /\ ~called_off(o))]
Refusal(period) ==
    LET sent == {o \in Orders : dates[o].dispatched \in period}
    IN  [dispatched |-> Cardinality(sent), failed |-> Cardinality({o \in sent : Failed(o)})]

\* The dashboard's counts, each as the list it opens has it.
OrdersToConfirm == Cardinality({o \in Orders : order[o].status = "Pending"})
OrdersToDispatch == Cardinality({o \in Orders : order[o].status = "Confirmed" /\ ~Was(dates[o].dispatched)})
ParcelsWithCourier == Cardinality({o \in Orders : order[o].parcel = "WithCourier"})
ReturnsToConfirm ==
    LET waiting == {r \in Orders \X (1..MaxReturns) : returns[r[1]][r[2]].status = "Pending"}
    IN  [count |-> Cardinality(waiting), parcels |-> Cardinality({r \in waiting : returns[r[1]][r[2]].notDelivered})]
\* The orders a person entered, and those that became sales.
ForYou(who, period) ==
    LET mine == {o \in PlacedIn(period) : Deal[o].seller = who}
    IN  [entered |-> Cardinality(mine), sold |-> Cardinality({o \in mine : IsSold(o) /\ order[o].status # "Returned"})]
-----------------------------------------------------------------------------
(* Marketing *)

\* A customer's first kept sale in these channels, and its day.
KeptSalesOf(c, channels) == {o \in KeptNotReturned(SoldIn(Days, channels)) : Deal[o].buyer = c}
FirstSale(c, channels) == CHOOSE o \in KeptSalesOf(c, channels) : \A x \in KeptSalesOf(c, channels) : dates[o].sold <= dates[x].sold
NewOn(days, channels) == {c \in Ages(Days, channels) : Min({dates[o].sold : o \in KeptSalesOf(c, channels)}) \in days}

MarketingDaily(period, channels) ==
    [d \in period |-> [sales |-> SalesOf(LinesIn({d}, channels)), first_time |-> Cardinality(NewOn({d}, channels))]]

\* The online orders placed in the period, whenever they were sold, by where they came in.
MarketingSources(period, channels) ==
    [s \in {Deal[o].source : o \in PlacedIn(period)} \ {"none"} |->
        LET O == {o \in PlacedIn(period) : Deal[o].source = s}
            lines == {l \in Lines : Sold[l].order \in O /\ IsSold(Sold[l].order)}
        IN  [placed |-> Cardinality(O), cancelled |-> Counts(O).cancelled, refused |-> Cardinality({o \in O : Failed(o)}),
             sold |-> Cardinality(KeptNotReturned({o \in O : IsSold(o)})), sales |-> SalesOf(lines), profit |-> SalesOf(lines) - CostOf(lines),
             first_time |-> Cardinality({c \in Ages(Days, channels) : FirstSale(c, channels) \in O})]]

\* Faulty form of Window: the day the result is read on is measured too.
WindowWithToday(c, on) == Ads[c].from..Min({Ads[c].until, on})

\* campaign-result.js: the days a campaign is measured over, cut at the day before `on` so that only whole
\* days are compared, and as many days just before them.
Window(c, on) == Ads[c].from..Min({Ads[c].until, on - 1})
Before(days) == (Min(days) - Cardinality(days))..(Min(days) - 1)

Promoted(c) == {Stock[b].product : b \in Ads[c].batches}
Busy(days) == UNION {Promoted(c) : c \in {x \in DOMAIN Ads : Ads[x].from <= Max(days) /\ Ads[x].until >= Min(days)}}

\* Faulty form of Rest: what only another campaign promoted counts as the rest of the business.
RestOfOne(c, days) == Products \ Promoted(c)

Rest(c, days) == Products \ Busy(days)

BusinessWindow(c, on, channels) == SalesOf(LinesIn(Window(c, on), channels))

CampaignFigures(c, on, channels) ==
    LET window == Window(c, on)
        before == Before(window)
        rest == Rest(c, before \cup window)
    IN  [units_before |-> [p \in Promoted(c) |-> UnitsKept({p}, before, channels)],
         units_window |-> [p \in Promoted(c) |-> UnitsKept({p}, window, channels)],
         profit_window |-> [p \in Promoted(c) |-> SalesOf(LinesOfProduct(p, window, channels)) - CostOf(LinesOfProduct(p, window, channels))],
         rest_before |-> UnitsKept(rest, before, channels), rest_window |-> UnitsKept(rest, window, channels),
         business_before |-> SalesOf(LinesIn(before, channels)), business_window |-> BusinessWindow(c, on, channels),
         first_time |-> Cardinality(NewOn(window, channels)),
         first_time_promoted |-> Cardinality({x \in NewOn(window, channels) :
            \E l \in LinesIn(window, channels) : Kept(l) > 0 /\ Deal[Sold[l].order].buyer = x /\ ProductOf(l) \in Promoted(c)})]

\* Units rise when they outgrow the rest of the business; the fractions of judge and rising_of, multiplied out.
Extra(before, window, rest_before, rest_window) == window * rest_before - before * rest_window

\* A promoted product that sold nothing before is left out.
Judge(figures, cost) ==
    LET judged == {p \in DOMAIN figures.units_before : figures.units_before[p] > 0}
        before == SumOver(LAMBDA p : figures.units_before[p], judged)
        window == SumOver(LAMBDA p : figures.units_window[p], judged)
        profit == SumOver(LAMBDA p : figures.profit_window[p], judged)
        extra == Extra(before, window, figures.rest_before, figures.rest_window)
    IN  CASE figures.rest_before = 0 -> "no_rest"
          [] figures.rest_before > 0 /\ (before < Floor \/ window < Floor) -> "few_units"
          [] OTHER -> IF extra <= 0 THEN "no_rise"
                      ELSE IF extra * profit >= cost * window * figures.rest_before THEN "paid" ELSE "rose_not_paid"

\* The campaigns of a period that have begun by the day before `on`.
CampaignResults(period, on, channels) ==
    {LET figures == CampaignFigures(c, on, channels)
     IN  [campaign |-> c, figures |-> figures, verdict |-> Judge(figures, Ads[c].cost), cost |-> Ads[c].cost] :
        c \in {x \in DOMAIN Ads : Ads[x].from <= Min({Max(period), on - 1}) /\ Ads[x].until >= Min(period)}}

\* comparisons.js: by type and by partner; a campaign's result is not split between its partners.
Compared(results, field) ==
    [k \in {Ads[r.campaign][field] : r \in results} |->
        LET own == {r \in results : Ads[r.campaign][field] = k}
        IN  [campaigns |-> Cardinality(own), paid |-> Cardinality({r \in own : r.verdict = "paid"}),
             judged |-> Cardinality({r \in own : r.verdict \notin {"no_rest", "few_units"}}),
             cost |-> SumOver(LAMBDA r : r.cost, own), fees |-> SumOver(LAMBDA r : Ads[r.campaign].fee, own),
             first_time |-> SumOver(LAMBDA r : r.figures.first_time, own)]]

\* get-marketing-next.js: what no campaign promoted, in the period up to the day before `on` and before it.
Unpromoted(period, on, channels) ==
    LET window == Min(period)..Min({Max(period), on - 1})
        days == Before(window) \cup window
    IN  [p \in {ProductOf(l) : l \in LinesIn(days, channels)} \ Busy(days) |->
            [before |-> UnitsKept({p}, Before(window), channels), window |-> UnitsKept({p}, window, channels)]]
Rising(period, on, channels) ==
    LET rows == Unpromoted(period, on, channels)
        others(p, part) == SumOver(LAMBDA q : rows[q][part], DOMAIN rows \ {p})
    IN  {p \in DOMAIN rows : /\ rows[p].before >= Floor /\ rows[p].window >= Floor /\ others(p, "before") > 0
                             /\ Extra(rows[p].before, rows[p].window, others(p, "before"), others(p, "window")) > 0}

\* Whoever bought the category that sold most and that no campaign promoted; nobody, if that is no category at all.
Audience(period, channels) ==
    LET kept == {l \in LinesIn(period, channels) : Kept(l) > 0}
        of(c) == {l \in kept : Goods[ProductOf(l)].category = c}
        free == {Goods[ProductOf(l)].category : l \in kept} \ ({Goods[p].category : p \in Busy(period)} \ {"none"})
        top == CHOOSE c \in free : \A x \in free : SalesOf(of(c)) >= SalesOf(of(x))
    IN  IF free = {} THEN {} ELSE IF top = "none" THEN {} ELSE {Deal[Sold[l].order].buyer : l \in of(top)} \ {"none"}
=============================================================================
