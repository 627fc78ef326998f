------------------------------- MODULE SalesDesk -------------------------------
(***************************************************************************)
(* The sales desk at work: people who take bookings and orders, look after *)
(* customers, add gifts, run campaigns and send parcels, all at once, over *)
(* the same rows.                                                          *)
(***************************************************************************)
EXTENDS DeskOrders

CONSTANTS
    Starts,     \* what the requests may ask for together
    Openings    \* where the rows may stand at the start

\* A request that passed its schema: what it is about, and what it sends.  A gift added to a parcel is for
\* no campaign, and a gift of its own is in no parcel.
Form(j) ==
    /\ j.do \in {"save", "pay"} => j.row \in Rows
    /\ j.do = "save" /\ j.row \in Customers => j.to \in [phone : Phones]
    /\ j.do = "save" /\ j.row \in Deliverables => j.to \in [is : {"Pending", "Posted", "Missed"}]
    /\ j.do = "register" => j.to.phone \in Phones /\ j.to.new \in Customers
    /\ j.do = "book" \/ (j.do = "save" /\ j.row \in PreOrders \cup Orders) \/ j.do = "place" =>
            j.to.phone \in Phones /\ j.to.new \in Customers \cup {Nobody}
    /\ j.do = "checkout" => j.to.phone \in Phones \cup {Nobody} /\ j.to.new \in Customers \cup {Nobody}
    /\ j.do = "register" => j.to.address \in Addresses \cup {Nobody}
    /\ j.do = "address" => j.to.address \in Addresses
    /\ j.do = "place" \/ (j.do = "save" /\ j.row \in Orders) =>
            /\ j.to.saved \in Addresses \cup {Nobody} /\ (j.to.saved = Nobody => j.to.address \in Addresses)
            /\ j.to.booking \in PreOrders \cup {NoOrder}
    /\ j.do = "pay partner" => j.to.line \in Lines
    /\ j.do = "promise" => j.to \in Lines
    /\ j.do = "add" => j.to.order \in Orders /\ j.to.line = NoLine
    /\ j.do = "draft gift" => j.to.order = NoOrder /\ j.to.line \in Lines \cup {NoLine}

ASSUME SalesDeskAssumption == \A start \in Starts, t \in Requests : Form(start[t])

\* The day's orders are numbered in a row.
Existing(d) == {o \in Orders : d[o].is # "None"}
Numbered(d) ==
    /\ \A o \in Existing(d) : d[o].number \in 1..Cardinality(Existing(d))
    /\ \A o, p \in Existing(d) : o # p => d[o].number # d[p].number

\* What refers to a partner on a campaign has the line it refers to.
RecordsKept(d) ==
    /\ \A p \in Payments : d[p].is = "Paid" => d[d[p].line].is = "On"
    /\ \A p \in Deliverables : d[p].is \notin {"None", "Removed"} => d[d[p].line].is = "On"
    /\ \A g \in Gifts : d[g].is # "None" /\ d[g].line # NoLine => d[d[g].line].is = "On"

\* A converted booking is its order's.
Converted(d) ==
    LET madeFrom(b) == {o \in Orders : d[o].booking = b}
    IN  \A b \in PreOrders :
            /\ d[b].is = "Converted" <=> madeFrom(b) # {}
            /\ \A o \in madeFrom(b) :
                /\ d[b].order = o
                /\ d[o].customer = d[b].customer
                /\ d[o].units >= d[b].units
                /\ d[o].paid = IF d[o].is = "Delivered" THEN d[o].total ELSE d[b].advance - d[b].refunded

\* Rows as the day may find them: of a row that is not there yet nothing is known, an order that is not
\* placed is of no booking, and a gift in a parcel is for no campaign.
Opening(d) ==
    /\ d = [r \in Rows |-> d[r]] /\ \A r \in Rows : d[r] \in ShelfRowType(r)
    /\ Numbered(d) /\ RecordsKept(d) /\ Converted(d)
    /\ \A c \in Customers : d[c].is = "None" => d[c].flag = "None"
    /\ \A o \in Orders : d[o].is \in {"None", "Draft"} => d[o].booking = NoOrder
    /\ \A g \in Gifts : d[g].order # NoOrder => d[g].line = NoLine

\* Who a request may add, each request its own; only customers who are there are flagged.
AddsCustomer(j) == j.do \in {"register", "book", "place", "checkout"} \/ (j.do = "save" /\ j.row \in PreOrders \cup Orders)
Meets(start, d) ==
    /\ \A t \in Requests : start[t].do = "flag" => d[start[t].row].is # "None"
    /\ \A t \in Requests : AddsCustomer(start[t]) /\ start[t].to.new \in Customers =>
            /\ d[start[t].to.new].is = "None"
            /\ \A u \in Requests \ {t} : AddsCustomer(start[u]) => start[u].to.new # start[t].to.new

ASSUME OpeningsAssumption == \A d \in Openings : Opening(d) /\ \A start \in Starts : Meets(start, d)

vars == <<db, lock, tx, job, shared>>

Init ==
    /\ db \in Openings
    /\ Begun("begin")
    /\ NothingShared
    /\ job \in Starts

Needs(t) ==
    FormNeeds(t) \cup CustomerNeeds(t) \cup BookingNeeds(t) \cup CampaignNeeds(t) \cup GiftNeeds(t) \cup OrderNeeds(t)
Wants(t) == GiftWants(t)

Next ==
    \/ \E t \in Requests :
        \/ FormStep(t) \/ CustomerStep(t) \/ BookingStep(t) \/ CampaignStep(t, GiftLines(t)) \/ GiftStep(t)
        \/ OrderStep(t) \/ update_batch_pricing(t)
        \/ Finish(t) \/ LoseConnection(t) \/ BreakCycle(t, Needs, Wants)
    \/ AllAnswered /\ UNCHANGED shared

Spec == Init /\ [][Next]_vars

-----------------------------------------------------------------------------
(* Properties *)

TypeOK ==
    /\ \A r \in Rows : db[r] \in ShelfRowType(r)
    /\ \A t \in Requests : {r \in Rows : lock[r] = t} = DOMAIN tx[t].mine

ActiveUnits ==
    SumOver(Orders, LAMBDA o : db[o].held) + SumOver({g \in Gifts : db[g].hold = "Active"}, LAMBDA g : db[g].units)

\* What orders and gifts are promised is on the shelf: nobody sells, gives or holds the same unit twice.
PromisedOnHand == ActiveUnits <= db[TheBatch].onHand

UnitsGone ==
    SumOver({o \in Orders : db[o].is \in {"Dispatched", "Delivered", "Purchased"}}, LAMBDA o : db[o].units)
    + SumOver({g \in Gifts : db[g].is = "Given"}, LAMBDA g : db[g].units)

\* Every unit is on the shelf, with a customer or on its way: nothing leaves twice, comes back twice, or
\* leaves for a gift that was taken out of its parcel meanwhile.
EveryUnitSomewhere == \E d \in Openings : db[TheBatch].onHand + UnitsGone = d[TheBatch].onHand

\* The batch's units are all accounted for, promised or gone.
UnitsAccountedFor == TypeOK /\ PromisedOnHand /\ EveryUnitSomewhere

\* A gift in a parcel goes where the order goes: it holds its units while the order waits, leaves with
\* it, and never stays behind with an order that was cancelled or sent back.
GiftFollowsItsOrder ==
    \A g \in {h \in Gifts : db[h].order # NoOrder} :
        LET order == db[db[g].order].is
        IN  /\ db[g].hold = "Active" <=> db[g].is = "Held"
            /\ db[g].is = "Held" => order \in {"Pending", "Confirmed"}
            /\ db[g].is = "Given" => db[g].hold = "Deducted" /\ order \in {"Dispatched", "Delivered"}
            /\ db[g].is = "Returned" => order = "Returned"

\* A booking becomes one order, its customer's, with every unit that was booked and paid what was in
\* advance when it closed, through every edit of the order since (REQ-08 to REQ-11).
BookingKept == Converted(db)

\* A customer with a saved address has one default, whoever adds, changes and removes addresses at once.
OneDefault ==
    \A c \in Customers :
        LET saved == {a \in Addresses : db[a].is = "Active" /\ db[a].of = c}
        IN  saved # {} => Cardinality({a \in saved : db[a].default}) = 1

\* No two orders of a day have one number.
NumbersDiffer == \A o, p \in Orders : o # p /\ db[o].is # "None" /\ db[p].is # "None" => db[o].number # db[p].number

\* What refers to a partner on a campaign never loses the line it refers to: a partner with payments,
\* gifts or promised posts is not taken off, also by a form saved at the moment one is recorded.
LinesKeepTheirRecords == RecordsKept(db)

\* "two of them queue instead of deadlocking" (address.js:30): requests that write addresses of customers
\* never wait on each other in a cycle.
WritesAddress(t) == Do(t) \in {"address", "retire", "redirect"}
AddressesNeverDeadlock == ~\E S \in SUBSET {t \in Requests : WritesAddress(t)} : Cycle(S, Needs, Wants)

\* Two changes of a customer's addresses at once both end, and leave one default.
AddressesStayInOrder == OneDefault /\ AddressesNeverDeadlock

\* Nobody's order is placed for a customer who is blocked at that moment unless the person ticked that
\* they know.
BlockedNeedsAck ==
    [][\A o \in Orders :
        db[o].is \in {"None", "Draft"} /\ db'[o].is = "Pending" /\ db[db'[o].customer].flag = "Blocked" =>
            Sent(lock[o]).ack]_vars

\* A campaign that is over gives nothing: a gift for it is recorded, and leaves, only while it runs.
ClosedCampaignGivesNothing ==
    [][\A g \in Gifts :
        db'[g].line # NoLine /\ db'[g].is \in {"Draft", "Given"} /\ db'[g].is # db[g].is =>
            db[db[db'[g].line].campaign].is \in Running]_vars

\* What a handler refused for, a blocked customer or a closed campaign, it still would when it writes.
RefusalsStillHold == BlockedNeedsAck /\ ClosedCampaignGivesNothing
=============================================================================
