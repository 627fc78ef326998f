------------------------------ MODULE MCSalesDesk ------------------------------
(***************************************************************************)
(* An instance of SalesDesk for TLC: a customer with two addresses and two *)
(* phones, one of them nobody's; a booking; an order that waits, one that  *)
(* is confirmed with a gift in it, a draft and a parked cart; one unit of  *)
(* the batch that is free; a campaign with two partners, one of whom has   *)
(* a gift and a promised post on record.                                   *)
(***************************************************************************)
EXTENDS SalesDesk

CONSTANTS
    p1, p2,                 \* phones
    c1, c2, c3, c4,         \* customers, three to be created
    a1, a2, a3, a4, a5,     \* addresses, three to be added
    b1, b2,                 \* bookings
    o1, o2, o3, o4, o5, o6, \* orders: Pending, Confirmed, draft, two to be placed, parked cart
    g1, g2, g3,             \* gifts: in o2, to be created, for the campaign
    k1, k2,                 \* campaigns
    r1, r2, r3,             \* partners
    l1, l2, l3,             \* lines, the last to be added
    y1,                     \* a payment
    d1, d2,                 \* promised posts
    batch, desk

MCRows == {p1, p2, c1, c2, c3, c4, a1, a2, a3, a4, a5, b1, b2, o1, o2, o3, o4, o5, o6, g1, g2, g3,
           k1, k2, r1, r2, r3, l1, l2, l3, y1, d1, d2, batch, desk}

CustomerRow(is, phone) == [is |-> is, phone |-> phone, flag |-> "None", filled |-> FALSE, version |-> 0]
AddressRow(is, default, at) == [is |-> is, of |-> c1, default |-> default, label |-> 0, at |-> at, version |-> 0]
OrderRow(is, channel, number, held) ==
    [is |-> is, channel |-> channel, by |-> 1, customer |-> IF is \in {"Pending", "Confirmed"} THEN c1 ELSE Nobody, number |-> number,
     units |-> 1, total |-> 1, paid |-> 0, booking |-> NoOrder, held |-> held, version |-> 0]
BookingRow(is) ==
    [is |-> is, by |-> 1, customer |-> c1, units |-> 1, advance |-> 1, due |-> 0, refunded |-> 0, order |-> NoOrder, version |-> 0]
GiftRow(is, order, line, hold) == [is |-> is, by |-> 1, order |-> order, line |-> line, units |-> 1, hold |-> hold, version |-> 0]
LineRow(is, partner) == [is |-> is, campaign |-> k1, partner |-> partner, fee |-> 1, version |-> 0]
Named(is) == [is |-> is, label |-> 0, version |-> 0]

Start ==
    [r \in MCRows |->
        CASE r = p1 -> c1
          [] r = p2 -> Nobody
          [] r = c1 -> CustomerRow("Active", p1)
          [] r \in {c2, c3, c4} -> CustomerRow("None", p2)
          [] r = a1 -> AddressRow("Active", TRUE, 0)
          [] r = a2 -> AddressRow("Active", FALSE, 1)
          [] r \in {a3, a4, a5} -> AddressRow("None", FALSE, 0)
          [] r = b1 -> BookingRow("Pending")
          [] r = b2 -> BookingRow("None")
          [] r = o1 -> OrderRow("Pending", "ONLINE", 1, 1)
          [] r = o2 -> OrderRow("Confirmed", "ONLINE", 2, 1)
          [] r = o3 -> OrderRow("Draft", "ONLINE", 3, 0)
          [] r = o6 -> OrderRow("Draft", "POS", 4, 0)
          [] r \in {o4, o5} -> OrderRow("None", "ONLINE", 0, 0)
          [] r = g1 -> GiftRow("Held", o2, NoLine, "Active")
          [] r = g2 -> GiftRow("None", NoOrder, NoLine, "None")
          [] r = g3 -> GiftRow("Draft", NoOrder, l1, "None")
          [] r = k1 -> Named("Live") @@ [by |-> 1]
          [] r = k2 -> Named("None") @@ [by |-> 1]
          [] r \in {r1, r2} -> Named("Active")
          [] r = r3 -> Named("None")
          [] r = l1 -> LineRow("On", r1)
          [] r = l2 -> LineRow("On", r2)
          [] r = l3 -> LineRow("None", r1)
          [] r = y1 -> [is |-> "None", line |-> l2, amount |-> 0, version |-> 0]
          [] r \in {d1, d2} -> [is |-> IF r = d1 THEN "None" ELSE "Pending", line |-> IF r = d1 THEN l2 ELSE l1, version |-> 0]
          [] r = batch -> [onHand |-> 4, price |-> 1]
          [] OTHER -> 0]
MCOpenings == {Start}

Ask(do, r, to, by) == [do |-> do, row |-> r, to |-> to, by |-> by]
Click(do, r) == Ask(do, r, << >>, 1)

Known == [phone |-> p1, new |-> Nobody]
Newcomer(c) == [phone |-> p2, new |-> c]
AtSaved(a) == [saved |-> a, address |-> Nobody, default |-> FALSE]
AtNew(a, default) == [saved |-> Nobody, address |-> a, default |-> default]
Sale(units, pay, amount) == [units |-> units, total |-> units, pay |-> pay, amount |-> amount]
From(booking, ack) == [booking |-> booking, ack |-> ack]

Place(o, who, where, sale, from, by) == Ask("place", o, who @@ where @@ sale @@ from, by)
Edit(o, where, sale) == Ask("save", o, Known @@ where @@ sale @@ From(NoOrder, FALSE), 1)
Checkout(o, who, by) == Ask("checkout", o, who @@ Sale(1, "paid", 0), by)
Keep(o, channel, by) == Ask("draft", o, [channel |-> channel, units |-> 2], by)
Anyone == [phone |-> Nobody, new |-> Nobody]

Book(b, who, units, advance) == Ask("book", b, who @@ [units |-> units, advance |-> advance], 1)
Rebook(b, who, units, advance) == Ask("save", b, who @@ [units |-> units, advance |-> advance], 1)
GiveFor(order, line) == [order |-> order, line |-> line, units |-> 1]
Plan(do, c, partners, fee) == Ask(do, c, [label |-> 1, fees |-> [r \in partners |-> fee]], 1)
Prepaid == Sale(1, "PREPAID", 0)

MCGroups == <<
    \* addresses and phones
    <<Ask("address", c1, [address |-> a3, default |-> TRUE], 1), Ask("address", c1, [address |-> a4, default |-> FALSE], 1),
      Click("retire", a1), Click("retire", a1), Ask("redirect", a2, [label |-> 0, default |-> TRUE], 1), Click("retire", a2),
      Place(o4, Known, AtNew(a5, TRUE), Sale(1, "COD", 0), From(NoOrder, FALSE), 1)>>,
    <<Ask("save", c1, [phone |-> p2], 1), Ask("register", c2, Newcomer(c2) @@ [address |-> a3, default |-> FALSE], 1),
      Checkout(o5, Newcomer(c3), 1), Ask("flag", c1, "Blocked", 1),
      Place(o4, Known, AtSaved(a1), Sale(1, "COD", 0), From(NoOrder, FALSE), 1),
      Place(o4, Known, AtSaved(a2), Sale(1, "COD", 0), From(NoOrder, TRUE), 1), Click("retire", a1),
      Place(o4, Newcomer(c4), AtNew(a5, FALSE), Sale(1, "COD", 0), From(NoOrder, FALSE), 1)>>,
    \* the free unit
    <<Place(o4, Known, AtSaved(a1), Sale(1, "COD", 0), From(NoOrder, FALSE), 1), Checkout(o5, Anyone, 2),
      Edit(o1, AtSaved(a1), Sale(2, "ADVANCE", 1)), Ask("add", g2, GiveFor(o1, NoLine), 1), Ask("add", g2, GiveFor(o2, NoLine), 1),
      Click("give", g3), Click("cancel", o1), Ask("price", batch, 2, 1)>>,
    \* the parcel
    <<Click("dispatch", o2), Click("cancel", o2), Click("take out", g1), Ask("add", g2, GiveFor(o2, NoLine), 1),
      Ask("add", g2, GiveFor(o2, NoLine), 1), Click("take back", o2),
      Click("deliver", o2), Click("confirm", o1), Edit(o1, AtSaved(a1), Sale(1, "COD", 0))>>,
    \* bookings
    <<Place(o4, Known, AtSaved(a1), Prepaid, From(b1, FALSE), 1), Place(o5, Known, AtSaved(a2), Sale(2, "ADVANCE", 1), From(b1, FALSE), 2),
      Rebook(b1, Known, 1, 0), Rebook(b1, Known, 2, 1), Click("accept", b1), Ask("call off", b1, 1, 1), Click("pay back", b1),
      Book(b2, Known, 1, 0), Book(b2, Known, 1, 0), Book(b2, Newcomer(c2), 1, 2)>>,
    \* the booking's order, edited
    <<Place(o4, Known, AtSaved(a1), Prepaid, From(b1, FALSE), 1), Edit(o4, AtSaved(a2), Sale(1, "COD", 0)),
      Edit(o4, AtSaved(a2), Sale(2, "ADVANCE", 1)), Click("cancel", o4)>>,
    \* drafts and parked carts
    <<Keep(o3, "ONLINE", 1), Ask("discard", o3, "ONLINE", 1), Place(o3, Known, AtSaved(a1), Sale(1, "COD", 0), From(NoOrder, FALSE), 2),
      Keep(o6, "POS", 1), Ask("discard", o6, "POS", 1), Ask("discard", o6, "POS", 2), Checkout(o6, Anyone, 1), Checkout(o6, Anyone, 2), Keep(o4, "POS", 1),
      Checkout(o4, Anyone, 2)>>,
    \* the campaign
    <<Plan("save", k1, {r1}, 2), Plan("save", k1, {r2}, 1), Ask("pay partner", y1, [line |-> l2, amount |-> 1], 1),
      Ask("promise", d1, l2, 1), Ask("draft gift", g2, GiveFor(NoOrder, l2), 1), Click("complete", k1), Click("cancel", k1), Click("give", g3)>>,
    <<Ask("pay partner", y1, [line |-> l2, amount |-> 1], 1), Ask("pay partner", y1, [line |-> l2, amount |-> 2], 1),
      Ask("promise", d1, l2, 1), Ask("promise", d1, l2, 1), Click("remove", d2), Ask("save", d2, [is |-> "Posted"], 1), Click("cancel", k1)>>,
    <<Plan("plan", k2, {r1}, 1), Plan("plan", k2, {r1}, 1), Ask("save", r1, [is |-> "Inactive"], 1), Click("start", k2),
      Ask("enlist", r3, Named("Active"), 1), Ask("draft gift", g2, GiveFor(NoOrder, NoLine), 1),
      Ask("draft gift", g2, GiveFor(NoOrder, l1), 2), Click("cancel gift", g3), Click("give", g3), Click("take out", g3)>> >>

\* Three requests of a group; which of them asks for what does not matter.
MCRequests == 1..3
MCStarts ==
    UNION {{[t \in MCRequests |-> group[f[t]]] : f \in {g \in [MCRequests -> DOMAIN group] : g[1] < g[2] /\ g[2] < g[3]}} :
        group \in {MCGroups[i] : i \in DOMAIN MCGroups}}
=============================================================================
