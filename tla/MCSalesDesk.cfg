SPECIFICATION Spec
CONSTANTS
    p1 = p1
    p2 = p2
    c1 = c1
    c2 = c2
    c3 = c3
    c4 = c4
    a1 = a1
    a2 = a2
    a3 = a3
    a4 = a4
    a5 = a5
    b1 = b1
    b2 = b2
    o1 = o1
    o2 = o2
    o3 = o3
    o4 = o4
    o5 = o5
    o6 = o6
    g1 = g1
    g2 = g2
    g3 = g3
    k1 = k1
    k2 = k2
    r1 = r1
    r2 = r2
    r3 = r3
    l1 = l1
    l2 = l2
    l3 = l3
    y1 = y1
    d1 = d1
    d2 = d2
    batch = batch
    desk = desk
    Phones = {p1, p2}
    Customers = {c1, c2, c3, c4}
    Addresses = {a1, a2, a3, a4, a5}
    Nobody = Nobody
    PreOrders = {b1, b2}
    NoOrder = NoOrder
    Campaigns_ = {k1, k2}
    Partners = {r1, r2, r3}
    Lines = {l1, l2, l3}
    Payments = {y1}
    Deliverables = {d1, d2}
    NoLine = NoLine
    Orders = {o1, o2, o3, o4, o5, o6}
    Gifts = {g1, g2, g3}
    TheBatch = batch
    InvoiceDesk = desk
    Rows <- MCRows
    Starts <- MCStarts
    Openings <- MCOpenings
    NoRequest = 0
    Requests <- MCRequests
INVARIANTS
    UnitsAccountedFor
    GiftFollowsItsOrder
    BookingKept
    AddressesStayInOrder
    NumbersDiffer
    LinesKeepTheirRecords
PROPERTIES
    RefusalsStillHold
