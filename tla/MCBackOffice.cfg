SPECIFICATION Spec
CONSTANTS
    c1 = c1
    c2 = c2
    c3 = c3
    s1 = s1
    s2 = s2
    b1 = b1
    b2 = b2
    p = p
    q = q
    n = n
    w1 = w1
    w2 = w2
    w3 = w3
    a1 = a1
    a2 = a2
    v1 = v1
    v2 = v2
    o1 = o1
    o2 = o2
    o3 = o3
    d1 = d1
    d2 = d2
    d3 = d3
    j1 = j1
    j2 = j2
    j3 = j3
    fp = fp
    fq = fq
    fn = fn
    Categories = {c1, c2, c3}
    SubCategories = {s1, s2}
    Brands = {b1, b2}
    Products = {p, q, n}
    Warehouses = {w1, w2, w3}
    Aisles = {a1, a2}
    Suppliers = {v1, v2}
    PurchaseOrders = {o1, o2, o3}
    Disposals = {d1, d2, d3}
    Adjustments = {j1, j2, j3}
    Batches = {1, 2, 3}
    ProductOf <- MCProductOf
    Stats <- MCStats
    Rows <- MCRows
    Nothing = Nothing
    Starts <- MCStarts
    Openings <- MCOpenings
    NoRequest = 0
    Requests <- MCRequests
INVARIANTS
    CatalogueAgrees
    DocumentsAppliedOnce
    DeletedGetsNoStock
PROPERTIES
    ChecksStillStand
