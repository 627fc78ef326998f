SPECIFICATION Spec
CONSTANTS
    Orders <- MCOrders
    Batches <- MCBatches
    InitialStock <- MCStock
    Jobs <- MCJobs
    ProductOf <- MCProducts
    Openings <- MCOpenings
    Requests = {r1, r2}
    NoRequest = NoRequest
    MaxAttempts = 1
SYMMETRY Symmetry
INVARIANTS
    ApprovalsAndSalesNeverDeadlock
