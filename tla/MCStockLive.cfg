SPECIFICATION FairSpec
CONSTANTS
    Orders <- MCOrders
    Batches <- MCBatches
    InitialStock <- MCStock
    Jobs <- MCJobs
    ProductOf <- MCProducts
    Openings <- MCOpenings
    Requests = {r1, r2}
    NoRequest = NoRequest
    MaxAttempts = 2
PROPERTIES
    EveryRequestAnswered
    ImplementsLedger
