SPECIFICATION Spec
CONSTANTS
    Orders <- MCOrders
    DeliveryBatches <- MCBatches
    MaxReturns <- MCReturns
    Stock <- MCStock
    StockOf <- MCStockOf
    Rows <- MCRows
    Jobs <- MCJobs
    Openings <- MCOpenings
    Requests = {r1, r2, r3}
    NoRequest = NoRequest
SYMMETRY Symmetry
INVARIANTS
    ParcelsAreWhereBatchesSay
    RecordsMeetOnStock
PROPERTIES
    ImplementsParcels
