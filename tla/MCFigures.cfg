SPECIFICATION Spec
CONSTANTS
    Sold <- MCSold
    Deal <- MCDeal
    Stock <- MCStock
    Goods <- MCGoods
    Papers <- MCPapers
    Plans <- MCPlans
    Ads <- MCAds
    Floor = 1
    ListRows <- MCListRows
    LastDay = 2
    MaxReturns = 2
INVARIANTS
    SalesReportsAgree
    UnitsAddUp
    StockPagesAgree
    EverySaleBalances
    OrdersAccountedFor
PROPERTIES
    ClosedDaysOnlyFall
CHECK_DEADLOCK FALSE
