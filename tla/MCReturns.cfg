SPECIFICATION Spec
CONSTANTS
    Lines <- MCLines
    Quantity <- MCQuantity
    UnitPrice <- MCPrice
    DeliveryCharge = 2
    MaxReturns = 4
    Advances <- MCAdvances
CHECK_DEADLOCK FALSE
INVARIANTS
    NoUnitReturnedTwice
    RefundsAreRight
    OrderTellsItsReturns
