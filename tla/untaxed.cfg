\* Several units of something that is not taxed.
CONSTANTS
    NoCart = NoCart
    NoValue = NoValue
    NaN = NaN
    Carts <- SomeCarts
    Requests <- SomeRequests
SPECIFICATION Spec
INVARIANTS UnitPriceIsBasePrice
CHECK_DEADLOCK FALSE
