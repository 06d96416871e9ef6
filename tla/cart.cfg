\* Carts of three lines, some of which cost nothing or take something off, and
\* lines with tax of one to five units.
CONSTANTS
    NoCart = NoCart
    NoValue = NoValue
    NaN = NaN
    Carts <- SomeCarts
    Requests <- SomeRequests
SPECIFICATION Spec
INVARIANTS TypeOK DiscountIsSpread  TaxLinesAddUp
CHECK_DEADLOCK FALSE
