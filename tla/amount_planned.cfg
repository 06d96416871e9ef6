\* A payment for the planned amount, then one for another.
CONSTANTS
    Updates = {u1, u2}
    Changes <- ChangesOfAmounts
    GenerateIdempotencyKey = TRUE
    MerchantKey <- NoKey
    BasicAuth = FALSE
    Readings <- Bodies
    InitialAmount = "ten"
    MaxNotifiedVersion = 3
SPECIFICATION Spec
INVARIANT PaidAsPlanned
SYMMETRY Symmetry
CHECK_DEADLOCK FALSE
