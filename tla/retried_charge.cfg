\* A charge whose update is rejected and sent again.
CONSTANTS
    Updates = {u1, u2, u3}
    Changes <- ChangesOfCharge
    GenerateIdempotencyKey = TRUE
    MerchantKey <- NoKey
    BasicAuth = FALSE
    Readings <- Bodies
    InitialAmount = "ten"
    MaxNotifiedVersion = 3
SPECIFICATION Spec
INVARIANT RetryIsSafe
SYMMETRY Symmetry
CHECK_DEADLOCK FALSE
