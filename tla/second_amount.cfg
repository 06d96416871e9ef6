\* An amount that is updated twice.
CONSTANTS
    Updates = {u1, u2, u3}
    Changes <- ChangesOfAmount
    GenerateIdempotencyKey = TRUE
    MerchantKey <- NoKey
    BasicAuth = FALSE
    Readings <- Bodies
    InitialAmount = "ten"
    MaxNotifiedVersion = 3
SPECIFICATION Spec
INVARIANT AnswerIsToRequest
SYMMETRY Symmetry
CHECK_DEADLOCK FALSE
