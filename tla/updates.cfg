\* A payment in three updates.
CONSTANTS
    Updates = {u1, u2, u3}
    Changes <- ChangesOfPayment
    GenerateIdempotencyKey = TRUE
    MerchantKey <- NoKey
    BasicAuth = FALSE
    Readings <- Bodies
    InitialAmount = "ten"
    MaxNotifiedVersion = 4
SPECIFICATION Spec
INVARIANTS TypeOK ReferenceIsOfTransaction ModifiedAfterAuthorisation ModificationExecutedOnce
INVARIANTS OneTransactionPerDetails KeyedRetryIsSafe
PROPERTY TransactionsOnlyAdvance
SYMMETRY Symmetry
CHECK_DEADLOCK FALSE
