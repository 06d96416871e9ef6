SPECIFICATION Spec
CONSTANTS
    NoValue = NoValue
    h1 = h1
    h2 = h2
    p1 = p1
    Handlers = {h1}
    Payments = {p1}
    Notifications <- SessionNotifications
    InitialPayments <- SessionPayments
    MakePaymentResults <- NoResults
    RemoveSensitiveData = TRUE
    MaxRetry = 2
    MaxUpdateRetry = 1
    MaxDeliveries = 2
    MaxOtherVersion = 2
SYMMETRY HandlerSymmetry
INVARIANTS InteractionsAreDistinct
CHECK_DEADLOCK FALSE
