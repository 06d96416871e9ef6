SPECIFICATION Spec
CONSTANTS
    NoValue = NoValue
    h1 = h1
    h2 = h2
    p1 = p1
    Handlers = {h1}
    Payments = {p1}
    Notifications <- LateFailureNotifications
    InitialPayments <- SessionPayments
    MakePaymentResults <- NoResults
    RemoveSensitiveData = FALSE
    MaxRetry = 2
    MaxUpdateRetry = 1
    MaxDeliveries = 3
    MaxOtherVersion = 2
SYMMETRY HandlerSymmetry
INVARIANTS ModificationFindsPayment
CHECK_DEADLOCK FALSE
