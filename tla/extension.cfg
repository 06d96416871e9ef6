\* Liveness is not sound under symmetry: the invocations are told apart.
SPECIFICATION FairSpec
CONSTANTS
    NoValue = NoValue
    h1 = h1
    h2 = h2
    p1 = p1
    Handlers = {h1, h2}
    Payments = {p1}
    Notifications <- ExtensionNotifications
    InitialPayments <- ExtensionPayments
    MakePaymentResults <- Results
    RemoveSensitiveData = FALSE
    MaxRetry = 2
    MaxUpdateRetry = 1
    MaxDeliveries = 2
    MaxOtherVersion = 1
INVARIANTS TypeOK OneTransactionPerReference
PROPERTIES WaitsForResponse UpdateCallsAreBounded UpdatesAreAtomic EveryInvocationEnds
CHECK_DEADLOCK FALSE
