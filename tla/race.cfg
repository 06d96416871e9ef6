SPECIFICATION Spec
CONSTANTS
    NoValue = NoValue
    h1 = h1
    h2 = h2
    p1 = p1
    Handlers = {h1, h2}
    Payments = {p1}
    Notifications <- RaceNotifications
    InitialPayments <- RacePayments
    MakePaymentResults <- NoResults
    RemoveSensitiveData = FALSE
    MaxRetry = 1
    MaxUpdateRetry = 1
    MaxDeliveries = 3
    MaxOtherVersion = 2
SYMMETRY HandlerSymmetry
INVARIANTS OneTransactionPerReference ReportedIsReflected InteractionsAreDistinct
INVARIANTS StatesAreAnnounced ModificationFindsPayment
PROPERTIES UpdatesAreAtomic TransactionsMoveForward
CHECK_DEADLOCK FALSE
