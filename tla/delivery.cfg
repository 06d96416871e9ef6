SPECIFICATION FairSpec
CONSTANTS
    q1 = q1
    q2 = q2
    Requests = {q1, q2}
    Batches = {"long", "mixed", "unknown"}
    ItemsOf <- Items
INVARIANTS TypeOK AcknowledgedIsSettled InOrder
PROPERTIES EventuallyAcknowledged DeliversInOrder
CHECK_DEADLOCK FALSE
