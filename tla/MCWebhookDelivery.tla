------------------------- MODULE MCWebhookDelivery -------------------------
(***************************************************************************)
(* Batches for model checking WebhookDelivery.                             *)
(***************************************************************************)
EXTENDS WebhookDelivery

CONSTANTS q1, q2

Standard ==
    [pending |-> FALSE, verifiable |-> TRUE, configured |-> TRUE,
     enableHmacSignature |-> TRUE, enableBasicAuth |-> TRUE]
Forged == [Standard EXCEPT !.verifiable = FALSE]
Unknown == [Standard EXCEPT !.configured = FALSE]
Pending == [Standard EXCEPT !.pending = TRUE]
WrongCredentials == [Pending EXCEPT !.verifiable = FALSE]
PendingIsOff == [Pending EXCEPT !.enableBasicAuth = FALSE]

Contents ==
    [long |-> <<Standard, Forged, Pending>>,
     mixed |-> <<Standard, WrongCredentials>>,
     unknown |-> <<PendingIsOff, Unknown, Standard>>]

Items == [b \in Batches |-> Contents[b]]
============================================================================
