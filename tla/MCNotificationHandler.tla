----------------------- MODULE MCNotificationHandler -----------------------
(***************************************************************************)
(* Notifications and payments for model checking NotificationHandler.      *)
(***************************************************************************)
EXTENDS NotificationHandler, TLC

CONSTANTS h1, h2, p1

HandlerSymmetry == Permutations(Handlers)

Item(text, code, success, psp, original) ==
    [text |-> text, eventCode |-> code, success |-> success,
     pspReference |-> psp, originalReference |-> original,
     merchantReference |-> IF original = NoValue THEN "ref1" ELSE text,
     modificationAction |-> NoValue, additionalData |-> "other",
     paymentMethod |-> NoValue, paymentMethodVariant |-> NoValue]

AuthFailed == Item("a0", "AUTHORISATION", "false", "psp1", NoValue)
AuthSucceeded == Item("a1", "AUTHORISATION", "true", "psp1", NoValue)
SecondAuthSucceeded == Item("a2", "AUTHORISATION", "true", "psp2", NoValue)
Captured == Item("c1", "CAPTURE", "true", "psp6", "psp5")
CaptureFailed == Item("c2", "CAPTURE_FAILED", "true", "psp6", "psp5")
Refunded == Item("r2", "REFUND", "true", "psp3", "psp2")
ReversedFor(action) ==
    [Item("v1", "CANCEL_OR_REFUND", "true", "psp4", "psp1")
        EXCEPT !.modificationAction = action, !.paymentMethod = "scheme"]

New == [version |-> 0, key |-> "ref1", merchantReference |-> NoValue,
        hasResponse |-> FALSE, method |-> NoValue,
        paymentMethodVariant |-> NoValue, transactions |-> <<>>,
        interactions |-> <<>>]

\* The payment exists and the merchant's update has called /payments.
Waiting == [New EXCEPT !.version = 1]
\* A session was created: the payment has a response and no transaction.
InSession == [New EXCEPT !.version = 1, !.hasResponse = TRUE,
                         !.merchantReference = "ref1"]
\* Another payment: authorised, a second capture requested and pending at Adyen
Authorised == [InSession EXCEPT
    !.key = "psp5",
    !.merchantReference = "ref2",
    !.transactions =
      <<[type |-> "Authorization", state |-> "Success", interactionId |-> "psp5"],
        [type |-> "Charge", state |-> "Initial", interactionId |-> NoValue],
        [type |-> "Charge", state |-> "Pending", interactionId |-> "psp6"]>>]

Only(payment) == [p \in Payments |-> payment]

AuthorisedNow == [resultCode |-> "Authorised", successful |-> TRUE,
    pspReference |-> "psp1", reference |-> "ref1", method |-> "scheme"]
Rejected == [resultCode |-> "other", successful |-> FALSE,
    pspReference |-> "psp9", reference |-> "ref1", method |-> NoValue]

NoResults == [p \in Payments |-> {}]
Results == [p \in Payments |-> {AuthorisedNow, Rejected}]

\* Two answers to the attempt to authorise in a session
SessionNotifications == {AuthFailed, AuthSucceeded}
SessionPayments == {Only(InSession)}

\* Either those, or a capture and its failure, under references of the merchant's
RaceNotifications == SessionNotifications \cup {Captured, CaptureFailed}
RacePayments == SessionPayments \cup {Only(Authorised)}

\* A webhook that is quicker than the extension
ExtensionNotifications == {AuthSucceeded, ReversedFor("refund")}
ExtensionPayments == {Only(New), Only(Waiting)}

\* A failed and a successful attempt of one session, and a refund
LateFailureNotifications == {AuthFailed, SecondAuthSucceeded, Refunded}
============================================================================
