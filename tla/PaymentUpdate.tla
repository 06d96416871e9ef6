--------------------------- MODULE PaymentUpdate ---------------------------
(***************************************************************************)
(* What one Adyen notification does to one commercetools payment: the      *)
(* event table of resources/adyen-events.json, the calculation of the      *)
(* update actions in notification.handler.js, and what commercetools makes *)
(* of them.                                                                *)
(*                                                                         *)
(* The list of update actions has at most one action of each kind.  It is  *)
(* a record with one field per kind, NoValue when the list has no such     *)
(* action.  Amounts, timestamps (changeTransactionTimestamp goes with      *)
(* changeTransactionState) and texts shown to people are left out.         *)
(***************************************************************************)
EXTENDS Integers, Sequences

CONSTANTS
    NoValue,              \* null or undefined
    RemoveSensitiveData   \* removeSensitiveData of the module configuration

ASSUME RemoveSensitiveDataAssumption == RemoveSensitiveData \in BOOLEAN

----------------------------------------------------------------------------
(* Adyen event codes and the transaction they stand for *)

Rows(codes, outcomes, type, state) ==
    [eventCode: codes, success: outcomes,
     transactionType: {type}, transactionState: {state}]

Both == {"true", "false"}

\* The rows of adyen-events.json whose type or state is not null.  A code or
\* an outcome without a row gives null for both, as the null rows do.
AdyenEvents ==
    UNION {
      Rows({"AUTHORISATION"}, {"true"}, "Authorization", "Success"),
      Rows({"AUTHORISATION"}, {"false"}, "Authorization", "Failure"),
      Rows({"AUTHORISATION_ADJUSTMENT"}, Both, "Authorization", "Pending"),
      Rows({"CANCELLATION"}, {"true"}, "CancelAuthorization", "Success"),
      Rows({"CANCELLATION"}, {"false"}, "CancelAuthorization", "Failure"),
      Rows({"CANCEL_OR_REFUND"}, {"true"}, NoValue, "Success"),
      Rows({"CANCEL_OR_REFUND"}, {"false"}, NoValue, "Failure"),
      Rows({"CAPTURE"}, {"true"}, "Charge", "Success"),
      Rows({"CAPTURE"}, {"false"}, "Charge", "Failure"),
      Rows({"CAPTURE_FAILED"}, {"true"}, "Charge", "Failure"),
      Rows({"REFUND"}, {"true"}, "Refund", "Success"),
      Rows({"REFUND"}, {"false"}, "Refund", "Failure"),
      Rows({"REFUND_FAILED", "REFUNDED_REVERSED"}, {"true"},
           "Refund", "Failure"),
      Rows({"CHARGEBACK", "SECOND_CHARGEBACK"}, {"true"},
           "Chargeback", "Success"),
      Rows({"SECOND_CHARGEBACK"}, {"false"}, "Chargeback", "Failure"),
      Rows({"PREARBITRATION_WON", "PREARBITRATION_LOST"}, Both,
           "Chargeback", "Pending"),
      Rows({"NOTIFICATION_OF_CHARGEBACK", "REQUEST_FOR_INFORMATION"}, {"true"},
           "Chargeback", "Pending") }

TransactionTypes ==
    {"Authorization", "CancelAuthorization", "Charge", "Refund", "Chargeback"}

\* The type that CANCEL_OR_REFUND takes from additionalData.
ModificationType(action) ==
    IF action = "refund" THEN "Refund"
    ELSE IF action = "cancel" THEN "CancelAuthorization"
    ELSE NoValue

\* Lookup of the event of a notification: its row of the table, with the
\* modification action deciding the type of CANCEL_OR_REFUND.
TransactionState(n) ==
    LET rows == {e \in AdyenEvents :
                    e.eventCode = n.eventCode /\ e.success = n.success}
    IN  IF rows = {} THEN NoValue ELSE (CHOOSE e \in rows : TRUE).transactionState

TransactionType(n) ==
    LET rows == {e \in AdyenEvents :
                    e.eventCode = n.eventCode /\ e.success = n.success}
    IN  IF rows = {} THEN NoValue
        ELSE IF n.eventCode = "CANCEL_OR_REFUND"
             THEN ModificationType(n.modificationAction)
             ELSE (CHOOSE e \in rows : TRUE).transactionType

----------------------------------------------------------------------------
(* Order of transaction states *)

TransactionStateFlow ==
    [Initial |-> 0, Pending |-> 1, Success |-> 2, Failure |-> 3]

TransactionStates == DOMAIN TransactionStateFlow

CompareTransactionStates(currentState, newState) ==
    TransactionStateFlow[newState] - TransactionStateFlow[currentState]

IsAuthorisationRecoveredFromFailure(n, transaction, newState) ==
    /\ n.eventCode = "AUTHORISATION"
    /\ transaction.type = "Authorization"
    /\ transaction.state = "Failure"
    /\ newState = "Success"

----------------------------------------------------------------------------
(* Types *)

Notification ==
    [text: STRING, eventCode: STRING, success: Both,
     pspReference: STRING, originalReference: STRING \cup {NoValue},
     merchantReference: STRING, modificationAction: {"refund", "cancel", NoValue},
     additionalData: {"none", "other", "recurring"},
     paymentMethod: STRING \cup {NoValue},
     paymentMethodVariant: STRING \cup {NoValue}]

Text == STRING \X {"raw", "rewritten"}

Transaction ==
    [type: TransactionTypes, state: TransactionStates,
     interactionId: STRING \cup {NoValue}]

Payment ==
    [version: Nat, key: STRING \cup {NoValue},
     merchantReference: STRING \cup {NoValue}, hasResponse: BOOLEAN,
     method: STRING \cup {NoValue}, paymentMethodVariant: STRING \cup {NoValue},
     transactions: Seq(Transaction),
     interactions: Seq(Text)]

\* null is none of the values that it stands in for.
ASSUME NoValueAssumption ==
    /\ NoValue \notin Text
    /\ NoValue \notin Transaction
    /\ NoValue \notin [transaction: Nat, state: TransactionStates]

----------------------------------------------------------------------------
(* calculateUpdateActionsForPayment *)

\* JSON.stringify of the delivered item, which the code looks for.
RawText(n) == <<n.text, "raw">>

\* The text the code stores: recurring fields are copied out of
\* additionalData, and additionalData and reason are deleted when configured
\* so.  n.additionalData is "none" when the item has neither of the two.
StoredText(n) ==
    IF \/ n.additionalData = "recurring"
       \/ n.additionalData = "other" /\ RemoveSensitiveData
    THEN <<n.text, "rewritten">>
    ELSE RawText(n)

IsStored(payment, n) ==
    \E i \in DOMAIN payment.interactions : payment.interactions[i] = RawText(n)

\* Mutant: a transaction that has no reference yet matches as well.
MatchingOrUnassigned(transactions, reference) ==
    {i \in DOMAIN transactions :
        transactions[i].interactionId \in {reference, NoValue}}

Matching(transactions, reference) ==
    {i \in DOMAIN transactions : transactions[i].interactionId = reference}

\* _.find returns the first match.
First(indices) == CHOOSE i \in indices : \A j \in indices : i <= j

OldTransaction(payment, n) ==
    First(Matching(payment.transactions, n.pspReference))

IsNewTransaction(payment, n) ==
    /\ TransactionType(n) # NoValue
    /\ Matching(payment.transactions, n.pspReference) = {}

\* Mutant: any other state supersedes the old one.
SupersedesIfDifferent(n, transaction) ==
    CompareTransactionStates(transaction.state, TransactionState(n)) # 0

Supersedes(n, transaction) ==
    \/ CompareTransactionStates(transaction.state, TransactionState(n)) > 0
    \/ IsAuthorisationRecoveredFromFailure(n, transaction, TransactionState(n))

IsNewState(payment, n) ==
    /\ TransactionType(n) # NoValue
    /\ Matching(payment.transactions, n.pspReference) # {}
    /\ Supersedes(n, payment.transactions[OldTransaction(payment, n)])

\* Mutant: the reference of the modification itself.
OwnReference(n) == n.pspReference

\* originalReference || pspReference
PaymentReference(n) ==
    IF n.originalReference # NoValue THEN n.originalReference ELSE n.pspReference

\* The code tests `success`, a string in Adyen's JSON: "false" is as true as
\* "true".
Truthy(string) == string # ""

IsNewKey(payment, n) ==
    /\ TransactionType(n) # NoValue
    /\ Truthy(n.success)
    /\ PaymentReference(n) # payment.key

UpdateActions(payment, n) ==
    [addInterfaceInteraction |->
        IF IsStored(payment, n) THEN NoValue ELSE StoredText(n),
     addTransaction |->
        IF IsNewTransaction(payment, n)
        THEN [type |-> TransactionType(n), state |-> TransactionState(n),
              interactionId |-> n.pspReference]
        ELSE NoValue,
     changeTransactionState |->
        IF IsNewState(payment, n)
        THEN [transaction |-> OldTransaction(payment, n),
              state |-> TransactionState(n)]
        ELSE NoValue,
     setKey |->
        IF IsNewKey(payment, n) THEN PaymentReference(n) ELSE NoValue,
     setMethodInfoMethod |->
        IF n.paymentMethod # payment.method THEN n.paymentMethod ELSE NoValue,
     setPaymentMethodVariant |->
        IF /\ n.eventCode = "AUTHORISATION"
           /\ n.paymentMethodVariant # payment.paymentMethodVariant
        THEN n.paymentMethodVariant ELSE NoValue]

IsEmpty(actions) == actions = [kind \in DOMAIN actions |-> NoValue]

----------------------------------------------------------------------------
(* commercetools applying the actions of one update *)

InState(transaction, state) ==
    [type |-> transaction.type, state |-> state,
     interactionId |-> transaction.interactionId]

ApplyToTransactions(transactions, actions) ==
    LET add == actions.addTransaction
        change == actions.changeTransactionState
    IN  IF add # NoValue THEN Append(transactions, add)
        ELSE IF change # NoValue
        THEN [transactions EXCEPT ![change.transaction] = InState(@, change.state)]
        ELSE transactions

Apply(payment, actions) ==
    LET setTo(action, old) == IF action = NoValue THEN old ELSE action
    IN  [version |-> payment.version,
         key |-> setTo(actions.setKey, payment.key),
         merchantReference |-> payment.merchantReference,
         hasResponse |-> payment.hasResponse,
         method |-> setTo(actions.setMethodInfoMethod, payment.method),
         paymentMethodVariant |-> setTo(actions.setPaymentMethodVariant,
                                        payment.paymentMethodVariant),
         transactions |-> ApplyToTransactions(payment.transactions, actions),
         interactions |-> IF actions.addInterfaceInteraction = NoValue
                          THEN payment.interactions
                          ELSE Append(payment.interactions,
                                      actions.addInterfaceInteraction)]

\* The payment after one notification has been processed on it.
Updated(payment, n) == Apply(payment, UpdateActions(payment, n))

----------------------------------------------------------------------------
(* What the properties say of a payment *)

References(transactions) ==
    {transactions[i].interactionId : i \in DOMAIN transactions} \ {NoValue}

DistinctReferencesBut(transactions, k) ==
    \A i, j \in DOMAIN transactions \ {k} :
        /\ transactions[i].interactionId = transactions[j].interactionId
        /\ transactions[i].interactionId # NoValue
        => i = j

DistinctReferences(transactions) == DistinctReferencesBut(transactions, 0)

\* What a payment shows of a notification that was processed: its text, and
\* a transaction for its pspReference whose state is the announced one or one
\* that may follow it.
Reflects(payment, n) ==
    /\ \E i \in DOMAIN payment.interactions :
            payment.interactions[i] \in {RawText(n), StoredText(n)}
    /\ TransactionType(n) # NoValue =>
            \E i \in Matching(payment.transactions, n.pspReference) :
                LET t == payment.transactions[i]
                IN  \/ CompareTransactionStates(TransactionState(n), t.state) >= 0
                    \/ t.type = "Authorization" /\ t.state = "Success"

\* What updates may do to the transactions of a payment: they are never
\* removed nor change their reference or type, and their state moves forward;
\* the one exception is a failed Authorization that turns out successful.
MovesForward(old, new) ==
    /\ Len(old) <= Len(new)
    /\ \A i \in DOMAIN old :
          /\ new[i].type = old[i].type
          /\ new[i].interactionId = old[i].interactionId
          /\ \/ CompareTransactionStates(old[i].state, new[i].state) >= 0
             \/ /\ old[i].type = "Authorization"
                /\ old[i].state = "Failure"
                /\ new[i].state = "Success"
============================================================================
