-------------------------- MODULE WebhookDelivery --------------------------
(***************************************************************************)
(* The HTTP side of the notification module: Adyen posts batches of        *)
(* notification items and repeats a batch until it is acknowledged with    *)
(* [accepted]; handleNotification works through the items of a request in  *)
(* order, and the error that ends the work decides the response.  The      *)
(* serverless entry points run the same loop with the same decisions.      *)
(*                                                                         *)
(* What processNotification does to payments is in NotificationHandler.    *)
(* Here an item that it returns from has been handled: it is stored on its *)
(* payment, or skipped because no payment was found.                       *)
(***************************************************************************)
EXTENDS Integers, Sequences

CONSTANTS
    Batches,   \* ids of the batches that Adyen has to deliver
    ItemsOf,   \* for each batch its items: a sequence of Item
    Requests   \* requests that can be served at the same time

VARIABLES
    requests,      \* state of each request
    acknowledged,  \* batches that Adyen has seen [accepted] for
    handled,       \* history: items <<b, i>> that have reached their payment
    failed         \* history: items <<b, i>> that no repetition would cure

vars == <<requests, acknowledged, handled, failed>>

----------------------------------------------------------------------------
(* Items *)

\* pending: a generic pending notification.  verifiable: its signature, or
\* for a pending one the credentials of its request, are the right ones.
\* configured: its merchant account and commercetools project are known; the
\* other two are the settings of that merchant account.
Item ==
    [pending: BOOLEAN, verifiable: BOOLEAN, configured: BOOLEAN,
     enableHmacSignature: BOOLEAN, enableBasicAuth: BOOLEAN]

ASSUME ItemsAssumption == ItemsOf \in [Batches -> Seq(Item)]

\* Logged and passed over.
IsDropped(item) ==
    /\ item.configured
    /\ \/ /\ item.pending
          /\ ~item.enableBasicAuth
       \/ /\ ~item.pending
          /\ item.enableHmacSignature
          /\ ~item.verifiable

IsUnauthorized(item) ==
    /\ item.configured
    /\ item.pending
    /\ item.enableBasicAuth
    /\ ~item.verifiable

IsProcessed(item) ==
    item.configured /\ ~IsDropped(item) /\ ~IsUnauthorized(item)

----------------------------------------------------------------------------
(* Responses *)

\* Mutant: a version conflict is not worth another delivery.
RecoverableWithoutConflict(status) == status = "5xx"

\* The status of the commercetools error that processNotification threw; a
\* NetworkError, whose status is 0, is a 5xx here.
IsRecoverable(status) == status \in {"409", "5xx"}

\* Mutant: the status is passed on.
ResponseWithStatus(status) == IF IsRecoverable(status) THEN status ELSE "accepted"

ResponseTo(status) == IF IsRecoverable(status) THEN "500" ELSE "accepted"

Request ==
    [pc: {"free"}]
        \cup [pc: {"working"}, batch: Batches, next: Nat \ {0}]
        \cup [pc: {"answered"}, batch: Batches,
              response: {"accepted", "401", "500"}]

----------------------------------------------------------------------------
(* handleNotification *)

\* The next item of the request that is being worked on.
HasItem(q) ==
    /\ requests[q].pc = "working"
    /\ requests[q].next <= Len(ItemsOf[requests[q].batch])

Position(q) == <<requests[q].batch, requests[q].next>>

CurrentItem(q) == ItemsOf[requests[q].batch][requests[q].next]

GoOn(q) == requests' = [requests EXCEPT ![q].next = @ + 1]

Answer(q, response) ==
    requests' = [requests EXCEPT ![q] =
        [pc |-> "answered", batch |-> @.batch, response |-> response]]

Deliver(q, b) ==
    /\ requests[q].pc = "free"
    /\ b \notin acknowledged
    /\ requests' = [requests EXCEPT ![q] =
            [pc |-> "working", batch |-> b, next |-> 1]]
    /\ UNCHANGED <<acknowledged, handled, failed>>

\* getCtpProjectConfig and getAdyenConfig throw errors without a status.
Misconfigured(q) ==
    /\ HasItem(q)
    /\ ~CurrentItem(q).configured
    /\ Answer(q, "accepted")
    /\ failed' = failed \cup {Position(q)}
    /\ UNCHANGED <<acknowledged, handled>>

\* Mutant: the error has no status that is told apart.
RejectAccepted(q) ==
    /\ HasItem(q)
    /\ IsUnauthorized(CurrentItem(q))
    /\ Answer(q, "accepted")
    /\ UNCHANGED <<acknowledged, handled, failed>>

\* UnauthorizedError
Reject(q) ==
    /\ HasItem(q)
    /\ IsUnauthorized(CurrentItem(q))
    /\ Answer(q, "401")
    /\ UNCHANGED <<acknowledged, handled, failed>>

\* Mutant: the batch is to be repeated.
DropAndRepeat(q) ==
    /\ HasItem(q)
    /\ IsDropped(CurrentItem(q))
    /\ Answer(q, "500")
    /\ UNCHANGED <<acknowledged, handled, failed>>

Drop(q) ==
    /\ HasItem(q)
    /\ IsDropped(CurrentItem(q))
    /\ GoOn(q)
    /\ UNCHANGED <<acknowledged, handled, failed>>

ProcessItem(q) ==
    /\ HasItem(q)
    /\ IsProcessed(CurrentItem(q))
    /\ GoOn(q)
    /\ handled' = handled \cup {Position(q)}
    /\ UNCHANGED <<acknowledged, failed>>

\* Mutant: the error is logged and the loop goes on.
ProcessItemFailsAndGoesOn(q) ==
    /\ HasItem(q)
    /\ IsProcessed(CurrentItem(q))
    /\ GoOn(q)
    /\ UNCHANGED <<acknowledged, handled, failed>>

\* processNotification throws.  One of its updates may have been stored all
\* the same, when only the answer was lost.
ProcessItemFails(q) ==
    /\ HasItem(q)
    /\ IsProcessed(CurrentItem(q))
    /\ \E status \in {"409", "4xx", "5xx"} :
          /\ Answer(q, ResponseTo(status))
          /\ failed' = IF status = "4xx" THEN failed \cup {Position(q)} ELSE failed
    /\ handled' \in {handled, handled \cup {Position(q)}}
    /\ UNCHANGED acknowledged

Finish(q) ==
    /\ requests[q].pc = "working"
    /\ ~HasItem(q)
    /\ Answer(q, "accepted")
    /\ UNCHANGED <<acknowledged, handled, failed>>

\* Adyen gets the response.
Return(q) ==
    /\ requests[q].pc = "answered"
    /\ acknowledged' = IF requests[q].response = "accepted"
                       THEN acknowledged \cup {requests[q].batch}
                       ELSE acknowledged
    /\ requests' = [requests EXCEPT ![q] = [pc |-> "free"]]
    /\ UNCHANGED <<handled, failed>>

\* The instance stops, or Adyen no longer waits for the response.  To lose
\* any other response than [accepted] is the same as to get it.
Break(q) ==
    /\ \/ requests[q].pc = "working"
       \/ requests[q].pc = "answered" /\ requests[q].response = "accepted"
    /\ requests' = [requests EXCEPT ![q] = [pc |-> "free"]]
    /\ UNCHANGED <<acknowledged, handled, failed>>

----------------------------------------------------------------------------
(* Specification *)

Init ==
    /\ requests = [q \in Requests |-> [pc |-> "free"]]
    /\ acknowledged = {}
    /\ handled = {}
    /\ failed = {}

Work(q) ==
    \/ Misconfigured(q)
    \/ Reject(q)
    \/ Drop(q)
    \/ ProcessItem(q)
    \/ ProcessItemFails(q)
    \/ Finish(q)

Next ==
    \/ \E q \in Requests, b \in Batches : Deliver(q, b)
    \/ \E q \in Requests : Work(q) \/ Return(q) \/ Break(q)

Spec == Init /\ [][Next]_vars

\* Adyen does not forget a batch, and a request that is served goes on.
FairSpec ==
    /\ Spec
    /\ \A b \in Batches : SF_vars(\E q \in Requests : Deliver(q, b))
    /\ \A q \in Requests : WF_vars(Work(q) \/ Return(q))

----------------------------------------------------------------------------
(* Properties *)

\* The type of every variable.
TypeOK ==
    /\ requests \in [Requests -> Request]
    /\ acknowledged \subseteq Batches
    /\ handled \subseteq Batches \X (Nat \ {0})
    /\ failed \subseteq Batches \X (Nat \ {0})

\* Item i of batch b needs no further delivery.
IsSettled(b, i) == <<b, i>> \in handled \/ IsDropped(ItemsOf[b][i])

SettledBefore(b, n) == \A i \in DOMAIN ItemsOf[b] : i < n => IsSettled(b, i)

\* Safety: what Adyen will not deliver again has been dealt with up to its end
\* or up to an item that no repetition would cure.  In particular a version
\* conflict, an outage or wrong credentials never get a batch acknowledged,
\* whichever of its concurrent deliveries is answered first
\* (isRecoverableError, isUnauthorizedError).
IsAcknowledgeable(b) ==
    \/ SettledBefore(b, Len(ItemsOf[b]) + 1)
    \/ \E i \in DOMAIN ItemsOf[b] : <<b, i>> \in failed /\ SettledBefore(b, i)

AcknowledgedIsSettled == \A b \in acknowledged : IsAcknowledgeable(b)

\* Safety: the items of a batch reach their payments in the order of the
\* batch, over any number of failed, repeated and parallel deliveries: an item
\* is not handled before all those in front of it (the loop awaits each item
\* and ends with the first error).
InOrder ==
    \A b \in Batches : \A i \in DOMAIN ItemsOf[b] :
        <<b, i>> \in handled => SettledBefore(b, i)

\* Liveness: once instances no longer stop and commercetools no longer fails,
\* every batch is acknowledged, unless Adyen uses wrong credentials: nothing
\* that cannot be processed is asked for again for ever.
Recovers == <>[][\A q \in Requests : ~Break(q) /\ ~ProcessItemFails(q)]_vars

IsAuthorized(b) == \A i \in DOMAIN ItemsOf[b] : ~IsUnauthorized(ItemsOf[b][i])

EventuallyAcknowledged ==
    Recovers =>
        \A b \in Batches : IsAuthorized(b) => <>(b \in acknowledged)

\* Refinement: the requests, their number, their failures and their order are
\* nothing to Adyen.  They implement the ordered delivery of each batch
\* (handleNotification).
DuePositions == [b \in Batches |-> {i \in DOMAIN ItemsOf[b] : ~IsDropped(ItemsOf[b][i])}]

Positions(b, items) == {i \in DOMAIN ItemsOf[b] : <<b, i>> \in items}

Delivery ==
    INSTANCE BatchDelivery WITH
        Due <- DuePositions,
        done <- [b \in Batches |-> Positions(b, handled)],
        givenUp <- {b \in Batches : Positions(b, failed) # {}}

DeliversInOrder == Delivery!Spec
============================================================================
