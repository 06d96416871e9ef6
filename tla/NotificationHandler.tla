------------------------ MODULE NotificationHandler ------------------------
(***************************************************************************)
(* processNotification of the notification module: concurrent invocations  *)
(* look up the commercetools payment a notification is about, wait for the *)
(* extension module to have stored Adyen's response on it, and update it   *)
(* under commercetools' optimistic version check.                          *)
(*                                                                         *)
(* The modules are stateless and share nothing but the payments, so a      *)
(* handler here is one invocation in one of any number of instances.  Each *)
(* call to commercetools is one step.  sleep(1000) between two lookups is  *)
(* the time that may pass before the next FetchByKeys.                     *)
(***************************************************************************)
EXTENDS PaymentUpdate, FiniteSets

CONSTANTS
    Handlers,         \* invocations of processNotification
    Payments,         \* ids of payments
    Notifications,    \* the items Adyen delivers: records, see Notification
    InitialPayments,  \* possible initial values of payments
    MakePaymentResults, \* for each payment what Adyen may answer to /payments
    MaxRetry,         \* maxRetry of processNotification: 7 in the code
    MaxUpdateRetry,   \* maxRetry of updatePaymentWithRepeater: 20 in the code
    MaxDeliveries,    \* bound: deliveries of notifications in all, repeated ones too
    MaxOtherVersion   \* bound: other clients write below this version only

VARIABLES
    payments,    \* commercetools: the stored payments
    extension,   \* for each payment, the /payments call in flight for it; history:
                 \* whether it is a repeated one, where it added its transaction
    handlers,    \* state of each invocation
    deliveries,  \* number of times Adyen has delivered each notification
    reported     \* history: <<n, p>>, a handler reported n as done on p

vars == <<payments, extension, handlers, deliveries, reported>>

----------------------------------------------------------------------------
(* Types *)

MakePaymentResult ==
    [resultCode: {"Authorised", "Refused", "Error", "other"},
     successful: BOOLEAN, pspReference: STRING \cup {NoValue},
     reference: STRING \cup {NoValue}, method: STRING \cup {NoValue}]

\* HTTP status of what was thrown, as far as error-utils.js tells them apart.
Statuses == {"404", "409", "4xx", "5xx"}

Handler ==
    [pc: {"idle", "fetchByKeys", "fetchByCustomField", "update", "refetch",
          "returned", "threw"},
     item: Notifications \cup {NoValue},
     payment: Payments \cup {NoValue},
     fetched: Payment \cup {NoValue},
     current: Payment \cup {NoValue},
     retryCount: 0 .. MaxRetry,
     updateRetryCount: 0 .. MaxUpdateRetry,
     final: BOOLEAN,
     status: Statuses \cup {NoValue}]

IdleHandler ==
    [pc |-> "idle", item |-> NoValue, payment |-> NoValue, fetched |-> NoValue,
     current |-> NoValue, retryCount |-> 0, updateRetryCount |-> 0,
     final |-> FALSE, status |-> NoValue]

ExtensionCall ==
    [pc: {"calling", "done", "failed"}, version: Nat, repeated: BOOLEAN, added: Nat]

ASSUME BoundsAssumption ==
    /\ MaxRetry \in Nat \ {0}
    /\ MaxUpdateRetry \in Nat
    /\ MaxDeliveries \in Nat
    /\ MaxOtherVersion \in Nat

ASSUME DataAssumption ==
    /\ Notifications \subseteq Notification
    /\ InitialPayments \subseteq [Payments -> Payment]
    /\ MakePaymentResults \in [Payments -> SUBSET MakePaymentResult]

ASSUME PaymentsAssumption == NoValue \notin Payments

ASSUME InitialAssumption ==
    \A initial \in InitialPayments, p \in Payments :
        DistinctReferences(initial[p].transactions)

----------------------------------------------------------------------------
(* commercetools *)

\* A payment that the extension is still creating cannot be read.
Exists(p) == payments[p].version > 0

\* Keys are unique among the payments of a project.
KeyIsFree(p, key) ==
    key = NoValue \/ \A q \in Payments \ {p} : ~Exists(q) \/ payments[q].key # key

\* An update of payment p: the new content under the next version.
Write(p, content) ==
    payments' = [payments EXCEPT ![p] = [content EXCEPT !.version = @ + 1]]

----------------------------------------------------------------------------
(* The extension module storing the response of /payments *)

\* setKey of getPaymentKeyUpdateAction
KeyAfterMakePayment(payment, r) ==
    IF r.successful /\ r.pspReference # NoValue
    THEN r.pspReference ELSE payment.key

\* createAddTransactionActionByResponse
MakePaymentTransaction(r) ==
    [type |-> "Authorization",
     state |-> IF r.resultCode = "Authorised" THEN "Success" ELSE "Failure",
     interactionId |-> r.pspReference]

TransactionsAfterMakePayment(payment, r) ==
    IF r.resultCode = "other" THEN payment.transactions
    ELSE Append(payment.transactions, MakePaymentTransaction(r))

\* Where the transaction of the answer is added, 0 if none is.
AddedAt(payment, r) ==
    IF r.resultCode = "other" THEN 0 ELSE Len(payment.transactions) + 1

AfterMakePayment(payment, r) ==
    [payment EXCEPT
        !.hasResponse = TRUE,
        !.method = IF r.method # NoValue THEN r.method ELSE @,
        !.key = KeyAfterMakePayment(payment, r),
        !.merchantReference = IF r.reference # NoValue THEN r.reference ELSE @,
        !.transactions = TransactionsAfterMakePayment(payment, r)]

\* Mutant: the response is stored whatever has happened to the payment.
ExtensionCommitsAnyVersion(p) ==
    /\ extension[p].pc = "calling"
    /\ \E r \in MakePaymentResults[p] :
          /\ KeyIsFree(p, KeyAfterMakePayment(payments[p], r))
          /\ Write(p, AfterMakePayment(payments[p], r))
          /\ extension' = [extension EXCEPT ![p].pc = "done",
                                            ![p].added = AddedAt(payments[p], r)]
    /\ UNCHANGED <<handlers, deliveries, reported>>

\* The actions the extension returns are stored with the merchant's own
\* request, which fails when the payment has a newer version by then.
ExtensionCommits(p) ==
    /\ extension[p].pc = "calling"
    /\ payments[p].version = extension[p].version
    /\ \E r \in MakePaymentResults[p] :
          /\ KeyIsFree(p, KeyAfterMakePayment(payments[p], r))
          /\ Write(p, AfterMakePayment(payments[p], r))
          /\ extension' = [extension EXCEPT ![p].pc = "done",
                                            ![p].added = AddedAt(payments[p], r)]
    /\ UNCHANGED <<handlers, deliveries, reported>>

\* The version conflict above, or the time limit of an API extension.
ExtensionFails(p) ==
    /\ extension[p].pc = "calling"
    /\ extension' = [extension EXCEPT ![p].pc = "failed"]
    /\ UNCHANGED <<payments, handlers, deliveries, reported>>

\* The merchant sends the update again, for the payment as it is by now.  The
\* idempotency key is the payment's, so Adyen answers as it did before, with a
\* reference that notifications may have brought in the meantime; its transaction
\* is added all the same.
ExtensionRepeats(p) ==
    /\ extension[p].pc = "failed"
    /\ extension' = [extension EXCEPT ![p].pc = "calling",
                                      ![p].version = payments[p].version,
                                      ![p].repeated = TRUE]
    /\ UNCHANGED <<payments, handlers, deliveries, reported>>

\* Any other client of the project changes something else of the payment.
OtherWrite(p) ==
    /\ Exists(p)
    /\ payments[p].version < MaxOtherVersion
    /\ Write(p, payments[p])
    /\ UNCHANGED <<extension, handlers, deliveries, reported>>

----------------------------------------------------------------------------
(* processNotification *)

RetriedEvents == {"AUTHORISATION", "CAPTURE"}

\* Mutant: the retry limit is off by one.
CaughtOnceMore(hr) ==
    LET count == hr.retryCount + 1
    IN  IF count <= MaxRetry /\ hr.item.eventCode \in RetriedEvents
        THEN [IdleHandler EXCEPT !.pc = "fetchByKeys", !.item = hr.item,
                                 !.retryCount = count]
        ELSE IF hr.fetched # NoValue
        THEN [hr EXCEPT !.pc = "update", !.current = hr.fetched,
                        !.retryCount = count, !.updateRetryCount = 0,
                        !.final = TRUE]
        ELSE [hr EXCEPT !.pc = "returned", !.retryCount = count]

\* Mutant: the attempts are not counted.
CaughtWithoutCount(hr) ==
    IF hr.retryCount < MaxRetry /\ hr.item.eventCode \in RetriedEvents
    THEN [IdleHandler EXCEPT !.pc = "fetchByKeys", !.item = hr.item,
                             !.retryCount = hr.retryCount]
    ELSE IF hr.fetched # NoValue
    THEN [hr EXCEPT !.pc = "update", !.current = hr.fetched,
                    !.updateRetryCount = 0, !.final = TRUE]
    ELSE [hr EXCEPT !.pc = "returned"]

\* The catch block of handleWebhook.  hr.fetched is the payment this attempt
\* looked up, NoValue when there was none.
Caught(hr) ==
    LET count == hr.retryCount + 1
    IN  IF count < MaxRetry /\ hr.item.eventCode \in RetriedEvents
        THEN [IdleHandler EXCEPT !.pc = "fetchByKeys", !.item = hr.item,
                                 !.retryCount = count]
        ELSE IF hr.fetched # NoValue
        THEN [hr EXCEPT !.pc = "update", !.current = hr.fetched,
                        !.retryCount = count, !.updateRetryCount = 0,
                        !.final = TRUE]
        ELSE [hr EXCEPT !.pc = "returned", !.retryCount = count]

\* An error leaving updatePaymentWithRepeater: the first call is inside the
\* try, the final one inside the catch block.
Thrown(hr, status) ==
    IF hr.final THEN [hr EXCEPT !.pc = "threw", !.status = status]
    ELSE Caught(hr)

\* Mutant: the payment is updated whether it has a response or not.
FoundAnyPayment(hr, p) ==
    [hr EXCEPT !.payment = p, !.fetched = payments[p], !.current = payments[p],
               !.pc = "update", !.updateRetryCount = 0]

\* getPaymentByMerchantOrPSPReference has returned the payment p.
Found(hr, p) ==
    LET found == [hr EXCEPT !.payment = p, !.fetched = payments[p],
                            !.current = payments[p]]
    IN  IF payments[p].hasResponse
        THEN [found EXCEPT !.pc = "update", !.updateRetryCount = 0]
        ELSE Caught(found)

\* An error of the lookup leaves handleWebhook, unless its status is 404,
\* which counts as no payment.
LookupFails(h) ==
    /\ handlers[h].pc \in {"fetchByKeys", "fetchByCustomField"}
    /\ \/ handlers' = [handlers EXCEPT
                ![h] = Caught([@ EXCEPT !.status = "404"])]
       \/ \E status \in {"4xx", "5xx"} :
            handlers' = [handlers EXCEPT ![h].pc = "threw",
                                         ![h].status = status]
    /\ UNCHANGED <<payments, extension, deliveries, reported>>

\* The deliveries so far, those of each notification numbered.
Delivered ==
    {d \in Notifications \X (1 .. MaxDeliveries) : d[2] <= deliveries[d[1]]}

Receive(h, n) ==
    /\ handlers[h].pc = "idle"
    /\ Cardinality(Delivered) < MaxDeliveries
    /\ deliveries' = [deliveries EXCEPT ![n] = @ + 1]
    /\ handlers' = [handlers EXCEPT ![h] =
            [IdleHandler EXCEPT !.pc = "fetchByKeys", !.item = n]]
    /\ UNCHANGED <<payments, extension, reported>>

\* results[0] of the query key in (merchantReference, originalReference ||
\* pspReference): any of the payments that match.
FetchByKeys(h) ==
    LET n == handlers[h].item
        keys == {n.merchantReference, PaymentReference(n)}
        results == {p \in Payments : Exists(p) /\ payments[p].key \in keys}
    IN  /\ handlers[h].pc = "fetchByKeys"
        /\ \/ \E p \in results :
                handlers' = [handlers EXCEPT ![h] = Found(@, p)]
           \/ /\ results = {}
              /\ handlers' = [handlers EXCEPT ![h].pc = "fetchByCustomField"]
        /\ UNCHANGED <<payments, extension, deliveries, reported>>

FetchByCustomField(h) ==
    LET n == handlers[h].item
        results == {p \in Payments :
            Exists(p) /\ payments[p].merchantReference = n.merchantReference}
    IN  /\ handlers[h].pc = "fetchByCustomField"
        /\ \/ \E p \in results :
                handlers' = [handlers EXCEPT ![h] = Found(@, p)]
           \/ /\ results = {}
              /\ handlers' = [handlers EXCEPT ![h] = Caught(@)]
        /\ UNCHANGED <<payments, extension, deliveries, reported>>

----------------------------------------------------------------------------
(* updatePaymentWithRepeater *)

Actions(h) == UpdateActions(handlers[h].current, handlers[h].item)

\* Mutant: the update is sent with whatever version the payment has.
AcceptsAnyVersion(h) == KeyIsFree(handlers[h].payment, Actions(h).setKey)

\* The update is sent with the version it was calculated from.
Accepts(h) ==
    LET p == handlers[h].payment
    IN  /\ payments[p].version = handlers[h].current.version
        /\ KeyIsFree(p, Actions(h).setKey)

\* There is something to update and it is sent.
Sends(h) == handlers[h].pc = "update" /\ ~IsEmpty(Actions(h))

Store(h) ==
    LET p == handlers[h].payment IN Write(p, Apply(payments[p], Actions(h)))

Done(h) ==
    /\ handlers' = [handlers EXCEPT ![h].pc = "returned"]
    /\ reported' = reported \cup {<<handlers[h].item, handlers[h].payment>>}

\* updateActions.length === 0
NothingToUpdate(h) ==
    /\ handlers[h].pc = "update"
    /\ IsEmpty(Actions(h))
    /\ Done(h)
    /\ UNCHANGED <<payments, extension, deliveries>>

UpdateSucceeds(h) ==
    /\ Sends(h)
    /\ Accepts(h)
    /\ Done(h)
    /\ Store(h)
    /\ UNCHANGED <<extension, deliveries>>

\* The update is stored, but the answer does not arrive.  The client sends it
\* again (enableRetry), under the same version, or gives up.
AnswerIsLost(h) ==
    /\ Sends(h)
    /\ Accepts(h)
    /\ \E next \in {handlers[h], Thrown(handlers[h], "5xx")} :
          handlers' = [handlers EXCEPT ![h] = next]
    /\ Store(h)
    /\ UNCHANGED <<extension, deliveries, reported>>

\* Mutant: a conflict is taken for a sign that the work has been done.
VersionConflictIsDone(h) ==
    /\ Sends(h)
    /\ payments[handlers[h].payment].version # handlers[h].current.version
    /\ Done(h)
    /\ UNCHANGED <<payments, extension, deliveries>>

\* 409: ConcurrentModification
VersionConflict(h) ==
    LET hr == handlers[h]
        count == hr.updateRetryCount + 1
    IN  /\ Sends(h)
        /\ payments[hr.payment].version # hr.current.version
        /\ handlers' = [handlers EXCEPT ![h] =
              IF count > MaxUpdateRetry THEN Thrown(@, "409")
              ELSE [@ EXCEPT !.pc = "refetch", !.updateRetryCount = count]]
        /\ UNCHANGED <<payments, extension, deliveries, reported>>

\* Any other error: a key that is taken (4xx), or commercetools unavailable.
UpdateFails(h) ==
    /\ Sends(h)
    /\ \E status \in {"4xx", "5xx"} :
          handlers' = [handlers EXCEPT ![h] = Thrown(@, status)]
    /\ UNCHANGED <<payments, extension, deliveries, reported>>

\* Mutant: the new version is taken over, the new content is not.
RefetchVersionOnly(h) ==
    /\ handlers[h].pc = "refetch"
    /\ handlers' = [handlers EXCEPT
            ![h].pc = "update",
            ![h].current.version = payments[handlers[h].payment].version]
    /\ UNCHANGED <<payments, extension, deliveries, reported>>

Refetch(h) ==
    /\ handlers[h].pc = "refetch"
    /\ handlers' = [handlers EXCEPT ![h].pc = "update",
                                    ![h].current = payments[handlers[h].payment]]
    /\ UNCHANGED <<payments, extension, deliveries, reported>>

\* The refetch is not inside a try of the repeater.
RefetchFails(h) ==
    /\ handlers[h].pc = "refetch"
    /\ \E status \in {"4xx", "5xx"} :
          handlers' = [handlers EXCEPT ![h] = Thrown(@, status)]
    /\ UNCHANGED <<payments, extension, deliveries, reported>>

----------------------------------------------------------------------------
(* The end of an invocation *)

\* The caller takes the result and the invocation is over.
Leave(h) ==
    /\ handlers[h].pc \in {"returned", "threw"}
    /\ handlers' = [handlers EXCEPT ![h] = IdleHandler]
    /\ UNCHANGED <<payments, extension, deliveries, reported>>

\* The instance stops, or the platform's time limit ends the invocation.
Crash(h) ==
    /\ handlers[h].pc \notin {"idle", "returned", "threw"}
    /\ handlers' = [handlers EXCEPT ![h] = IdleHandler]
    /\ UNCHANGED <<payments, extension, deliveries, reported>>

----------------------------------------------------------------------------
(* Specification *)

Init ==
    /\ payments \in InitialPayments
    /\ extension = [p \in Payments |->
            [pc |-> IF payments[p].hasResponse THEN "done" ELSE "calling",
             version |-> payments[p].version,
             repeated |-> \E r \in MakePaymentResults[p] :
                r.pspReference \in References(payments[p].transactions),
             added |-> 0]]
    /\ handlers = [h \in Handlers |-> IdleHandler]
    /\ deliveries = [n \in Notifications |-> 0]
    /\ reported = {}

Step(h) ==
    \/ FetchByKeys(h)
    \/ FetchByCustomField(h)
    \/ LookupFails(h)
    \/ NothingToUpdate(h)
    \/ UpdateFails(h)
    \/ UpdateSucceeds(h)
    \/ AnswerIsLost(h)
    \/ VersionConflict(h)
    \/ Refetch(h)
    \/ RefetchFails(h)

Environment ==
    \E p \in Payments :
        ExtensionCommits(p) \/ ExtensionFails(p) \/ ExtensionRepeats(p) \/ OtherWrite(p)

Next ==
    \/ \E h \in Handlers, n \in Notifications : Receive(h, n)
    \/ \E h \in Handlers : Step(h) \/ Leave(h) \/ Crash(h)
    \/ Environment

Spec == Init /\ [][Next]_vars

\* A running invocation does not stop between two steps for ever: every call
\* to commercetools ends, with an answer or with an error.
FairSpec == Spec /\ \A h \in Handlers : WF_vars(Step(h) \/ Leave(h))

----------------------------------------------------------------------------
(* Properties *)

\* The type of every variable; the counters stay within the code's limits.
TypeOK ==
    /\ payments \in [Payments -> Payment]
    /\ extension \in [Payments -> ExtensionCall]
    /\ handlers \in [Handlers -> Handler]
    /\ deliveries \in [Notifications -> Nat]
    /\ reported \subseteq Notifications \X Payments

\* Where the answer to a repeated makePayment was added, 0 if there is none.
RepeatedAnswer(p) == IF extension[p].repeated THEN extension[p].added ELSE 0

\* Safety: however many deliveries of however many notifications race with
\* each other and with the extension, no notification gives a payment a second
\* transaction for a pspReference (calculateUpdateActionsForPayment looks the
\* transaction up and adds one only if there is none; the version check makes
\* the two steps one).  The one transaction that may share its reference with
\* another is that of Adyen's answer to a repeated makePayment, which the
\* extension adds without looking (make-payment.handler.js:80-86).
OneTransactionPerReference ==
    \A p \in Payments :
        DistinctReferencesBut(payments[p].transactions, RepeatedAnswer(p))

\* Safety: a notification that a handler has reported as done is, and stays,
\* visible on the payment: no concurrent update of another handler, of the
\* extension or of another client loses it (updatePaymentWithRepeater).
ReportedIsReflected ==
    \A r \in reported : Reflects(payments[r[2]], r[1])

\* Safety: every transaction state is one that somebody announced for that
\* very pspReference: Adyen in a delivered notification, or in the answer
\* that the extension stored, or it was there before.
Announced(t, before) ==
    \/ \E i \in DOMAIN before : before[i] = t
    \/ \E n \in Notifications :
          /\ deliveries[n] > 0
          /\ n.pspReference = t.interactionId
          /\ TransactionState(n) = t.state
    \/ \E p \in Payments : \E r \in MakePaymentResults[p] :
          extension[p].pc = "done" /\ t = MakePaymentTransaction(r)

StatesAreAnnounced ==
    \E initial \in InitialPayments : \A p \in Payments :
        \A i \in DOMAIN payments[p].transactions :
            Announced(payments[p].transactions[i], initial[p].transactions)

\* Safety: one notification is stored on a payment as an interface
\* interaction once, however often it is delivered ("check if the
\* interfaceInteraction is already on payment or not").
InteractionsAreDistinct ==
    \A p \in Payments : \A i, j \in DOMAIN payments[p].interactions :
        payments[p].interactions[i] = payments[p].interactions[j] => i = j

\* Safety: a modification (capture, refund, cancel) finds the payment that has
\* the transaction it modifies, whatever reference the merchant gave it ("it
\* is possible to lookup payment for different transaction throughout the
\* whole payment process").
ModificationFindsPayment ==
    \A h \in Handlers :
        /\ handlers[h].pc = "returned"
        /\ handlers[h].payment = NoValue
        /\ handlers[h].status # "404"
        => \A p \in Payments : handlers[h].item.originalReference
                                \notin References(payments[p].transactions)

\* Action: transactions are never removed nor change their reference or type,
\* and their state moves forward, Initial - Pending - Success - Failure; the
\* one exception is a failed Authorization that turns out successful.
TransactionsMoveForward ==
    [][\A p \in Payments :
         MovesForward(payments[p].transactions, payments'[p].transactions)]_vars

\* Action: a notification that the code retries does not touch a payment that
\* still lacks the extension's response before all the lookups are used up,
\* so that the extension is not made to fail by a webhook that was quicker.
WaitsForResponse ==
    [][\A h \in Handlers :
         LET hr == handlers[h]
         IN  /\ hr.pc = "update"
             /\ handlers'[h] # hr
             /\ payments' # payments
             /\ ~payments[hr.payment].hasResponse
             /\ hr.item.eventCode \in RetriedEvents
             => hr.retryCount = MaxRetry]_vars

\* Action: the calls of ctpClient.update in one invocation can be numbered
\* from 0 to (MaxRetry + 1) * (MaxUpdateRetry + 1) - 1 (167 in the code, as
\* the test of the retry limit counts): each failing call is followed by one
\* with a greater number or by none.
CallNumber(hr) == hr.retryCount * (MaxUpdateRetry + 1) + hr.updateRetryCount

UpdateCallsAreBounded ==
    [][\A h \in Handlers :
         /\ handlers[h].pc = "update"
         /\ handlers'[h].pc \in {"update", "refetch", "fetchByKeys"}
         /\ handlers'[h] # handlers[h]
         => CallNumber(handlers[h])' > CallNumber(handlers[h])]_vars

\* Refinement: however many invocations work on stale copies of the payments,
\* conflict, retry, crash and lose answers, the payments change as if each
\* notification were processed on its payment in one step, and the extension's
\* answer stored in another (the version check makes an update that is
\* calculated from a copy one of the payment as it is).
Atomic ==
    INSTANCE AtomicPayments WITH
        delivered <- {n \in Notifications : deliveries[n] > 0}

UpdatesAreAtomic == Atomic!Spec

\* Liveness: every invocation ends, whatever the other clients of the
\* payments do and however many calls fail (maxRetry of both loops).
EveryInvocationEnds ==
    \A h \in Handlers : handlers[h].pc # "idle" ~> handlers[h].pc = "idle"
============================================================================
