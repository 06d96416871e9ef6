-------------------------- MODULE ExtensionHandlers --------------------------
(***************************************************************************)
(* The extension module's handling of one payment, from the merchant's     *)
(* update of the payment to its storage (payment.controller.js,            *)
(* payment-handler.js and the handlers it dispatches to).                  *)
(*                                                                         *)
(* commercetools sends the extension the payment as the update would leave *)
(* it.  The extension picks the handlers from the fields and transactions  *)
(* it finds, each handler calls Adyen, and the answers become actions that *)
(* commercetools applies together with the update, or not at all: when the *)
(* extension is too slow or fails, or another update came first, nothing   *)
(* is stored, though Adyen may have done what it was asked.  The merchant  *)
(* may then send the update again.  Several updates, those of the          *)
(* notification module among them, work on the payment at the same time.   *)
(*                                                                         *)
(* A reference (pspReference) is the position in `adyen' of what Adyen     *)
(* did; 0 stands for no reference, and as a payment's key for the          *)
(* merchant's own reference.                                               *)
(***************************************************************************)
EXTENDS PaymentValidation, Sequences, FiniteSets

CONSTANTS
    Updates,                 \* the updates the merchant may send, each once
    Changes,                 \* what an update may change
    GenerateIdempotencyKey,  \* the configuration's generateIdempotencyKey
    MerchantKey,             \* the payment's field idempotencyKey, or NoKey
    InitialAmount,           \* the planned amount the payment is created with
    MaxNotifiedVersion       \* bound: notifications are stored below this version

VARIABLES
    payment,   \* the payment commercetools stores
    updates,   \* each update's progress
    adyen,     \* what Adyen did, in order
    nextId     \* the next transaction's id

vars == <<payment, updates, adyen, nextId>>

-----------------------------------------------------------------------------
Modification == [Charge |-> "capture", Refund |-> "refund",
                 CancelAuthorization |-> "cancel"]
Modifications == {"capture", "refund", "cancel"}

NoKey == <<"none">>

\* A change sets a request field and removes the answer to the former request,
\* adds a transaction, sets the planned amount, or is of no concern to the
\* extension.
ChangeKinds == {"request", "transaction", "amount", "other"}

Waiting == Answer("waiting", 0)
Error == Answer("error", 0)
ReferenceCodes == {"Authorised", "Refused", "received"}
Codes == ReferenceCodes \cup {"Recovered", "Action", "done", "error", "none", "waiting"}

States == {"Initial", "Pending", "Success", "Failure"}
TransactionStateFlow == [Initial |-> 0, Pending |-> 1, Success |-> 2, Failure |-> 3]

ASSUME ConfigurationAssumption ==
    GenerateIdempotencyKey \in BOOLEAN /\ MaxNotifiedVersion \in Nat
ASSUME ChangesAssumption ==
    \A ch \in Changes :
        /\ DOMAIN ch = {"kind", "of", "with", "key"}
        /\ ch.kind \in ChangeKinds
        /\ ch.kind = "request" =>
               ch.of \in Operations /\ ch.with \in DOMAIN Readings \ {NoRequest}
        /\ ch.kind = "transaction" => ch.of \in DOMAIN Modification

-----------------------------------------------------------------------------
(* The transactions and fields a handler looks at.                         *)

ListTransactions(p, type, state) ==
    {t \in p.transactions : t.type = type /\ t.state = state}

First(S) == CHOOSE t \in S : \A s \in S : t.id <= s.id

IsAuthorised(p) == ListTransactions(p, "Authorization", "Success") # {}

IsRefund(p) == IsAuthorised(p) /\ ListTransactions(p, "Refund", "Initial") # {}

IsCancelPayment(p) ==
    IsAuthorised(p) /\ ListTransactions(p, "CancelAuthorization", "Initial") # {}

IsDonationPayment(p) == IsAuthorised(p) /\ p.request["donation"] # NoRequest

\* Mutant of IsCapture: does not ask for an authorization.
IsCaptureUnauthorised(p) == ListTransactions(p, "Charge", "Initial") # {}

IsCapture(p) == IsAuthorised(p) /\ ListTransactions(p, "Charge", "Initial") # {}

\* What the log keeps of a call is the HTTP request, the details its body.
Logged(details) == [method |-> "POST", body |-> details]
Submitted(details) == [details |-> details]

IsNewRequest(p) ==
    LET submitted == {i \in p.interactions : i.type = "submitDetails"}
    IN  \/ submitted = {}
        \/ LET first == CHOOSE i \in submitted :
                            \A j \in submitted : i.at <= j.at
           IN  Logged(first.request) # Submitted(p.request["submitDetails"])

\* Mutant of HasTransactionWithPspReference: the transactions are not searched.
NeverHasTransaction(p, ref) == FALSE

HasTransactionWithPspReference(p, ref) ==
    \E t \in p.transactions : t.ref = ref

-----------------------------------------------------------------------------
(* The calls a payment makes.                                              *)

\* Mutants of GetIdempotencyKey: one key too few.
KeyFromFieldOnly(t) == t.key
KeyFromConfigurationOnly(t) ==
    IF GenerateIdempotencyKey THEN <<"transaction", t.id>> ELSE NoKey

GetIdempotencyKey(t) ==
    IF t.key # NoKey THEN t.key
    ELSE IF GenerateIdempotencyKey THEN <<"transaction", t.id>>
    ELSE NoKey

GenerateOperationKey(op) ==
    IF MerchantKey # NoKey THEN MerchantKey ELSE <<"operation", op>>

\* The reference of the authorisation a call is about, 0 if there is none.
OriginalReference(p) ==
    LET authorised == ListTransactions(p, "Authorization", "Success")
    IN  IF authorised = {} THEN 0 ELSE First(authorised).ref

\* The merchant's reference is in every request of a payment.
OperationCall(p, op) ==
    [op |-> op, tx |-> 0, of |-> p.request[op],
     key |-> IF op \in {"carbonOffset", "disable"} THEN NoKey
             ELSE GenerateOperationKey(op),
     original |-> IF op = "amountUpdate" THEN OriginalReference(p) ELSE 0,
     names |-> {0}]

\* A refund or cancellation goes by the payment's key, a capture by none.
ModificationCall(p, t) ==
    [op |-> Modification[t.type], tx |-> t.id, of |-> t.of,
     key |-> GetIdempotencyKey(t),
     original |-> OriginalReference(p),
     names |-> IF t.type = "Charge" THEN {} ELSE {p.key}]

RequestedOperations(p) ==
    {op \in Operations \ {"donation"} :
        /\ p.request[op] # NoRequest
        /\ p.response[op] = NoAnswer
        /\ op = "submitDetails" =>
               p.response["makePayment"] # NoAnswer /\ IsNewRequest(p)}

Calls(p) ==
    IF IsRefund(p) THEN
        {ModificationCall(p, t) : t \in ListTransactions(p, "Refund", "Initial")}
    ELSE IF IsCancelPayment(p) THEN
        {ModificationCall(p,
            First(ListTransactions(p, "CancelAuthorization", "Initial")))}
    ELSE IF IsDonationPayment(p) THEN {OperationCall(p, "donation")}
    ELSE {OperationCall(p, op) : op \in RequestedOperations(p)}
         \cup (IF IsCapture(p)
               THEN {ModificationCall(p,
                        First(ListTransactions(p, "Charge", "Initial")))}
               ELSE {})

-----------------------------------------------------------------------------
(* The payment with the answers' actions applied.                          *)

\* Mutants of Pending: any answer will do; any answer of the handler will, for
\* every transaction of its type.
PendingOnceAnswered(t, ans) ==
    LET answered == {c \in DOMAIN ans : c.tx = t.id}
    IN  IF answered = {} THEN t
        ELSE [t EXCEPT !.state = "Pending",
                       !.ref = ans[CHOOSE c \in answered : TRUE].ref]
PendingByType(t, ans) ==
    LET answered == {c \in DOMAIN ans : /\ t.type \in DOMAIN Modification
                                        /\ c.op = Modification[t.type]
                                        /\ ans[c].ref # 0}
    IN  IF answered = {} THEN t
        ELSE [t EXCEPT !.state = "Pending",
                       !.ref = IF @ # 0 THEN @ ELSE ans[CHOOSE c \in answered : TRUE].ref]

Pending(t, ans) ==
    LET answered == {c \in DOMAIN ans : c.tx = t.id /\ ans[c].ref # 0}
    IN  IF answered = {} THEN t
        ELSE [t EXCEPT !.state = "Pending",
                       !.ref = ans[CHOOSE c \in answered : TRUE].ref]

AuthorizationState(code) == IF code = "Authorised" THEN "Success" ELSE "Failure"

\* A second makePayment answered as the first adds its transaction again; only
\* submitDetails looks whether the payment has a transaction of that reference.
AddTransactionByResponse(p, ans) ==
    {[id |-> nextId, type |-> "Authorization", of |-> "amountPlanned",
      state |-> AuthorizationState(ans[c].code),
      ref |-> ans[c].ref, key |-> NoKey, by |-> "answer"] :
        c \in {d \in DOMAIN ans :
                 /\ d.op \in {"makePayment", "submitDetails"}
                 /\ ans[d].code \in {"Authorised", "Refused"}
                 /\ d.op = "submitDetails" =>
                        ~HasTransactionWithPspReference(p, ans[d].ref)}}

Interactions(p, ans) ==
    {[type |-> c.op, request |-> c.of, answer |-> ans[c], at |-> p.version] :
        c \in {d \in DOMAIN ans : d.op # "donation"}}

\* The session's answer has no reference of Adyen's: its key is the merchant's.
PaymentKey(p, ans) ==
    LET paid == {c \in DOMAIN ans : c.op \in {"makePayment", "submitDetails"}
                                    /\ ans[c].ref # 0}
    IN  IF p.key # 0 /\ \E c \in DOMAIN ans : c.op = "createSession"
                                              /\ ans[c].code = "done"
        THEN 0
        ELSE IF paid # {} THEN ans[CHOOSE c \in paid : TRUE].ref ELSE p.key

Handled(p, ans) ==
    [version |-> p.version + 1,
     key |-> PaymentKey(p, ans),
     amountPlanned |-> p.amountPlanned,
     request |-> p.request,
     response |-> [op \in Operations |->
                     IF \E c \in DOMAIN ans : c.op = op
                     THEN ans[CHOOSE c \in DOMAIN ans : c.op = op]
                     ELSE p.response[op]],
     transactions |-> {Pending(t, ans) : t \in p.transactions}
                      \cup AddTransactionByResponse(p, ans),
     interactions |-> p.interactions \cup Interactions(p, ans)]

-----------------------------------------------------------------------------
Changed(ch) ==
    CASE ch.kind = "request" ->
           [payment EXCEPT !.request[ch.of] = ch.with, !.response[ch.of] = NoAnswer]
      [] ch.kind = "transaction" ->
           [payment EXCEPT !.transactions = @ \cup
              {[id |-> nextId, type |-> ch.of, of |-> ch.with, state |-> "Initial",
                ref |-> 0, key |-> ch.key, by |-> "merchant"]}]
      [] ch.kind = "amount" -> [payment EXCEPT !.amountPlanned = ch.with]
      [] OTHER -> payment

FreshPayment ==
    [version |-> 1, key |-> 0, amountPlanned |-> InitialAmount,
     request |-> [op \in Operations |-> NoRequest],
     response |-> [op \in Operations |-> NoAnswer],
     transactions |-> {}, interactions |-> {}]

NotSent == [phase |-> "new", payment |-> FreshPayment, answers |-> <<>>,
            change |-> [kind |-> "other", of |-> "", with |-> "", key |-> NoKey]]

Init ==
    /\ payment = FreshPayment
    /\ updates = [u \in Updates |-> NotSent]
    /\ adyen = <<>>
    /\ nextId = 1

\* The merchant sends an update, and repeats one only when it was rejected.
IsToSend(u, ch) ==
    /\ updates[u].phase = "new"
    /\ ch.kind = "other" \/
         \A v \in Updates : updates[v].change = ch => updates[v].phase = "rejected"

Open(u, ch, p) ==
    /\ updates' = [updates EXCEPT ![u] =
                     [phase |-> "open", payment |-> p, change |-> ch,
                      answers |-> [c \in Calls(p) |-> Waiting]]]
    /\ nextId' = nextId + 1
    /\ UNCHANGED <<payment, adyen>>

SendUpdate(u, ch) ==
    /\ IsToSend(u, ch)
    /\ IsValid(Changed(ch))
    /\ Open(u, ch, Changed(ch))

\* The extension finds errors, and handles nothing.
RefuseUpdate(u, ch) ==
    /\ IsToSend(u, ch)
    /\ ~IsValid(Changed(ch))
    /\ updates' = [updates EXCEPT ![u] =
                     [NotSent EXCEPT !.phase = "rejected", !.change = ch]]
    /\ UNCHANGED <<payment, adyen, nextId>>

\* A request the checks have not looked at, and that is not JSON, is never sent:
\* its handler fails.
IsSent(c) == c.op \in {"disable", "donation"} => Readings[c.of].json

Receive(u, c, answer) ==
    /\ c \in DOMAIN updates[u].answers
    /\ updates[u].answers[c] = Waiting
    /\ IsSent(c)
    /\ updates' = [updates EXCEPT ![u].answers[c] = answer]

CodesOf(op) ==
    IF op \in {"makePayment", "submitDetails"} THEN {"Authorised", "Refused", "Action"}
    ELSE IF op \in Modifications \cup {"amountUpdate"} THEN {"received"}
    ELSE {"done"}

\* A repetition gets the first answer, also when the payment recovered since.
AnswerOf(i, code) ==
    IF code = "Recovered" THEN Answer("Refused", i)
    ELSE Answer(code, IF code \in ReferenceCodes THEN i ELSE 0)

DoneBefore(c) == {i \in DOMAIN adyen : c.key # NoKey /\ adyen[i].call.key = c.key}

\* Adyen does what it is asked for the first time; the answer may be lost.
Execute(u, c) ==
    /\ DoneBefore(c) = {}
    /\ \E code \in CodesOf(c.op) :
         /\ adyen' = Append(adyen, [call |-> c, code |-> code])
         /\ \E a \in {AnswerOf(Len(adyen) + 1, code), Error} : Receive(u, c, a)
    /\ UNCHANGED <<payment, nextId>>

\* A key Adyen knows: it answers as it did the first time.
Replay(u, c) ==
    /\ \E i \in DoneBefore(c) :
         \E a \in {AnswerOf(i, adyen[i].code), Error} : Receive(u, c, a)
    /\ UNCHANGED <<payment, adyen, nextId>>

\* The call does not reach Adyen, or Adyen refuses it: the error is the answer.
FailCall(u, c) ==
    /\ Receive(u, c, Error)
    /\ UNCHANGED <<payment, adyen, nextId>>

\* commercetools stores the update with the actions of all its handlers.
StoreUpdate(u) ==
    /\ updates[u].phase = "open"
    /\ \A c \in DOMAIN updates[u].answers : updates[u].answers[c] # Waiting
    /\ updates[u].payment.version = payment.version
    /\ payment' = Handled(updates[u].payment, updates[u].answers)
    /\ updates' = [updates EXCEPT ![u].phase = "stored"]
    /\ nextId' = nextId + 1
    /\ UNCHANGED adyen

\* The extension's ten seconds are over, one of its handlers failed, or another
\* update was stored before: nothing of this one is.  Its calls go on.
RejectUpdate(u) ==
    /\ updates[u].phase = "open"
    /\ updates' = [updates EXCEPT ![u].phase = "rejected"]
    /\ UNCHANGED <<payment, adyen, nextId>>

\* An authorisation that failed turns out to have succeeded.
Recover(i) ==
    /\ adyen[i].call.op \in {"makePayment", "submitDetails"}
    /\ adyen[i].code = "Refused"
    /\ adyen' = [adyen EXCEPT ![i].code = "Recovered"]
    /\ UNCHANGED <<payment, updates, nextId>>

-----------------------------------------------------------------------------
(* The notification module's updates.  NotificationHandler has the steps it *)
(* takes, here is what one stores (calculateUpdateActionsForPayment).       *)

\* What Adyen may announce of what it did: a capture may fail after all.
EventStates(i) ==
    LET op == adyen[i].call.op
        code == adyen[i].code
    IN  CASE code = "Authorised" -> {"Success"}
          [] code = "Refused" -> {"Failure"}
          [] code = "Recovered" -> {"Failure", "Success"}
          [] code = "received" /\ op \in Modifications -> {"Success", "Failure"}
          [] code = "received" /\ op \notin Modifications -> {"Pending"}
          [] OTHER -> {}

EventType(op) ==
    IF op \in Modifications
    THEN CHOOSE type \in DOMAIN Modification : Modification[type] = op
    ELSE "Authorization"

\* Failure is the last state, but a failed authorisation may recover.
Supersedes(state, t) ==
    \/ TransactionStateFlow[state] > TransactionStateFlow[t.state]
    \/ t.type = "Authorization" /\ t.state = "Failure" /\ state = "Success"

NotifiedTransactions(i, state) ==
    LET call == adyen[i].call
        stored == {t \in payment.transactions : t.ref = i}
        superseded == {t \in stored : t = First(stored) /\ Supersedes(state, t)}
    IN  IF stored = {}
        THEN payment.transactions \cup
               {[id |-> nextId, type |-> EventType(call.op), of |-> call.of,
                 state |-> state, ref |-> i, key |-> NoKey, by |-> "notification"]}
        ELSE (payment.transactions \ superseded)
             \cup {[t EXCEPT !.state = state] : t \in superseded}

NotifiedInteractions(i, state) ==
    LET notification == [type |-> "notification", request |-> NoRequest,
                         answer |-> Answer(state, i), at |-> payment.version]
    IN  IF \E n \in payment.interactions :
              n.type = "notification" /\ n.answer = notification.answer
        THEN payment.interactions ELSE payment.interactions \cup {notification}

\* originalReference || pspReference
PaymentReference(i) ==
    IF adyen[i].call.original # 0 THEN adyen[i].call.original ELSE i

\* The custom field merchantReference: set with the answer to a request that has
\* a reference.
HasMerchantReference(p) ==
    \E i \in p.interactions :
        /\ i.type \in {"makePayment", "submitDetails", "createSession"}
        /\ Readings[i.request].reference

\* By key or, with the merchant's own reference, by custom field.
IsFoundBy(i) ==
    \/ payment.key \in adyen[i].call.names \cup {PaymentReference(i)}
    \/ 0 \in adyen[i].call.names /\ HasMerchantReference(payment)

Notified(i) ==
    {[payment EXCEPT !.key = PaymentReference(i),
                     !.transactions = NotifiedTransactions(i, state),
                     !.interactions = NotifiedInteractions(i, state)] :
        state \in IF IsFoundBy(i) /\ payment.version < MaxNotifiedVersion
                  THEN EventStates(i) ELSE {}}
    \ {payment}

\* Its update, too, is sent to the extension, which may find something to do: a
\* charge or a donation that waited for the authorisation.
SendNotification(u, i) ==
    /\ updates[u].phase = "new"
    /\ \E p \in Notified(i) :
         /\ IsValid(p)
         /\ Calls(p) # {}
         /\ Open(u, [NotSent.change EXCEPT !.kind = "notification"], p)

\* With nothing to do for the extension the update is stored in one step.
Notify(i) ==
    /\ \E p \in Notified(i) :
         /\ IsValid(p)
         /\ Calls(p) = {}
         /\ payment' = [p EXCEPT !.version = @ + 1]
    /\ nextId' = nextId + 1
    /\ UNCHANGED <<updates, adyen>>

Next ==
    \/ \E u \in Updates :
         \/ \E ch \in Changes : SendUpdate(u, ch) \/ RefuseUpdate(u, ch)
         \/ \E i \in DOMAIN adyen : SendNotification(u, i)
         \/ \E c \in DOMAIN updates[u].answers :
              Execute(u, c) \/ Replay(u, c) \/ FailCall(u, c)
         \/ StoreUpdate(u)
         \/ RejectUpdate(u)
    \/ \E i \in DOMAIN adyen : Notify(i) \/ Recover(i)

Spec == Init /\ [][Next]_vars

-----------------------------------------------------------------------------
(* The type invariant: calls in flight wait or have an answer, and what the *)
(* payment refers to is something Adyen did.                                *)
References == 0 .. Len(adyen)
Answers == [code : Codes, ref : References]

CallType(c) ==
    /\ DOMAIN c = {"op", "tx", "of", "key", "original", "names"}
    /\ c.op \in Operations \cup Modifications
    /\ c.tx \in 0 .. nextId - 1
    /\ (c.tx = 0) <=> (c.op \in Operations)
    /\ c.original \in References
    /\ c.names \subseteq References

PaymentType(p) ==
    /\ DOMAIN p = DOMAIN FreshPayment
    /\ p.version \in Nat \ {0}
    /\ p.key \in References
    /\ p.request \in [Operations -> DOMAIN Readings \cup {NoRequest}]
    /\ p.response \in [Operations -> Answers]
    /\ \A t \in p.transactions :
         /\ DOMAIN t = {"id", "type", "of", "state", "ref", "key", "by"}
         /\ t.id \in 1 .. nextId - 1
         /\ t.type \in DOMAIN Modification \cup {"Authorization"}
         /\ t.state \in States
         /\ t.ref \in References
         /\ t.state = "Initial" <=> t.ref = 0

TypeOK ==
    /\ PaymentType(payment)
    /\ DOMAIN updates = Updates
    /\ \A u \in Updates :
         /\ updates[u].phase \in {"new", "open", "stored", "rejected"}
         /\ PaymentType(updates[u].payment)
         /\ \A c \in DOMAIN updates[u].answers :
              CallType(c) /\ updates[u].answers[c] \in Answers
    /\ \A i \in DOMAIN adyen : CallType(adyen[i].call) /\ adyen[i].code \in Codes
    /\ nextId \in Nat \ {0}

\* Adyen captures, refunds or cancels for a transaction at most once, however
\* many updates find the transaction in its initial state and whichever answers
\* are lost: needs generateIdempotencyKey, or the transaction's own key
\* (getIdempotencyKey).
ModificationExecutedOnce ==
    \A i, j \in DOMAIN adyen :
        /\ adyen[i].call.op \in Modifications
        /\ adyen[i].call.tx = adyen[j].call.tx
        => i = j

\* A transaction has the reference of something of its kind that Adyen did; that
\* of a charge, refund or cancellation the merchant added was done for this very
\* transaction, or for one the merchant gave the same key, although refunds are
\* answered in any order (refund-payment.handler.js) and notifications add
\* transactions and set states in between.
ReferenceIsOfTransaction ==
    \A t \in payment.transactions : t.ref # 0 =>
        LET call == adyen[t.ref].call
        IN  /\ t.type = EventType(call.op)
            /\ t.by = "merchant" =>
                   call.tx = t.id \/ (t.key # NoKey /\ call.key = t.key)

\* An answer to submitDetails yields one transaction, whether the notification
\* or the answer is stored first and however often it is answered
\* (_hasTransactionWithPspReference).
OneTransactionPerDetails ==
    \A s, t \in payment.transactions :
        s.ref = t.ref /\ s.ref # 0 /\ adyen[s.ref].call.op = "submitDetails" => s = t

\* Adyen is asked to change only payments it has authorised
\* (getAuthorizationTransactionSuccess in every dispatch of a modification).
ModifiedAfterAuthorisation ==
    \A i \in DOMAIN adyen : adyen[i].call.op \in Modifications =>
        \E j \in 1 .. i - 1 : adyen[j].code \in {"Authorised", "Recovered"}

\* A transaction is never removed, keeps its type and its reference, and its state
\* moves on, Initial - Pending - Success - Failure, but for a failed authorisation
\* that recovers: no stale answer of an update, no repeated call and no late
\* notification sets it back (compareTransactionStates; ADR 0014, correct failed
\* authorization).
MovesOn(t, s) ==
    \/ TransactionStateFlow[s.state] >= TransactionStateFlow[t.state]
    \/ t.type = "Authorization" /\ t.state = "Failure" /\ s.state = "Success"

TransactionsOnlyAdvance ==
    [][\A t \in payment.transactions : \E s \in payment'.transactions :
         /\ s.id = t.id
         /\ s.type = t.type
         /\ t.ref # 0 => s.ref = t.ref
         /\ MovesOn(t, s)]_vars

\* What the merchant wants captured or refunded is captured or refunded once, also
\* when the update that adds the transaction is rejected and sent again
\* (ADR 0010: "it would be possible for users to retry refund and capture
\* requests without any knowledge of the idempotency key").
RetryIsSafe ==
    \A i, j \in DOMAIN adyen :
        /\ adyen[i].call.op \in Modifications
        /\ adyen[i].call.op = adyen[j].call.op
        /\ adyen[i].call.of = adyen[j].call.of
        => i = j

\* With a key of the merchant's in every such update it is: an amount to charge
\* or refund for which the merchant always gives a key is executed once.
HasMerchantsKey(call) ==
    \A ch \in Changes :
        ch.kind = "transaction" /\ Modification[ch.of] = call.op /\ ch.with = call.of
        => ch.key # NoKey

KeyedRetryIsSafe ==
    \A i, j \in DOMAIN adyen :
        /\ adyen[i].call.op \in Modifications
        /\ HasMerchantsKey(adyen[i].call)
        /\ adyen[i].call.op = adyen[j].call.op
        /\ adyen[i].call.of = adyen[j].call.of
        => i = j

\* The answer that is stored with a request is Adyen's answer to this request, also
\* when it is not the first of its kind (docs/UpdateAmountAndExtendAuthorisation.md:
\* "To do `amountUpdatesRequest` multiple times, you need to remove the custom
\* field `amountUpdatesResponse` from the payment when setting the new
\* `amountUpdatesRequest`").
AnswerIsToRequest ==
    \A i \in payment.interactions :
        i.type \in Operations /\ i.answer.ref # 0
        => adyen[i.answer.ref].call.of = i.request

\* Adyen is asked to pay the planned amount, however often the merchant tries
\* and changes the amount (docs/AdvancedCheckoutFlowIntegrationGuide.md: "The `amount`
\* value in `makePaymentRequest` custom field must have the same value as
\* `payment.amountPlanned`").
PaidAsPlanned ==
    \A u \in Updates :
        \A c \in DOMAIN updates[u].answers :
            c.op = "makePayment" =>
                Readings[c.of].amount \in {NoAmount, updates[u].payment.amountPlanned}
=============================================================================
