# Verification of the commercetools–Adyen integration

TLA+ models, TLC runs and TLAPS proofs for `adyen-commercetools`. The reference is the
source: each definition that models code is traced to its lines in `PROJECT.json` ("map").

    tlc -config race.cfg MCNotificationHandler.tla      # a run
    tlapm NotificationHandlerProofs.tla                 # the proofs

## The system

Two stateless Node modules stand between a merchant's commercetools project and Adyen.

```
 merchant ──update──▶ commercetools ──API extension──▶ extension module ──HTTP──▶ Adyen
                        ▲    ▲   ◀──update actions──────┘                            │
                        │    └── lookup, update (version) ── notification module ◀───┘
                     other clients                              webhook, [accepted] / 500 / 401
```

They never talk to each other. Their only shared state is the commercetools **payment**: its
`version`, `key`, `transactions`, `interfaceInteractions` and custom fields. The protocol between
them is commercetools' optimistic locking, unique keys and what each module reads off the payment.
Each module runs in any number of instances (Lambda, Azure, GCP, containers).

### Inventory

| component | state | operations | what is hard | what makes it correct |
|---|---|---|---|---|
| **notification: update of a payment** (`notification.handler.js`, `adyen-events.json`) | none: payment × notification → actions | add interaction, add transaction, change state, set key, method, variant | events in any order and repeated; references that are matched | states only move forward and were announced; one transaction per reference; each notification once |
| **notification: processNotification** | per invocation: payment read, two retry counters | look up by keys, by custom field; wait for the extension; update with version; refetch on 409 | concurrent invocations, lost answers, crashes, nested retries | nothing lost, nothing twice; extension is not disturbed; bounded, terminates |
| **notification: webhook endpoint** (`notification.controller.js`, serverless entry points, error classes, HMAC, basic auth) | per request: item in progress | authorize, process, answer | redelivery of whole batches, partial failure, parallel deliveries | no early acknowledgement, order, no endless redelivery |
| **extension: request handling** (`payment.controller.js`, `payment-handler.js`) | none; up to ten seconds per call | validate, choose handlers, run them in parallel, collect actions | Adyen acts before commercetools commits; timeout, conflict, one of several failing | no request to Adyen is repeated with another effect; responses are stored |
| **extension: payment handlers** (make payment, details, capture, refund, cancel, session, amount, donation, stored payment, methods, carbon) | none | one request to Adyen, actions from the response | idempotency keys; what counts as a new request | one transaction per reference, one effect per request |
| **extension: Adyen client** (`web-component-service.js`) | none | HTTP calls; errors become responses | errors stored as responses | request data survives an error |
| **extension: validation** (`validator/`) | none | JSON, references, amounts, metadata, credentials | what was logged is preferred to what is asked | the paid amount is the planned one |
| **extension: cart mapping** (`mapping-cart-data-utils.js`, `line-items-utils.js`) | none | fields the merchant left out, detail lines, lines with tax | each share and each amount rounded for itself; free carts | the parts add up to the whole; no total is negative |
| **setup** (`config/init/`, `setup.js` of both modules) | at Adyen: webhooks and their keys; at commercetools: the API extension and the types, each with a version | find, create, activate or update; generate an HMAC key | find and create are two requests; setups that overlap, stop half-way, are repeated after credentials were rotated; answers nobody looks at | success means that the service works; one webhook of a kind; keys in use are not replaced |
| **configuration** (`config.js` of both modules) | loaded once | defaults, flags, credentials, checks at start | flags as strings or booleans, each read in its own way; colons in credentials | a configuration that loads is usable |
| servers, routes, logging, health check, SDK client | – | I/O | – | – |

The hazards of each are listed, at the line where they bite, in `PROJECT.json` ("hazards").

## Modules

| module | models |
|---|---|
| `PaymentUpdate` | What one notification does to one payment: `AdyenEvents`, `UpdateActions` (`calculateUpdateActionsForPayment`), and `Apply` (commercetools). Pure operators. |
| `NotificationHandler` | Any number of `processNotification` invocations on any number of payments, with the extension's makePayment, failed and repeated, and other clients of the project. |
| `AtomicPayments` | What these promise together: each notification processed in one step. |
| `WebhookDelivery` | Any number of requests for batches of items: `handleNotification`, authorization, the answer, Adyen's redelivery. |
| `BatchDelivery` | What the endpoint promises to Adyen: items in order, nothing acknowledged too early. |
| `PaymentValidation` | What the extension checks of a payment before it handles it. Pure operators. |
| `ExtensionHandlers` | Any number of updates of one payment, each with its call of the extension: validation, `handlePayment`, all handlers, Adyen with its idempotency keys, commercetools' storing or rejecting, failed authorisations that recover, and the notification module's updates, of transactions, key and interactions. |
| `CartMapping` | `getDataFromCart`, line by line. |
| `Configuration` | Flags, credentials and what is refused at start, of both modules. Pure operators. |
| `WebhookSetup`, `ResourceSync` | The requests to Adyen and those to commercetools of one setup. |
| `Setup` | Any number of setups of one module: both of the above, and the operator. |
| `MC…` | Values of the constants for TLC. |
| `PaymentUpdateProofs`, `NotificationHandlerProofs`, `NotificationFactsProofs`, `WebhookDeliveryProofs`, `ExtensionHandlersProofs`, `ExtensionReferencesProofs`, `CartMappingProofs`, `SetupProofs` | Lemmas and theorems. |

`NotificationHandler` extends `PaymentUpdate`, `ExtensionHandlers` extends `PaymentValidation`,
`Setup` extends `WebhookSetup`, which extends `Configuration`; `Setup` has `ResourceSync` as the
instance `Sync`. The promises are instances of the modules that keep them: `NotificationHandler!Atomic`
(payments and reports as they are; a notification has been delivered if its count is not zero) and
`WebhookDelivery!Delivery` (the positions handled and the batches with a failed item are read off the
histories).

Where two components meet without sharing a module, each sees the other by its effect.
`WebhookDelivery` abstracts one item to whether `processNotification` returned or with which kind of
status it threw; `NotificationHandler`'s `returned` and `threw` are these outcomes.
`ExtensionHandlers` sees the notification module as `SendNotification` and `Notify`, an update of the
payment that may come at any time, as `NotificationHandler` sees the extension only as
`ExtensionCommits`, `ExtensionFails` and `ExtensionRepeats`.

### `PaymentUpdate`

The list of update actions becomes a record with one field per kind of action, `NoValue` where the
list has none. A stored interaction is a pair of the notification's identity and whether its text
is the delivered one (`raw`) or was changed before it was stored (`rewritten`); whether a text is
rewritten depends on the data of the item and on `removeSensitiveData`, as in the code. `success`
is a string, so `Truthy` is not a comparison with "true". Timestamps, amounts and localized method
names have no bearing on control and are left out.

### `NotificationHandler`

| variable | in the program |
|---|---|
| `payments` | the payments in commercetools; version 0 while the merchant's create request is with the extension |
| `extension` | for each payment, whether its makePayment call is in flight, and the version it was called with; histories: whether it is a repeated one, and where the answer's transaction was added |
| `handlers` | per invocation: `pc`; the item; `fetched`, the payment of this attempt of `handleWebhook`; `current`, `currentPayment` of the repeater; the two `retryCount`s; `final`, the call in the catch block; the status of the last error |
| `deliveries` | how often Adyen has delivered each notification (`MaxDeliveries` bounds the sum) |
| `reported` | history: which notification was reported as done for which payment |

Each call to commercetools is one action, as each is one `await`; everything between two awaits
belongs to the action in front. `AnswerIsLost` stores the update and loses the answer: the HTTP
client may send the same request again (`enableRetry`), which then has a stale version, or give up
with an error. `Caught` is the catch block of `handleWebhook`: it forgets the attempt, counts it,
and looks the payment up again for the two retried events; otherwise, or when the limit is reached,
it makes the last update, whose errors leave `processNotification`. `Crash` ends an invocation
anywhere. `ExtensionCommits` is conditional on the version the extension was called with, and
`ExtensionFails` is its timeout or conflict. The merchant may then repeat the update, with the payment as it
is by now and any number of times (`ExtensionRepeats`); since the idempotency key is the payment's, Adyen's
answer is the one of the first attempt. `OtherWrite` is any other client that increments the version. Bounds on
the environment: `MaxDeliveries`, `MaxOtherVersion`.

`make-payment.handler.js:80-86` adds the transaction of the answer without looking whether the payment has
one of that reference. When the first attempt timed out and a webhook has added the transaction since, the
answer to the repetition adds a second one. The model does so, too, and `OneTransactionPerReference` says
exactly that: no notification ever adds a second transaction for a reference, and the one transaction that
may share its reference is that of the answer to a repeated makePayment (`RepeatedAnswer`). In the code and
in the model the latter is not prevented; no document says what should happen. `InitialAssumption` only says
that a payment starts with distinct references; a payment may start with the reference that Adyen will
answer with, as then its call counts as repeated.

### `WebhookDelivery`

Requests go through the items of their batch from 1 on. Per item: unknown account or project →
`Misconfigured` (an error without status, hence `[accepted]`); wrong credentials of a pending item →
`Reject` (401); wrong signature, or pending without basic auth → `Drop`; else `ProcessItem` or
`ProcessItemFails` with the status of the error. `handled` and `failed` are histories. A batch can
be in several requests at once, since Adyen gives up waiting and repeats while a request still
works. After an item with an error that no repetition would cure the items behind it are acknowledged
without having been looked at, as in the code; `AcknowledgedIsSettled` says so. `Break` loses a
request or its answer. Nothing is bounded here but the batches themselves.

### `ExtensionHandlers`

| variable | in the program |
|---|---|
| `payment` | the payment in commercetools: version, key, request and response fields, transactions, interactions |
| `updates` | per update of the merchant: the payment as the extension got it (`resource.obj`), what was changed, and the answers to its calls so far, the local state of `Promise.all` |
| `adyen` | what Adyen did, in order; a pspReference is a position in it |
| `nextId` | the id commercetools gives to the next transaction |

`SendUpdate` is a request to the extension: commercetools has applied the change to a copy, the copy
is valid (`IsValid`), and `Calls` are the calls of the handlers `_getPaymentHandlers` picks.
`RefuseUpdate` is an update with validation errors: nothing is called and nothing stored. Calls run in
parallel, so each is answered by a step of its own: `Execute` when Adyen has not seen its key, `Replay`
when it has, either with the answer lost on its way, or `FailCall`. `callAdyen` catches every failure
and makes it the response. A donation request and a request to disable a stored payment are not
validated; one that is not JSON makes its handler throw before anything is sent (`IsSent`).
`StoreUpdate` waits for all answers (`Promise.all`), turns them into actions (`Handled`), and
commercetools applies these with the change itself, if no other update came first. `RejectUpdate` is
all the ways in which nothing is stored: ten seconds, a handler that throws, a conflict. The calls of a
rejected update may still reach Adyen. The merchant sends a rejected update again, and not one that
succeeded or is still open; an added transaction then has a new id.

The update that the notification module makes goes through the extension as any other does. Where the
extension finds something to do, a charge or a donation that waited for the authorisation, it is
`SendNotification` and takes its time; otherwise `Notify` is one step. `Notified` is all that the update
stores. The transaction of the notification's reference gets its state if that supersedes the present one
(`Supersedes`): a success may become a failure (CAPTURE_FAILED), and a failed authorisation a success
(`Recover`, ADR 0014). If no transaction has the reference, as that of a charge or refund whose update was
rejected, one is added. The key becomes the reference of the payment, and the notification is logged once.
`IsFoundBy` is the lookup: by the key of the payment, which for a modification is the reference of the
authorised payment, or by the merchant's reference in a custom field, which the payment has from the first
answer to a request with a reference on (`HasMerchantReference`). A transaction records in `by` who added
it, and in `of` what it is for, for the properties.

Three conditions of the code have an effect that is easy to overlook, and the model keeps them.
`_isNewRequest` compares the details with the logged HTTP request (method, headers, body), so it is
always true (`Logged`, `Submitted`). `donationRequest` excludes the handlers after it and is not
compared with a response: after a donation was requested no charge is captured any more, and each
update sends the donation again (the hazard at `payment-handler.js:65`; no document says what is
intended). A refund or a cancellation excludes all others, too.

External: commercetools (ids, versions, atomic storage), Adyen (which results an endpoint has, and
that a known key is answered as before), and the merchant. A replay of an error of Adyen's is
`FailCall`. Left out: payments that the shopper makes in a session without the extension, and donations and
chargebacks, of which notifications could tell; a reference of its own that the merchant may give a
transaction; the donation campaign that follows an authorisation, method info, texts. The data of the cart is
in `CartMapping`. Sessions, and donations that Adyen executes, are in the model and in the proofs, and in
the changes of no run.

### `PaymentValidation`

What a request says is the merchant's, so a constant `Readings` gives what the checks can tell of each:
whether it is JSON, whether it has a reference and a pspReference, which amount it names. The checks
are those of `_validatePaymentRequest` in their order: JSON of six of the eight fields; a reference for
requests that will be handled; the amount; the pspReference of an amount update, which is skipped when
the extension is protected by basic authentication. `AmountOf` is the one that is easy to misread: once
an interaction of the kind is logged, the amount is looked for in the log, and what is logged is the
HTTP request, whose body is text and which has no amount (run `amount_planned`). The presence of project
key and merchant account is taken for granted.

### `CartMapping`

| variable | in the program |
|---|---|
| `cart`, `request` | the payment's cart, or none; whether the request is for a card, and which fields it has |
| `pc` | the step of `getDataFromCart` |
| `mapped` | for each field where its value is from: the merchant, the cart, the customer, today |
| `taxLines` | `lineItems` as `createLineItems` makes them |
| `sums` | the partial sums of the reduction in `_totalSumOfLineItems` |
| `details` | the detail lines so far |
| `shared`, `charged`, `cost` | histories: the discount given away, the totals computed, and what commercetools charges for the lines without the discount |

Amounts are integers, in cents. A share of the discount is `price × discount / total`, computed with
floating-point numbers and then rounded; near an exact half the result may come out on either side, so
`Shares` has both. `RoundFixed` is `toFixed`, which rounds a half away from zero.

`Price` is the code's price of a line, `Cost` what commercetools charges: they differ for a line without
tax of more than one unit, for which the code takes the price of one unit (finding `untaxed`). The totals are
compared with `cost`, not with what the code takes for it, so `TotalsAddUp` is about lines that are taxed or of one
unit (`IsExact`); for the others it is false, of which `untaxed` has the case. A custom line item may have
negative money: its share is negative, its total is cut off at zero, and lines that add up to nothing divide by
zero; `TotalByZero` and `DiscountByZero` are what the comparisons make of that, where `NaN` stands for NaN and the
infinite numbers, which JSON turns into null. So no total is ever negative, but the discount and the unit price
of a line are where its price and the sum have opposite signs (`IsOpposed`, `TypeOK`). The merchant's own numbers
for a line replace the computed ones. Addresses, names and other parts that are treated alike stand as one
field each.

### `Setup`, `WebhookSetup`, `ResourceSync`, `Configuration`

| variable | in the program |
|---|---|
| `module` | which of the two commands it is |
| `config`, `loaded` | the configuration as it is, and as each running setup loaded it |
| `webhooks` | at Adyen: kind, whether active, HMAC key, credentials, in the order of the list |
| `registrations` | per setup: tasks left (standard webhook, key, pending webhook, for each merchant account), the step, the webhook found |
| `printed` | the key that was logged: nothing else keeps it |
| `resources`, `syncs` | the types and API extensions with version and content; per setup the step and the version fetched |
| `mishaps` | how many faults and changes of the configuration there were (bounded by `MaxMishaps`) |
| `disturbed`, `refused`, `confused` | histories: setups that met one with another configuration; setups of which Adyen refused a request whose answer they did not look at; whether setups overlapped, or a list was refused |

Each request is one step, and it may fail, or do its work and lose the answer (`RegistrationFails`,
`SyncFails`). Three answers are not looked at, and each is a step of its own, since the setup then goes on
as if all were well: an error instead of a list looks like an account without webhooks (`RefuseList`), an
activation (`RefuseActivation`) and a key (`RefuseHmac`). An existing webhook with credentials is updated by
PATCH, and the answer is checked (`UpdateWebhook`); one without credentials is activated by a POST to the
same URL, and the answer is not (`ActivateWebhook`). Whether Adyen accepts that POST is not in this
repository, so the model has both: `RefuseActivation` is not counted as a mishap, Adyen may refuse every
one. Resources are written with the version that was fetched; a conflict ends the setup. The webhooks are
registered one after the other, then the resources: those of the notification module one after the other,
those of the extension in parallel (`CanSync`). The operator starts a setup again when it failed or the
configuration has changed (`Start`), at any time, takes over a key that was printed (`TakeOverKey`), and
rotates credentials or switches features (`Reconfigure`).

A text in which colons matter is the sequence of its parts between the colons, so the two modules'
different ways of splitting credentials (`HasValidBasicAuthentication`: at the first colon;
`HasValidAuthorizationHeader`: the first two parts) are modelled by what they do. Flags are read in four
ways, and the model has all four.

### The two promises

`AtomicPayments` has no invocations, no copies of payments and no conflicts. A step processes one
delivered notification on a payment as it is then, or reports one that the payment already reflects, or
stores the extension's answer once. That `NotificationHandler` implements it (`UpdatesAreAtomic`) says
that everything concurrent in it, lookups, versions, two retry loops, crashes, comes to nothing else.

`BatchDelivery` has no requests. An attempt is made at an item only when all due items in front of it
have been dealt with; a batch is acknowledged at its end or when one of its items cannot be dealt with.

## Runs

| run | property | what it shows |
|---|---|---|
| `race` | `OneTransactionPerReference`, `ReportedIsReflected`, `InteractionsAreDistinct`, `StatesAreAnnounced`, `ModificationFindsPayment`, `UpdatesAreAtomic`, `TransactionsMoveForward` | two handlers; a failed and a successful authorisation of one reference, or a capture and its failure on a payment with a charge that has no reference yet; three deliveries, of any of them |
| `extension` | `TypeOK`, `OneTransactionPerReference`, `WaitsForResponse`, `UpdateCallsAreBounded`, `UpdatesAreAtomic`, `EveryInvocationEnds` | webhooks before, during and after the answer to a makePayment that may fail and be repeated any number of times; both retry loops end |
| `delivery` | `TypeOK`, `AcknowledgedIsSettled`, `InOrder`, `EventuallyAcknowledged`, `DeliversInOrder` | three batches that have each kind of item, two parallel requests; the promise is kept, and no batch is repeated for ever |
| `updates` | `TypeOK`, `ReferenceIsOfTransaction`, `ModifiedAfterAuthorisation`, `ModificationExecutedOnce`, `OneTransactionPerDetails`, `KeyedRetryIsSafe`, `TransactionsOnlyAdvance` | a payment with details, charge, refunds (one with the merchant's own key), cancellation, an update of the amount and a donation in three updates; answers lost and in any order, rejected updates repeated, authorisations that recover, transactions found again and added by notifications |
| `setup` | `TypeOK`, `SuccessIsEffective`, `OneWebhookEach`, `ConfiguredKeyIsCurrent`, `EventuallySetUp` | two setups of either module that overlap, fail and are repeated, with credentials rotated and keys taken over in between |
| `cart` | `TypeOK`, `DiscountIsSpread`, `TotalsAddUp`, `TaxLinesAddUp` | carts of three lines of nine kinds, one of them negative, each discount, each way of rounding; lines with tax of one to five units |

Runs that are expected to be violated, one per finding:

| run | property | the code |
|---|---|---|
| `redelivery` | `InteractionsAreDistinct` | With `removeSensitiveData`, the default, the stored text differs from the delivered one; "check if the interfaceInteraction is already on payment or not" (`notification.handler.js:264`) never finds it. |
| `late_failure` | `ModificationFindsPayment` | `if (success)` holds for the string "false": a failed attempt reported late rewrites the payment's key, and the refund of the successful attempt finds no payment (ADR 0011: "It is possible to lookup payment for different transaction throughout the whole payment process"). |
| `amount_planned` | `PaidAsPlanned` | Once a makePayment is logged the validation reads the log, in which it finds no amount: a second request for any amount is sent ("The `amount` value in `makePaymentRequest` custom field must have the same value as `payment.amountPlanned`", `AdvancedCheckoutFlowIntegrationGuide.md:276`). |
| `untaxed` | `UnitPriceIsBasePrice` | For a line without tax the price of one unit is taken for the line's total and divided by the quantity: three units of 2 cents get two thirds of a cent ("Unit price (calculated from taxed price if available, otherwise from base price)", `WebComponentsIntegrationGuide.md:577`). |
| `retried_charge` | `RetryIsSafe` | The generated key of a charge is the transaction's id, and a rejected update that is sent again adds a transaction with a new id: Adyen captures twice ("it would be possible for users to retry refund and capture requests without any knowledge of the idempotency key", ADR 0010). |
| `second_amount` | `AnswerIsToRequest` | The key of an operation depends on the payment and the operation's name only: a second update of the amount gets Adyen's answer to the first and is not executed ("To do `amountUpdatesRequest` multiple times, you need to remove the custom field `amountUpdatesResponse`", `UpdateAmountAndExtendAuthorisation.md:221`). |

`KeyedRetryIsSafe` in `updates` is the part of `RetryIsSafe` that holds: a key of the merchant's survives the
repetition of a rejected update.

`InteractionsAreDistinct` holds in `race`, where the text is stored as delivered: there the check
does its work through races, lost answers and crashes. The two runs together say that the check
itself is right and that its input is wrong.

Each property of a passing run has a mutant, a plausible bug defined in front of the definition it
would replace, with which TLC finds the property violated.

### Bounds

- **Handlers 2.** Handlers interact only through a payment and its version. One that is behind
  cannot tell one other writer from several; `OtherWrite` adds a third.
- **`MaxRetry` 2 (1 in `race`) for 7, `MaxUpdateRetry` 1 for 20.** The loops treat all rounds alike; with these
  values a first and a last round, and the attempt of the catch block, exist in both loops. The theorems hold
  for all values.
- **`MaxDeliveries` 3 (`race`), 2 (`extension`).** Deliveries of all notifications together: both answers and
  one of them again, in any order, or one of them three times. Two different notifications are needed for a race of
  different states of one reference, and a second delivery for every question of repetition.
- **`MaxOtherVersion` 2.** A foreign write between lookup and update. Handlers and the extension write
  beyond it. In `extension` (1) the extension itself is the other writer. Its repetitions are not bounded.
- **One payment.** The theorems are for any number. Matching among several payments is left to the
  plan.
- **Updates 3 in `ExtensionHandlers`.** They are interchangeable (symmetry), and what an update
  does depends on the payment it got and on the keys Adyen knows. Three are enough for a payment,
  a transaction, and an update that finds it again or repeats it, before or after it is settled, and one of
  them may be the notification module's. Each
  update is sent once; the merchant's repetition is another update with the same change. The
  theorems are for any number of updates and any changes.
- **`MaxNotifiedVersion` 3.** Notifications are stored while the payment is below this version: up to three in a
  row, or one before, between and after two updates of the merchant's.
- **Setups 2, one merchant account, one project, three resources.** Accounts and projects are done one
  after the other or are independent of each other. One account has all three tasks. The resources are
  the type of the notification module, and a type and the API extension, which the extension's setup
  works on in parallel. Two setups suffice for one to meet another's
  half-done work. Three configurations: HMAC on and credentials without a colon; HMAC off, with a
  colon; credentials that are incomplete. None has `enableHmacSignature` as the boolean `false`: with it the
  service does not start, however often the setup is repeated (the hazard at `config.js:224`).
- **`MaxMishaps` 2.** A fault, and a change of the configuration or a second fault. A fault of the
  repetition is like one of the first run.
- **`HmacKeys` 6.** Enough that one is always fresh.
- **Carts of three lines, prices -2–5, discount 0–4 and not more than the lines cost.** Errors of rounding add up
  when lines round alike, which takes two or three. The discount can exceed what the code takes for the sum, as it
  takes one unit for several; the sum can be zero or negative. The theorems are for any cart.
- **Requests 2**, batches of two or three items with each kind of item in front of and behind others.

`CHECK_DEADLOCK FALSE` everywhere: when all deliveries are used up, or all batches acknowledged, the
system really stops; in `ExtensionHandlers`, when all updates are used up, in `CartMapping`, when the
cart is mapped, in `Setup`, when all is set up and no mishaps are left.

### Fairness

`FairSpec` of `NotificationHandler`: weak fairness of the steps of each invocation (`Step \/ Leave`).
Node's event loop goes on with an invocation when its call has ended, and a call ends, with an answer
or an error, as the client has time limits. Which of the outcomes it is, is left open: conflicts and
failures may repeat for ever. No fairness of the extension, of other clients or of Adyen.

`FairSpec` of `WebhookDelivery`: a request that is served goes on (weak), and Adyen does not forget a
batch (strong, as requests may be taken again and again by other batches: Adyen's queue repeats each
batch for itself). That instances stop breaking and commercetools stops failing is not fairness but
the hypothesis `Recovers` of the property.

`FairSpec` of `Setup`: weak fairness of each setup's steps, as the command awaits its requests and each
ends, and of `Start` and `TakeOverKey`: an operator repeats a command that has failed, or when the
configuration was changed, and puts the key that a setup has logged into the configuration, without which the
service does not start. Faults are not excluded by fairness but by their number.

## Theorems

All for any number of handlers, payments, notifications, batches, requests, updates, setups, merchant
accounts and projects, for any limits of the retry loops, any configurations and any carts.

| theorem | property |
|---|---|
| `NotificationHandlerProofs!TypeCorrect` | `TypeOK` |
| `NotificationHandlerProofs!NoDuplicateTransaction` | `OneTransactionPerReference` |
| `NotificationHandlerProofs!NoLostNotification` | `ReportedIsReflected` |
| `NotificationHandlerProofs!ForwardOnly` | `TransactionsMoveForward` |
| `NotificationHandlerProofs!ImplementsAtomicUpdates` | `UpdatesAreAtomic` |
| `NotificationFactsProofs!NoInventedState` | `StatesAreAnnounced` |
| `NotificationFactsProofs!StoredOnce` | `InteractionsAreDistinct`, if `TextsAreStored` and `StartDistinct` |
| `NotificationFactsProofs!ResponseIsAwaited` | `WaitsForResponse` |
| `NotificationFactsProofs!CallsAreBounded` | `UpdateCallsAreBounded` |
| `NotificationFactsProofs!ModificationsFindPayments` | `ModificationFindsPayment`, if `OneAttemptEach` |
| `WebhookDeliveryProofs!TypeCorrect` | `TypeOK` |
| `WebhookDeliveryProofs!NothingAcknowledgedTooEarly` | `AcknowledgedIsSettled` |
| `WebhookDeliveryProofs!ItemsInOrder` | `InOrder` |
| `WebhookDeliveryProofs!ImplementsDelivery` | `DeliversInOrder` |
| `ExtensionHandlersProofs!ModificationIsExecutedOnce` | `ModificationExecutedOnce`, if `KeysAreGiven` |
| `ExtensionHandlersProofs!TransactionsAdvance` | `TransactionsOnlyAdvance` |
| `ExtensionReferencesProofs!AuthorisedFirst` | `ModifiedAfterAuthorisation` |
| `ExtensionReferencesProofs!TypeCorrect` | `TypeOK` |
| `ExtensionReferencesProofs!RetriesAreSafe` | `KeyedRetryIsSafe`, if `IntentionsShareKeys` |
| `ExtensionReferencesProofs!ReferencesAreOfTransactions` | `ReferenceIsOfTransaction`, if `KeysAreSeparate` |
| `ExtensionReferencesProofs!DetailsYieldOneTransaction` | `OneTransactionPerDetails`, if `KeysAreSeparate` and `OperationsHaveOwnKeys` |
| `CartMappingProofs!DiscountIsSpreadOver` | `DiscountIsSpread` |
| `CartMappingProofs!LineTotalsAddUp` | `TotalsAddUp` |
| `CartMappingProofs!TaxLineAmountsAddUp` | `TaxLinesAddUp` |
| `CartMappingProofs!TypeCorrect` | `TypeOK` |
| `SetupProofs!TypeCorrect` | `TypeOK`, if `KeysNeverRunOut` |
| `SetupProofs!OneWebhookOfEach` | `OneWebhookEach` |
| `SetupProofs!TakenOverKeyStays` | `ConfiguredKeyIsCurrent` |
| `SetupProofs!SuccessStaysEffective` | `SuccessIsEffective`, if `UsernamesHaveNoColon` and `KeysNeverRunOut` |

**Assumptions.** The named ASSUMEs of the modules: types of the constants, `NoValue` distinct from
the values it stands in for, at least one retry, `InitialAssumption` (above), and those of `Setup`: each
merchant account is listed once; the operator has no HMAC key before a setup has printed it; at first there
is at most one webhook of a kind with an account, and a pending one has complete credentials. TLC evaluates
them for the instances. What a theorem needs beyond that is a hypothesis of its own with a name, about what
the code leaves to the merchant and the operator: the arguments below say why it is needed. Except for
`KeysNeverRunOut`, which no finite instance has, the hypotheses hold in the runs that check the properties.

**The argument for `NotificationHandler`.** None of the safety properties is inductive: a handler
that holds an arbitrary old payment could add anything. The inductive invariant `IInv` adds that what
a handler holds (`fetched`, `current`) is an earlier or equal state of the stored payment: its version
is not greater (`Newer`), and if the versions are equal the payments are the same. Then an update
that commercetools accepts was calculated from the payment it is applied to, and the lemmas of
`PaymentUpdateProofs` about one update apply: it keeps references distinct, moves states forward,
extends the interactions, and leaves the notification reflected. `ReportedIsReflected` is preserved because
being reflected is preserved by every extension of a payment (`ExtendsReflects`). The well-founded order behind
`First`, the index `_.find` returns, comes from the library.

The answer of a makePayment is added without a lookup, so `IInv` says why it is new (`AnswerIsNew`): while
the first call of a payment is under way and the payment still has the version of the call, nobody has stored
the reference that Adyen answers with; otherwise commercetools refuses the answer. A repeated call has no such
excuse. The position of its answer (`RepeatedAnswer`) is the only one that references are not distinct at
(`DistinctReferencesBut`), and it never moves, as transactions are only added at the end.

That it implements `AtomicPayments` follows from the same invariant and one more, `Causes`: what an
invocation works on has been delivered, and while a makePayment is in flight its payment has no answer. An update that is accepted is applied to
the payment it was calculated from, so it is a step `Process`; one that is refused, and every lookup,
wait, crash and retry, changes nothing the promise speaks of; an invocation that finds nothing to do
reports what the payment reflects.

`NotificationFactsProofs` rests on that: a payment changes by one notification that was delivered, by the
extension's answer, or not in a way that matters (`StepChangesPayments`). So each new state of a transaction
was announced, and what was announced stays announced. `StoredOnce` has two hypotheses: that the stored text
is the delivered one (`TextsAreStored`), without which run `redelivery` shows the contrary, and that
interactions are distinct at the start.

`ResponseIsAwaited` is about one invocation: while it waits, what it has fetched lacks a response, and responses
stay (`ResponsesStay`), so the only way on to an update is a response or the last attempt (`AllWait`). For
`CallsAreBounded` the attempts are numbered by the two counters as digits: the inner loop counts within a round of
the outer, which resets it, and each update is sent under a greater number than the one before (`ThrownIsLater`).

`ModificationFindsPayment` does not hold in general: run `late_failure` has a payment with two attempts, and the
failed one, reported late, takes the key. `OneAttemptEach` says what the code relies on: all notifications and
answers that can reach a payment, by its key, its merchant reference or the reference of its attempt, are about
the same attempt; only attempts are modified; and when an attempt is modified its reference is the payment's key.
Then each update sets the key to what it is (`KeepsAttempt`), provided that an invocation updates no other
attempt's payment, and the lookup by keys finds a payment (`Finds`): each is needed for the other, through
lookups, refetches and repetitions.

**The argument for `WebhookDelivery`.** `IInv` adds, for each request, that all items behind it are
settled and that an answer `[accepted]` stands for a batch that may be acknowledged. Settling is
monotone, so parallel requests do not disturb each other; there is one lemma for each way a request
changes (it goes on, it answers, it starts or ends).

**The argument for `ExtensionHandlers`.** Adyen does nothing twice under one key (`KeyExecutedOnce`),
so the question is whether two calls for one transaction have one key. A transaction occurs in the
stored payment, in copies of it that updates got earlier, and as a number in calls; `OneKeyPerNumber`
says that wherever a number occurs it stands for the same key, `NumbersAreUsed` that a new
transaction's number occurs nowhere yet, and `CallsAreKeyed` that a call has the key its handler gives
it. `KeysAreGiven`, that each transaction has a key of its own or `generateIdempotencyKey` is on, is a
hypothesis: without it the property fails, and the code leaves it to the configuration.
`TransactionsAdvance` adds three facts (`ProgressInv`). Transactions have different numbers; one without
an answer has no reference; and what an open update has read is an earlier state of the payment: at the
same version the payment's transactions are the copy's, advanced. The answers of an update change only
transactions that were initial in its copy, and commercetools stores them only if the version is still
that of the copy. A notification adds a transaction with a new number, or moves the state of the first one
that has its reference forward (`NotifiedAdvances`): a success may still turn into a failure, and the failure
of an authorisation into a success. `AuthorisedFirst` adds that every successful authorisation, in the payment,
in a copy or in an answer under way, goes back to one that Adyen executed, at once or by recovering
(`AuthorisedInv`).

The references are about what Adyen answers. It answers a key it knows with what it did under that key,
whoever asks. So `ProperInv` says that whatever is stored or under way has a key and a reference of the right
kind, and the origins say that a reference goes back to what Adyen executed for a call of the same
transaction. A transaction that a notification or an answer has added (`by`) has the reference of an execution
of its kind; only one of the merchant's must have that of its own call. Three hypotheses are about the keys that a merchant chooses, in `idempotencyKey`, which is
one field for all operations. `KeysAreSeparate`: it is not the key of a transaction of another kind, and none that
the extension makes; otherwise Adyen answers a refund with the charge it did under that key, and the refund gets
the reference of the charge. `OperationsHaveOwnKeys`: without a key of the merchant for the operations; with
one, submitDetails is answered with the makePayment. `IntentionsShareKeys`: transactions of one kind and for
one amount have the same key, if they have one, as a merchant that repeats an update gives it again. The code
checks none of them.

**The argument for `CartMapping`.** A rounded share is at most half a cent off, whichever way a half goes
(`Shares`). By induction over the steps, after n lines the shares, times the total of the cart, are within
n halves of the total of the discount times the sum of the first n prices. When all lines are done that sum
is the total. It may be negative, as the prices of custom line items may, but it is not zero where shares are
computed, so its size cancels (`Size`). The totals are the prices less the shares, unless a line is cut
off at zero; where no price is negative (`NothingNegative`), a discount that does not exceed the cart gives no
line a share above its price. `TotalsAddUp` compares with what the lines cost, not with the prices that the code
reads, and those agree for lines that are priced exactly (`IsExact`, `CostSoFar`): taxed ones, and untaxed ones
of one unit. The type invariant needs the sign of a share, which is that of price times total
(`RoundIsNatural`, `ShareIsNatural`). The invariant also has that each partial sum adds the price of one line (`SumsAreSums`), and that lines are mapped only
when all have been summed up (`StepsInOrder`).

The tax lines need no induction: amount and tax per unit are each rounded, at most half a cent off, so
their sum is at most one off.

**The argument for `BatchDelivery`** is `InOrder` and `AcknowledgedIsSettled`: an item that is dealt with
has all due items in front of it handled, and an answer `[accepted]` stands for a batch that may be
acknowledged.

**The argument for `Setup`.** A setup works through the list of tasks that `TasksOf` makes of its
configuration, account by account. That this list is a plan (`IsPlanFor`: each task once, each account's tasks
there, a key generated right after its webhook was found) is shown by going back through the accounts to
the first at which it would fail. `TypeInv` adds where each setup is: the tasks left are the rest of a plan,
and the webhook it has found is one of the list and of the right kind (`Place`). Webhooks are only added
at the end and keep their kind (`HooksAfter`, `PositionsStay`), so a setup's position still fits after others'
requests. `KeysNeverRunOut` is needed since setups that overlap generate any number of keys: a fresh one must
exist each time, or what is generated would not be a key.

`OneWebhookOfEach` and `TakenOverKeyStays` share an invariant of setups that are not confused (`KeysInv`): only
one is running; there is at most one webhook of a kind; the key in the configuration is that of the standard
webhook; and a setup that is about to generate a key has loaded a configuration without one. A setup that
fails may leave a webhook behind, or a key whose printing was lost: the next one finds the webhook by its kind
and replaces the key.

`ProgressInv` says of each setup that is neither disturbed nor refused a request that what its configuration needs is there or among the tasks it
has left, and that its resources have their content as far as it has come. Another setup of the same
configuration writes what is there already, so what is achieved stays (`AchievedStays`), also where setups
overlap. That the service accepts what Adyen sends is then a fact about texts: the notification module splits a
header at the first colon. A user name with a colon therefore never matches, and `UsernamesHaveNoColon` excludes
it, as RFC 7617 does; the code does not check it. A password may have colons, except the API extension's,
whose validation the property has as a condition.

Two more facts are about what Adyen can send. `ActiveInv`: setups create active webhooks, so only the first
standard one can be inactive (`InactiveIsFirst`); a setup activates the first, and creates one only if there is
none to activate or its list was refused (`WritesFirst`). `SignedInv`: if a key was printed, is in the
configuration or was loaded by a setup, a standard webhook has one (`KeyIsHeld`, `IsSigned`); keys are replaced,
never taken away. So where signatures are verified, a setup that was refused nothing leaves a webhook that signs.

**Only model-checked.** Liveness (`EveryInvocationEnds`, `EventuallyAcknowledged`, `EventuallySetUp`), which is out
of the prover's reach. Every other property of a passing run is a theorem, with the hypotheses of the table.

## Not modelled

Servers, routing, logging, health check, the SDK's token cache and queue, and where the JSON of the
configuration comes from (`config-loader.js`): I/O without state of their own. Texts, timestamps, amounts on
transactions, localized names, the fields of US domestic payments and the age of an account. The donation
campaign that follows an authorised payment, and the name of the payment method that the extension
stores. How a signature is computed (whether it is right is an input of `WebhookDelivery`). Bodies that are not
JSON, requests that are not POST.

In `ExtensionHandlers` the payments that a shopper makes in a session reach the extension only as a
notification; the notifications of donations and chargebacks are left out, and so is a merchant reference for
each transaction.

Some hazards are known, and modelled, and no property decides them:

- A makePayment that is repeated after a notification has added its transaction adds it again.
  `OneTransactionPerReference` allows this one and no other.
- Whether Adyen accepts the POST that activates a webhook. Nothing in the repository says so, thus the model has
  both outcomes, and `SuccessIsEffective` and `EventuallySetUp` name the refusal as their exception.
- A `donationRequest` stays set, so later updates of the payment go to the donation handler.
- `enableHmacSignature` is read as the boolean in one place and as the string in another, and the extension
  compares credentials only up to the second colon. `Configuration` has both, and the properties about the setup
  state them as conditions.

## Plan

1. Several payments in `MCNotificationHandler`: keys and merchant references that collide.
2. `ExtensionHandlers`, extended: the donation campaign, payments in a session that the shopper makes
   without the extension, a merchant's key that operations share.
3. Proofs: that a modification finds its own payment, when keys of several payments collide.
