---------------------------- MODULE WebhookSetup ----------------------------
(***************************************************************************)
(* Registering the webhooks of the notification module with Adyen's        *)
(* Management API, one merchant account after the other: the standard      *)
(* webhook, a key for its HMAC signatures, and the generic pending webhook *)
(* with the credentials that protect it.  Every request is a step of its   *)
(* own: it may fail, or do its work and lose the answer; of three of them   *)
(* the status of the answer is not looked at.                              *)
(***************************************************************************)
EXTENDS Configuration

CONSTANTS
    Setups,         \* runs of the setup command that can overlap
    MerchantOrder,  \* the merchant accounts as the configuration lists them
    HmacKeys        \* enough keys to always have one that nobody holds

VARIABLES
    webhooks,       \* Adyen: the webhooks of each merchant account, in order
    registrations,  \* for each setup its requests to Adyen
    printed         \* the key that was last logged for each merchant account

webhookVars == <<webhooks, registrations, printed>>

\* A key differs from none.
ASSUME KeysAssumption == NoValue \notin HmacKeys

----------------------------------------------------------------------------
(* Tasks *)

\* Mutant: a key is generated by every setup.
TasksWithKeyFor(m, merchant) ==
    LET TaskFor(kind, authentication) ==
            [kind |-> kind, merchant |-> m, authentication |-> authentication]
    IN  <<TaskFor("standard", NoValue)>>
        \o (IF IsHmacEnabled(merchant) THEN <<TaskFor("hmac", NoValue)>> ELSE <<>>)

\* What is to be done for a merchant account, in order; the webhook of a task
\* has the credentials of the configuration.  No base URL, no webhook.
TasksFor(m, merchant) ==
    LET TaskIf(condition, kind, authentication) ==
            IF condition
            THEN <<[kind |-> kind, merchant |-> m, authentication |-> authentication]>>
            ELSE <<>>
    IN  IF ~merchant.hasBaseUrl
        THEN <<>>
        ELSE TaskIf(TRUE, "standard", NoValue)
             \o TaskIf(IsHmacEnabled(merchant) /\ merchant.secretHmacKey = NoValue,
                       "hmac", NoValue)
             \o TaskIf(IsPendingEnabled(merchant), "pending", merchant.authentication)

\* ensureAdyenWebhooksForAllProjects
TasksOf(config) ==
    LET Upto[i \in 0..Len(MerchantOrder)] ==
            IF i = 0 THEN <<>>
            ELSE Upto[i - 1] \o TasksFor(MerchantOrder[i],
                                         config.adyen[MerchantOrder[i]])
    IN  Upto[Len(MerchantOrder)]

Task(s) == Head(registrations[s].todo)

\* The requests of a setup that still has something to do.
At(s, pc) ==
    /\ registrations[s].pc = pc
    /\ registrations[s].todo # <<>>

FirstStepOf(todo) ==
    IF todo = <<>> THEN "done" ELSE IF Head(todo).kind = "hmac" THEN "hmac" ELSE "list"

\* On to the next task; the key of an "hmac" is that of the webhook found.
GoOnWith(s, found) ==
    LET todo == Tail(registrations[s].todo)
        pc == FirstStepOf(todo)
    IN  registrations' = [registrations EXCEPT ![s] =
            [pc |-> pc, todo |-> todo,
             found |-> IF pc = "hmac" THEN found ELSE 0]]

\* Mutant: the error is logged and not thrown.
GoOnAfterError(s) ==
    registrations' = [registrations EXCEPT ![s] =
        [pc |-> "done", todo |-> <<>>, found |-> 0]]

FailRegistration(s) ==
    registrations' = [registrations EXCEPT ![s] =
        [pc |-> "failed", todo |-> <<>>, found |-> 0]]

----------------------------------------------------------------------------
(* ensureAdyenWebhook *)

Positions(m, kind) == {i \in DOMAIN webhooks[m] : webhooks[m][i].kind = kind}

\* Mutant: only an active webhook is one that exists.
FindActiveWebhook(m, kind) ==
    LET active == {i \in Positions(m, kind) : webhooks[m][i].active} IN
    IF active = {} THEN 0
    ELSE CHOOSE i \in active : \A j \in active : i <= j

\* The first one of the list, 0 if there is none.
FindWebhook(m, kind) ==
    IF Positions(m, kind) = {} THEN 0
    ELSE CHOOSE i \in Positions(m, kind) : \A j \in Positions(m, kind) : i <= j

SetFound(s, found) ==
    registrations' = [registrations EXCEPT ![s].pc = "write", ![s].found = found]

\* Mutant: a webhook that is there and active needs no update.
ListWebhooksAndTrust(s) ==
    /\ At(s, "list")
    /\ LET found == FindWebhook(Task(s).merchant, Task(s).kind) IN
       IF found # 0 /\ webhooks[Task(s).merchant][found].active
       THEN GoOnWith(s, found)
       ELSE SetFound(s, found)
    /\ UNCHANGED <<webhooks, printed>>

\* An active standard webhook needs no request; the credentials of a pending
\* one are written in any case.
ListWebhooks(s) ==
    /\ At(s, "list")
    /\ LET found == FindWebhook(Task(s).merchant, Task(s).kind) IN
       IF /\ found # 0
          /\ Task(s).authentication = NoValue
          /\ webhooks[Task(s).merchant][found].active
       THEN GoOnWith(s, found)
       ELSE SetFound(s, found)
    /\ UNCHANGED <<webhooks, printed>>

\* The status of the answer is not looked at: an error in JSON has no data,
\* and looks like an account without webhooks.
ListIsRefused(s) ==
    /\ At(s, "list")
    /\ SetFound(s, 0)
    /\ UNCHANGED <<webhooks, printed>>

AddWebhook(s) ==
    webhooks' = [webhooks EXCEPT ![Task(s).merchant] = Append(@,
        [kind |-> Task(s).kind, active |-> TRUE, hmacKey |-> NoValue,
         authentication |-> Task(s).authentication])]

CreateWebhook(s) ==
    /\ At(s, "write")
    /\ registrations[s].found = 0
    /\ AddWebhook(s)
    /\ GoOnWith(s, Len(webhooks[Task(s).merchant]) + 1)
    /\ UNCHANGED printed

Activated(webhook, authentication) ==
    IF authentication = NoValue
    THEN [webhook EXCEPT !.active = TRUE]
    ELSE [webhook EXCEPT !.active = TRUE, !.authentication = authentication]

WriteWebhook(s) ==
    webhooks' = [webhooks EXCEPT ![Task(s).merchant][registrations[s].found] =
        Activated(@, Task(s).authentication)]

\* PATCH: activation with credentials, whose answer is checked.
UpdateWebhook(s) ==
    /\ At(s, "write")
    /\ registrations[s].found # 0
    /\ Task(s).authentication # NoValue
    /\ WriteWebhook(s)
    /\ GoOnWith(s, registrations[s].found)
    /\ UNCHANGED printed

\* POST to the URL of the webhook, when there are no credentials.  Whether
\* that activates it is up to Adyen.
ActivateWebhook(s) ==
    /\ At(s, "write")
    /\ registrations[s].found # 0
    /\ Task(s).authentication = NoValue
    /\ WriteWebhook(s)
    /\ GoOnWith(s, registrations[s].found)
    /\ UNCHANGED printed

\* The status of the answer is not looked at.
ActivationIsRefused(s) ==
    /\ At(s, "write")
    /\ registrations[s].found # 0
    /\ Task(s).authentication = NoValue
    /\ GoOnWith(s, registrations[s].found)
    /\ UNCHANGED <<webhooks, printed>>

----------------------------------------------------------------------------
(* ensureAdyenHmac *)

KeysOf(m) == {webhooks[m][i].hmacKey : i \in DOMAIN webhooks[m]}

\* A key of nobody: neither a webhook's, nor printed, nor configured.
FreshKey(configured) ==
    CHOOSE key \in HmacKeys :
        \A m \in Merchants : key \notin KeysOf(m) \cup {printed[m], configured[m]}

SetHmacKey(s, configured) ==
    webhooks' = [webhooks EXCEPT ![Task(s).merchant][registrations[s].found].hmacKey =
        FreshKey(configured)]

\* The key is logged; the copy of the configuration it is put into is not used.
GenerateHmac(s, configured) ==
    /\ At(s, "hmac")
    /\ SetHmacKey(s, configured)
    /\ printed' = [printed EXCEPT ![Task(s).merchant] = FreshKey(configured)]
    /\ GoOnWith(s, registrations[s].found)

\* An error in JSON has no key, and nobody looks.
HmacIsRefused(s) ==
    /\ At(s, "hmac")
    /\ GoOnWith(s, registrations[s].found)
    /\ UNCHANGED <<webhooks, printed>>

----------------------------------------------------------------------------
(* Failures *)

\* A request does not arrive, its answer is lost or an error that is looked
\* at, or the command is stopped.
RegistrationFails(s, configured) ==
    /\ registrations[s].pc \in {"list", "write", "hmac"}
    /\ FailRegistration(s)
    /\ \/ UNCHANGED webhooks
       \/ At(s, "write") /\ registrations[s].found = 0 /\ AddWebhook(s)
       \/ At(s, "write") /\ registrations[s].found # 0 /\ WriteWebhook(s)
       \/ At(s, "hmac") /\ SetHmacKey(s, configured)
    /\ UNCHANGED printed

RegistrationStep(s, configured) ==
    \/ ListWebhooks(s)
    \/ CreateWebhook(s)
    \/ UpdateWebhook(s)
    \/ ActivateWebhook(s)
    \/ GenerateHmac(s, configured)
============================================================================
