------------------------------- MODULE Setup -------------------------------
(***************************************************************************)
(* The setup commands: setupNotificationResources registers the webhooks   *)
(* and then brings the interaction type of each project up to date, one    *)
(* after the other; setupExtensionResources works on the custom types and  *)
(* the API extension of all projects at once.  An operator runs a command  *)
(* again when it has failed or the configuration has changed, possibly     *)
(* while another run goes on, and takes over the key that a run prints.    *)
(***************************************************************************)
EXTENDS WebhookSetup

CONSTANTS
    Configurations,  \* what the operator may configure
    Resources,       \* pairs of a project and the key of a resource
    InitialContents, \* what a resource can contain before
    InitialWebhooks, \* the webhooks a merchant account can have before
    MaxMishaps       \* bound: requests that fail and changes of the configuration

VARIABLES
    module,      \* the module that is set up
    config,      \* its configuration
    loaded,      \* for each setup the configuration it works with
    resources,
    syncs,
    mishaps,     \* number of requests that failed and of changes of the configuration
    disturbed,   \* history: setups that met one with another configuration
    refused,     \* history: setups of which Adyen refused a request without
                 \* their looking
    confused     \* history: setups have overlapped, or a list was refused

Sync == INSTANCE ResourceSync
            WITH Contents <- InitialContents \cup {<<"current">>} \cup
                    {AuthorizationHeader(c.commercetools[p]) :
                        c \in Configurations, p \in Projects}

configVars == <<module, config, loaded>>

vars == <<webhookVars, resources, syncs, configVars, mishaps, disturbed, refused,
          confused>>

----------------------------------------------------------------------------
(* Constants *)

Webhook ==
    [kind: {"standard", "pending"}, active: BOOLEAN,
     hmacKey: HmacKeys \cup {NoValue},
     authentication: {NoValue} \cup
        {c.adyen[m].authentication : c \in Configurations, m \in Merchants}]

\* The merchant accounts and the projects are the keys of objects, listed once.
ASSUME MerchantsAssumption ==
    /\ MerchantOrder \in Seq(Merchants)
    /\ \A m \in Merchants : \E i \in DOMAIN MerchantOrder : MerchantOrder[i] = m
    /\ \A i, j \in DOMAIN MerchantOrder : MerchantOrder[i] = MerchantOrder[j] => i = j

ASSUME ResourcesAssumption == \A r \in Resources : r[1] \in Projects

IsAuthentication(authentication) ==
    \/ authentication = NoValue
    \/ /\ authentication.username \in Seq(STRING)
       /\ authentication.password \in Seq(STRING)

\* The operator has no keys before a setup has printed them.
ASSUME ConfigurationsAssumption ==
    \A c \in Configurations :
        /\ DOMAIN c = {"adyen", "basicAuth", "commercetools"}
        /\ DOMAIN c.adyen = Merchants
        /\ \A m \in Merchants :
              /\ DOMAIN c.adyen[m] = {"hasBaseUrl", "enableHmacSignature", "secretHmacKey",
                                     "enableBasicAuth", "authentication", "ctpProjectKey"}
              /\ c.adyen[m].secretHmacKey = NoValue
              /\ IsAuthentication(c.adyen[m].authentication)
        /\ \A p \in Projects : IsAuthentication(c.commercetools[p])

\* Before the setups there is at most one webhook of a kind, and a pending
\* one is protected.
ASSUME WebhooksAssumption ==
    \A hooks \in InitialWebhooks :
        /\ hooks \in Seq(Webhook)
        /\ \A i \in DOMAIN hooks :
              hooks[i].kind = "pending" => HasCredentials(hooks[i].authentication)
        /\ \A i, j \in DOMAIN hooks : hooks[i].kind = hooks[j].kind => i = j

----------------------------------------------------------------------------
(* Resources of the modules *)

ApiExtension == "extension"

ResourcesOf(mod) ==
    {r \in Resources :
        IF mod = "notification" THEN r[2] = "notification" ELSE r[2] # "notification"}

\* The draft of a type is a file; that of the API extension has the header
\* that commercetools is to send.
DraftOf(r, conf) ==
    IF r[2] = ApiExtension
    THEN AuthorizationHeader(conf.commercetools[r[1]])
    ELSE <<"current">>

----------------------------------------------------------------------------
(* Progress of a setup *)

\* Promise.all of the extension, or one resource after the other.
CanSync(s, r) ==
    /\ registrations[s].pc = "done"
    /\ syncs[s][r].pc \in {"fetch", "write"}
    /\ module = "notification" =>
          \A q \in Resources \ {r} : syncs[s][q].pc \in {"idle", "fetch", "done"}

Running(s) ==
    \/ registrations[s].pc \in {"list", "write", "hmac"}
    \/ \E r \in Resources : CanSync(s, r)

Done(s) ==
    /\ registrations[s].pc = "done"
    /\ \A r \in ResourcesOf(module) : syncs[s][r].pc = "done"

IsLoaded(conf) ==
    IF module = "notification"
    THEN IsNotificationLoaded(conf, TRUE)
    ELSE IsExtensionLoaded(conf)

----------------------------------------------------------------------------
(* Actions *)

\* Nothing keeps two setups from running at the same time.
Start(s) ==
    LET todo == IF module = "notification" THEN TasksOf(config) ELSE <<>>
        others == {t \in Setups \ {s} :
                      registrations[t].pc # "idle" /\ loaded[t] # config}
    IN
    /\ ~Running(s)
    /\ ~Done(s) \/ loaded[s] # config
    /\ IsLoaded(config)
    /\ loaded' = [loaded EXCEPT ![s] = config]
    /\ registrations' = [registrations EXCEPT ![s] =
          [pc |-> FirstStepOf(todo), todo |-> todo, found |-> 0]]
    /\ syncs' = [syncs EXCEPT ![s] = [r \in Resources |->
          IF r \in ResourcesOf(module)
          THEN [pc |-> "fetch", draft |-> DraftOf(r, config)]
          ELSE [pc |-> "idle"]]]
    /\ printed' = [m \in Merchants |-> NoValue]
    /\ disturbed' = (disturbed \ {s}) \cup others
                    \cup (IF \E t \in others : Running(t) THEN {s} ELSE {})
    /\ refused' = refused \ {s}
    /\ confused' = (confused \/ (\E t \in Setups \ {s} : Running(t)))
    /\ UNCHANGED <<webhooks, resources, module, config, mishaps>>

ConfiguredKeys == [m \in Merchants |-> config.adyen[m].secretHmacKey]

Register(s) ==
    /\ RegistrationStep(s, ConfiguredKeys)
    /\ UNCHANGED <<resources, syncs, configVars, mishaps, disturbed, refused, confused>>

\* Adyen may answer so to every activation.
RefuseActivation(s) ==
    /\ ActivationIsRefused(s)
    /\ refused' = refused \cup {s}
    /\ UNCHANGED <<resources, syncs, configVars, mishaps, disturbed, confused>>

SyncResource(s, r) ==
    /\ CanSync(s, r)
    /\ Sync!SyncStep(s, r)
    /\ UNCHANGED <<webhookVars, configVars, mishaps, disturbed, refused, confused>>

Mishap ==
    /\ mishaps < MaxMishaps
    /\ mishaps' = mishaps + 1

RefuseList(s) ==
    /\ Mishap
    /\ ListIsRefused(s)
    /\ refused' = refused \cup {s}
    /\ confused' = TRUE
    /\ UNCHANGED <<resources, syncs, configVars, disturbed>>

RefuseHmac(s) ==
    /\ Mishap
    /\ HmacIsRefused(s)
    /\ refused' = refused \cup {s}
    /\ UNCHANGED <<resources, syncs, configVars, disturbed, confused>>

Interrupt(s) ==
    /\ Mishap
    /\ RegistrationFails(s, ConfiguredKeys)
    /\ UNCHANGED <<resources, syncs, configVars, disturbed, refused, confused>>

SyncResourceFails(s, r) ==
    /\ Mishap
    /\ CanSync(s, r)
    /\ Sync!SyncFails(s, r)
    /\ UNCHANGED <<webhookVars, configVars, disturbed, refused, confused>>

\* The operator puts the key that the last setup has printed into the
\* configuration, once that setup has ended well.
TakeOverKey(m) ==
    /\ \A s \in Setups : ~Running(s)
    /\ \E s \in Setups : Done(s) /\ loaded[s] = config
    /\ printed[m] # NoValue
    /\ config.adyen[m].secretHmacKey = NoValue
    /\ config' = [config EXCEPT !.adyen[m].secretHmacKey = printed[m]]
    /\ UNCHANGED <<webhookVars, resources, syncs, module, loaded, mishaps,
                   disturbed, refused, confused>>

\* Credentials are rotated, or a feature is switched on or off; keys stay.
Reconfigure ==
    /\ Mishap
    /\ \E conf \in Configurations :
          config' = [conf EXCEPT !.adyen = [m \in Merchants |->
              [conf.adyen[m] EXCEPT !.secretHmacKey = ConfiguredKeys[m]]]]
    /\ config' # config
    /\ UNCHANGED <<webhookVars, resources, syncs, module, loaded, disturbed, refused,
                   confused>>

----------------------------------------------------------------------------
(* Specification *)

Init ==
    /\ module \in {"notification", "extension"}
    /\ config \in Configurations
    /\ loaded = [s \in Setups |-> NoValue]
    /\ webhooks \in [Merchants -> IF module = "notification" THEN InitialWebhooks
                                  ELSE {<<>>}]
    /\ registrations = [s \in Setups |->
          [pc |-> "idle", todo |-> <<>>, found |-> 0]]
    /\ printed = [m \in Merchants |-> NoValue]
    /\ \E content \in InitialContents, version \in {0, 1} :
          resources = [r \in Resources |-> [version |-> version, content |-> content]]
    /\ syncs = [s \in Setups |-> [r \in Resources |-> [pc |-> "idle"]]]
    /\ mishaps = 0
    /\ disturbed = {}
    /\ refused = {}
    /\ confused = FALSE

Step(s) ==
    \/ Register(s)
    \/ RefuseActivation(s)
    \/ \E r \in Resources : SyncResource(s, r)

Fault(s) ==
    \/ RefuseList(s)
    \/ RefuseHmac(s)
    \/ Interrupt(s)
    \/ \E r \in Resources : SyncResourceFails(s, r)

Next ==
    \/ \E s \in Setups : Start(s)
    \/ \E s \in Setups : Step(s)
    \/ \E s \in Setups : Fault(s)
    \/ \E m \in Merchants : TakeOverKey(m)
    \/ Reconfigure

Spec == Init /\ [][Next]_vars

\* A setup that runs goes on; the operator runs a command again that has
\* failed or has not seen the configuration, and takes over a key.
FairSpec ==
    /\ Spec
    /\ \A s \in Setups : WF_vars(Step(s)) /\ WF_vars(Start(s))
    /\ \A m \in Merchants : WF_vars(TakeOverKey(m))
----------------------------------------------------------------------------
(* Properties *)

\* The type of every variable.
TypeOK ==
    /\ Sync!SyncTypeOK
    /\ \A m \in Merchants : \A i \in DOMAIN webhooks[m] :
          /\ webhooks[m][i] \in Webhook
          /\ webhooks[m][i].kind = "pending" =>
                HasCredentials(webhooks[m][i].authentication)
    /\ printed \in [Merchants -> HmacKeys \cup {NoValue}]
    /\ disturbed \subseteq Setups /\ refused \subseteq Setups
    /\ \A s \in Setups :
          registrations[s].found \in {0} \cup
              (IF registrations[s].todo = <<>> THEN Nat
               ELSE DOMAIN webhooks[Task(s).merchant])

\* A pending webhook is active, and what it sends is accepted by a service
\* with this configuration.
PendingIsAccepted(m, merchant) ==
    \E i \in Positions(m, "pending") :
        /\ webhooks[m][i].active
        /\ HasValidBasicAuthentication(merchant.authentication,
                                       BasicCredentials(webhooks[m][i].authentication))

\* A standard webhook is active, and signs what it sends if signatures are
\* verified.
StandardIsSetUp(m, merchant) ==
    \E i \in Positions(m, "standard") :
        /\ webhooks[m][i].active
        /\ IsHmacEnabled(merchant) => webhooks[m][i].hmacKey # NoValue

\* What the notification module needs to work with a configuration.
NotificationIsSetUp(conf) ==
    \A m \in Merchants :
        conf.adyen[m].hasBaseUrl =>
            /\ StandardIsSetUp(m, conf.adyen[m])
            /\ IsPendingEnabled(conf.adyen[m]) => PendingIsAccepted(m, conf.adyen[m])

\* The extension accepts what commercetools sends, unless a part of the
\* credentials has a colon.
IsPlain(authentication) ==
    Len(authentication.username) = 1 /\ Len(authentication.password) = 1

ExtensionIsSetUp(conf) ==
    \A r \in Resources :
        LET authentication == conf.commercetools[r[1]] IN
        r[2] = ApiExtension /\ conf.basicAuth = "true" /\ IsPlain(authentication) =>
            HasValidAuthorizationHeader(authentication, resources[r].content)

IsSetUp(conf) ==
    /\ \A r \in ResourcesOf(module) : Sync!IsInSync(r, DraftOf(r, conf))
    /\ IF module = "notification" THEN NotificationIsSetUp(conf) ELSE ExtensionIsSetUp(conf)

\* The service itself starts only with the keys.
CanServe(conf) ==
    IF module = "notification" THEN IsNotificationLoaded(conf, FALSE) ELSE IsLoaded(conf)

\* Safety: a setup that reports success, and of which Adyen refused no
\* request whose answer is not looked at, has left everything as the service
\* with its configuration needs it, whatever earlier, failed and parallel
\* setups of the same configuration did: an active standard webhook, which
\* has a key to sign with if signatures are verified, and credentials that
\* were rotated have reached Adyen and commercetools (the update of an
\* existing webhook is checked, resources are compared and written with
\* their version).
SuccessIsEffective ==
    \A s \in Setups :
        Done(s) /\ s \notin disturbed \cup refused => IsSetUp(loaded[s])

\* Safety: setups that neither overlap nor have their list of webhooks
\* refused never register a second webhook of a kind, however often they
\* fail, lose an answer and are repeated (find before create).
OneWebhookEach ==
    ~confused =>
        \A m \in Merchants, kind \in {"standard", "pending"} :
            \A i, j \in Positions(m, kind) : i = j

\* Safety: a key that the operator has taken over stays the key that Adyen
\* signs with; a later setup does not replace it (the key is generated only
\* when none is configured).
ConfiguredKeyIsCurrent ==
    ~confused =>
        \A m \in Merchants :
            ConfiguredKeys[m] # NoValue =>
                webhooks[m][FindWebhook(m, "standard")].hmacKey = ConfiguredKeys[m]

\* Liveness: requests fail and configurations change only so many times, so
\* repeating the setup ends with all that the configuration needs, and with a
\* configuration that the service starts with (the operator takes over the
\* key), if it can be loaded for the setup.  Or else a setup of this
\* configuration reports success though Adyen refused to list or activate a
\* webhook or to generate a key: nobody looks, and it is not repeated.
EventuallySetUp ==
    <>[](IsLoaded(config) =>
            \/ IsSetUp(config) /\ CanServe(config)
            \/ \E s \in refused : loaded[s] = config)
============================================================================
