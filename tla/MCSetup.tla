------------------------------ MODULE MCSetup ------------------------------
(***************************************************************************)
(* Configurations, webhooks and resources for model checking Setup.        *)
(***************************************************************************)
EXTENDS Setup

CONSTANTS m1, p1, s1, s2

Authentication(password) ==
    [scheme |-> "basic", username |-> <<"user">>, password |-> password]

\* The second has a colon in its password, the third is incomplete.
First == Authentication(<<"first">>)
Second == Authentication(<<"sec", "ond">>)
Incomplete == Authentication(<<>>)

Merchant(hmac, basicAuth, authentication) ==
    [hasBaseUrl |-> TRUE, enableHmacSignature |-> hmac, secretHmacKey |-> NoValue,
     enableBasicAuth |-> basicAuth, authentication |-> authentication,
     ctpProjectKey |-> IF authentication = NoValue THEN NoValue ELSE p1]

Config(merchant, basicAuth, authentication) ==
    [adyen |-> [m \in Merchants |-> merchant], basicAuth |-> basicAuth,
     commercetools |-> [p \in Projects |-> authentication]]

SomeConfigurations ==
    {Config(Merchant("undefined", "'true'", First), "true", First),
     Config(Merchant("'false'", "true", Second), "'true'", NoValue),
     Config(Merchant("undefined", "true", Incomplete), "true", NoValue)}

SomeResources ==
    {<<p, key>> : p \in Projects,
                  key \in {"notification", "transaction", ApiExtension}}

Older == {<<"older">>}

Order == <<m1>>

\* None, or a standard webhook that was switched off and a pending webhook
\* with credentials that were rotated since.
SomeWebhooks ==
    LET Hook(kind, active, authentication) ==
            [kind |-> kind, active |-> active, hmacKey |-> NoValue,
             authentication |-> authentication]
    IN  {<<>>,
         <<Hook("standard", FALSE, NoValue), Hook("pending", TRUE, Second)>>}
============================================================================
