--------------------------- MODULE Configuration ---------------------------
(***************************************************************************)
(* What both modules read from ADYEN_INTEGRATION_CONFIG: the flags, the    *)
(* basic authentication, and which configurations are refused at start.    *)
(* The notification module protects pending webhooks with the credentials  *)
(* of a merchant account, the extension its endpoint with the credentials  *)
(* of a commercetools project.                                             *)
(*                                                                         *)
(* A text in which colons matter is the sequence of its parts between the  *)
(* colons; <<>> is a text that is missing or empty.                        *)
(***************************************************************************)
EXTENDS Integers, Sequences

CONSTANTS
    NoValue,    \* an attribute that is not configured
    Projects,   \* the commercetools projects of the configuration
    Merchants   \* its Adyen merchant accounts

\* What is not configured differs from every text.
ASSUME NoValueAssumption == NoValue \notin Seq(STRING)

----------------------------------------------------------------------------
(* Flags *)

\* A flag as it is written: not at all, as a boolean, as a string, or as
\* something else.
Flag == {"undefined", "true", "false", "'true'", "'false'", "other"}

\* _getValueOfBooleanFlag
BooleanFlag(value, default) ==
    CASE value \in {"true", "'true'"} -> TRUE
      [] value \in {"false", "'false'"} -> FALSE
      [] OTHER -> default

\* On unless it is switched off.
IsHmacEnabled(merchant) == merchant.enableHmacSignature \notin {"false", "'false'"}

IsPendingEnabled(merchant) == BooleanFlag(merchant.enableBasicAuth, FALSE)

\* `config.basicAuth || false`, used for its truth: any string counts.
IsBasicAuthEnabled(config) == config.basicAuth \notin {"undefined", "false"}

----------------------------------------------------------------------------
(* Basic authentication *)

HasCredentials(authentication) ==
    /\ authentication # NoValue
    /\ authentication.username # <<>>
    /\ authentication.password # <<>>

\* Mutant: that there is a setting is enough.
IsAuthenticationPresent(authentication, required) ==
    required => authentication # NoValue

\* _validateAuthenticationConfig of both modules
IsAuthenticationValid(authentication, required) ==
    IF authentication = NoValue
    THEN ~required
    ELSE authentication.scheme = "basic" /\ HasCredentials(authentication)

\* What follows "Basic " in a header, decoded.
BasicCredentials(authentication) ==
    authentication.username \o authentication.password

\* generateBasicAuthorizationHeaderValue
AuthorizationHeader(authentication) ==
    IF HasCredentials(authentication)
    THEN BasicCredentials(authentication)
    ELSE NoValue

\* hasValidAuthorizationHeader of the extension: of the parts between the
\* colons it compares the first two.
HasValidAuthorizationHeader(authentication, header) ==
    /\ header # NoValue
    /\ <<header[1]>> = authentication.username
    /\ Len(header) > 1
    /\ <<header[2]>> = authentication.password

\* validateBasicAuthentication of the notification module: the password is
\* what follows the first colon.
HasValidBasicAuthentication(authentication, header) ==
    /\ HasCredentials(authentication)
    /\ header # NoValue
    /\ <<header[1]>> = authentication.username
    /\ Tail(header) = authentication.password

----------------------------------------------------------------------------
(* loadAndValidateConfig *)

\* _validateCtpProjectKeyConfig
IsProjectKeyValid(merchant) ==
    IF merchant.ctpProjectKey = NoValue
    THEN ~IsPendingEnabled(merchant)
    ELSE merchant.ctpProjectKey \in Projects

\* The key is required unless verification is off, and off is the string only.
HasRequiredKey(merchant) ==
    merchant.enableHmacSignature = "'false'" \/ merchant.secretHmacKey # NoValue

IsNotificationLoaded(config, isSetup) ==
    /\ Projects # {}
    /\ Merchants # {}
    /\ \A m \in Merchants :
          LET merchant == config.adyen[m] IN
          /\ IsAuthenticationValid(merchant.authentication, IsPendingEnabled(merchant))
          /\ IsProjectKeyValid(merchant)
          /\ isSetup \/ HasRequiredKey(merchant)

\* Credentials are required for basicAuth as a boolean only.
IsExtensionLoaded(config) ==
    /\ Projects # {}
    /\ Merchants # {}
    /\ \A p \in Projects :
          IsAuthenticationValid(config.commercetools[p], config.basicAuth = "true")
============================================================================
