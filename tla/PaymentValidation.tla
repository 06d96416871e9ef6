-------------------------- MODULE PaymentValidation --------------------------
(***************************************************************************)
(* What the extension module checks before it handles a payment            *)
(* (_validatePaymentRequest and validator-builder.js): the JSON of the     *)
(* requests, their references, and that the amount a request names is the  *)
(* payment's planned one.  A payment with an error is refused, and nothing *)
(* of the update is stored.                                                *)
(*                                                                         *)
(* What a request says is the merchant's; Reading gives for each request   *)
(* what the checks can tell of it.                                         *)
(***************************************************************************)
EXTENDS Naturals

CONSTANTS
    BasicAuth,  \* whether the configuration has credentials for the extension
    Readings    \* for each request: whether it is JSON, has a reference and a
                \* payment's pspReference, and the amount it names, or NoAmount

-----------------------------------------------------------------------------
Operations ==
    {"paymentMethods", "makePayment", "submitDetails", "createSession",
     "carbonOffset", "amountUpdate", "disable", "donation"}

NoRequest == "no request"
NoAmount == "no amount"

Answer(code, ref) == [code |-> code, ref |-> ref]
NoAnswer == Answer("none", 0)

\* A request that is not JSON names nothing.
ASSUME ReadingsAssumption ==
    /\ BasicAuth \in BOOLEAN
    /\ \A body \in DOMAIN Readings :
         /\ {"json", "reference", "pspReference", "amount"} = DOMAIN Readings[body]
         /\ Readings[body].json \in BOOLEAN
         /\ Readings[body].reference \in BOOLEAN
         /\ Readings[body].pspReference \in BOOLEAN

-----------------------------------------------------------------------------
Reading(p, op) == Readings[p.request[op]]

IsSet(p, op) == p.request[op] # NoRequest
IsOpen(p, op) == IsSet(p, op) /\ p.response[op] = NoAnswer

\* Requests to disable a stored payment or to donate are not looked at.
RequestFieldErrors(p) ==
    {op \in Operations \ {"disable", "donation"} :
        IsSet(p, op) /\ ~Reading(p, op).json}

\* Only requests that will be handled need a reference.
ReferenceErrors(p) ==
    IF RequestFieldErrors(p) \cap {"createSession", "makePayment"} # {} THEN {}
    ELSE {op \in {"createSession", "makePayment"} :
             IsOpen(p, op) /\ ~Reading(p, op).reference}

\* Once a request of this kind is logged, the check reads the log: the HTTP
\* request, whose body is text, and which so names no amount itself.
AmountOf(p, op) ==
    IF \E i \in p.interactions : i.type = op THEN NoAmount
    ELSE IF IsSet(p, op) THEN Reading(p, op).amount
    ELSE NoAmount

AmountErrors(p) ==
    {op \in {"createSession", "makePayment"} :
        AmountOf(p, op) \notin {NoAmount, p.amountPlanned}}

PspReferenceErrors(p) ==
    {op \in {"amountUpdate"} \ RequestFieldErrors(p) :
        IsOpen(p, op) /\ ~Reading(p, op).pspReference}

IsValid(p) ==
    /\ RequestFieldErrors(p) = {}
    /\ ReferenceErrors(p) = {}
    /\ AmountErrors(p) = {}
    /\ BasicAuth \/ PspReferenceErrors(p) = {}
=============================================================================
