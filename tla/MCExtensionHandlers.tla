------------------------- MODULE MCExtensionHandlers -------------------------
(* Instances of ExtensionHandlers for TLC.                                  *)
EXTENDS ExtensionHandlers, TLC

\* Every update may come in the place of any other.
Symmetry == Permutations(Updates)

Request(op, body) == [kind |-> "request", of |-> op, with |-> body, key |-> NoKey]
Transaction(type, amount, key) ==
    [kind |-> "transaction", of |-> type, with |-> amount, key |-> key]
Other == [kind |-> "other", of |-> "", with |-> "", key |-> NoKey]
MerchantsOwn(key) == <<"merchant", key>>

\* Requests as the merchant should make them name a reference; those of a payment
\* or session name the amount, too.
Complete(amount) ==
    [json |-> TRUE, reference |-> TRUE, pspReference |-> TRUE, amount |-> amount]

Bodies ==
    [body \in {"card", "redirect result", "parcel", "two parcels",
               "card for twelve", "no reference", "not JSON"} |->
       CASE body = "card" -> Complete("ten")
         [] body = "card for twelve" -> Complete("twelve")
         [] body = "no reference" -> [Complete("ten") EXCEPT !.reference = FALSE]
         [] body = "not JSON" ->
              [json |-> FALSE, reference |-> FALSE, pspReference |-> FALSE,
               amount |-> NoAmount]
         [] OTHER -> Complete(NoAmount)]

Pay == Request("makePayment", "card")
Details == Request("submitDetails", "redirect result")
UpdateAmount == Request("amountUpdate", "parcel")
ChargeFive == Transaction("Charge", "five", NoKey)

\* A payment made, perhaps with details, charged, refunded and cancelled,
\* with an update of the amount and a donation that is never sent; one update may
\* find two refunds, and updates may find what another one left undone.  A refund
\* has the merchant's own key, a request is refused.
ChangesOfPayment ==
    {Pay, Details, ChargeFive, Transaction("Refund", "two", NoKey),
     Transaction("Refund", "three", MerchantsOwn("a")),
     Transaction("CancelAuthorization", "all", NoKey), UpdateAmount,
     Request("donation", "not JSON"), Request("makePayment", "no reference"), Other}

\* A payment whose amount is updated twice, or that is charged.
ChangesOfAmount ==
    {Pay, UpdateAmount, Request("amountUpdate", "two parcels")}
ChangesOfCharge == {Pay, ChargeFive}

\* A payment for ten and for twelve, before and after the planned amount is
\* twelve.
ChangesOfAmounts == {Pay, Request("makePayment", "card for twelve")}
=============================================================================
