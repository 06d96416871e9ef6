---------------------------- MODULE CartMapping ----------------------------
(***************************************************************************)
(* The data of the cart that the extension adds to a request for a payment *)
(* or a session (getDataFromCart): what the merchant left out of the       *)
(* request, the lines with tax that Klarna and others ask for, and for a   *)
(* card the details of each line, over which the discount on the whole     *)
(* cart is spread.                                                         *)
(*                                                                         *)
(* Amounts are in cents.  A line item's price without tax is that of one   *)
(* unit, its net, gross and tax are those of the whole line.  The money of *)
(* a custom line item may be negative.                                     *)
(***************************************************************************)
EXTENDS Integers, Sequences

CONSTANTS
    Carts,     \* the cart of the payment, or NoCart
    Requests,  \* what the merchant's request has, and whether it is for a card
    NoCart,
    NoValue,
    NaN        \* NaN or an infinite number: both are sent as null

VARIABLES
    cart,
    request,
    pc,        \* the step of getDataFromCart
    mapped,    \* for each field of the request where its value is from
    taxLines,  \* request.lineItems as created from the cart
    sums,      \* the sums of the prices of the first lines
    details,   \* the detail lines so far
    shared,    \* history: the part of the discount they were given
    charged,   \* history: the sum of the totals that were computed for them
    cost       \* history: what they cost without the discount

vars == <<cart, request, pc, mapped, taxLines, sums, details, shared, charged, cost>>

-----------------------------------------------------------------------------
(* Carts *)

OptionalNat == Nat \cup {NoValue}
OptionalInt == Int \cup {NoValue}

\* included: the discounts of the line's own price.  provided: the merchant's
\* numbers for the line.
Line ==
    [net: OptionalInt, tax: OptionalInt, price: Int, quantity: Nat \ {0},
     included: OptionalNat,
     provided: [quantity: OptionalNat \ {0}, totalAmount: OptionalNat,
                discountAmount: OptionalNat, unitPrice: OptionalNat]]

\* A taxed price always has its net amount.
PricedLine == {line \in Line : line.tax # NoValue => line.net # NoValue}

Cart ==
    [lines: Seq(PricedLine), discount: Nat, shipping: SUBSET PricedLine,
     hasCustomer: BOOLEAN]

ASSUME CartsAssumption == Carts \subseteq Cart \cup {NoCart} /\ NoCart \notin Cart

-----------------------------------------------------------------------------
(* Numbers *)

\* Mutant of Round: cuts off what is behind the point.
RoundDown(n, d) == n \div d

\* n / d rounded to an integer, a half up (Math.round).
Round(n, d) == (2 * n + d) \div (2 * d)

\* A half away from zero (toFixed).
RoundFixed(n, d) == IF n < 0 THEN -Round(-n, d) ELSE Round(n, d)

\* n / d, where d may be negative.  The share is computed with floating-point
\* numbers, so an exact half may come out below one half.
Shares(n, d) ==
    LET a == IF d < 0 THEN -n ELSE n
        b == IF d < 0 THEN -d ELSE d
    IN  {Round(a, b)} \cup (IF (2 * a + b) % (2 * b) = 0 THEN {Round(a, b) - 1} ELSE {})

Given(provided, computed) == IF provided # NoValue THEN provided ELSE computed

-----------------------------------------------------------------------------
(* Lines with tax *)

HasTaxLine(line) == line.tax # NoValue

\* Mutant: the tax is that of all units.
TaxLineWithWholeTax(line) ==
    [quantity |-> line.quantity,
     amountExcludingTax |-> RoundFixed(line.net, line.quantity),
     amountIncludingTax |-> RoundFixed(line.net + line.tax, line.quantity),
     taxAmount |-> line.tax]

\* Each amount of one unit is rounded for itself.
TaxLine(line) ==
    [quantity |-> line.quantity,
     amountExcludingTax |-> RoundFixed(line.net, line.quantity),
     amountIncludingTax |-> RoundFixed(line.net + line.tax, line.quantity),
     taxAmount |-> RoundFixed(line.tax, line.quantity)]

\* Shipping is one unit.
TaxLineOfShipping(shipping) == TaxLine([shipping EXCEPT !.quantity = 1])

CreateLineItems(c) ==
    {TaxLine(c.lines[i]) : i \in {j \in DOMAIN c.lines : HasTaxLine(c.lines[j])}}
    \cup {TaxLineOfShipping(s) : s \in {t \in c.shipping : HasTaxLine(t)}}

-----------------------------------------------------------------------------
(* Detail lines *)

Price(line) == IF HasTaxLine(line) THEN line.net ELSE line.price

\* What commercetools charges for the line.
Cost(line) == IF HasTaxLine(line) THEN line.net ELSE line.price * line.quantity

Total == sums[Len(sums)]

AtLeastZero(n) == IF n > 0 THEN n ELSE 0

\* The discounts of the line's own price are added to its share.
DiscountAmount(line, share) ==
    IF line.included = NoValue THEN share ELSE AtLeastZero(share + line.included)

\* The numbers of a line when the prices add up to nothing and its share is a
\* division by zero: NaN, or infinite with the sign of the price.
TotalByZero(line) == IF cart.discount > 0 /\ Price(line) < 0 THEN NaN ELSE 0

DiscountByZero(line) ==
    IF line.included = NoValue \/ (cart.discount > 0 /\ Price(line) > 0) THEN NaN ELSE 0

\* Mutant of TotalAmount: may be negative.
TotalAmountOfAnySign(line, share) == Price(line) - share

TotalAmount(line, share) == AtLeastZero(Price(line) - share)

\* The unit price is a fraction, and not rounded.
DetailLine(line, total, discount) ==
    LET quantity == Given(line.provided.quantity, line.quantity)
        totalAmount == Given(line.provided.totalAmount, total)
        discountAmount == Given(line.provided.discountAmount, discount)
    IN  [quantity |-> quantity, totalAmount |-> totalAmount,
         discountAmount |-> discountAmount,
         unitPrice |->
            IF line.provided.unitPrice # NoValue
            THEN [amount |-> line.provided.unitPrice, per |-> 1]
            ELSE [amount |-> IF NaN \in {totalAmount, discountAmount} THEN NaN
                             ELSE totalAmount + discountAmount,
                  per |-> quantity]]

-----------------------------------------------------------------------------
(* The steps of getDataFromCart *)

\* The parts of an address or a name are treated alike: each stands for one.
CustomerFields == {"dateOfBirth", "shopperName", "accountInfo"}
SchemeFields == {"totalTaxAmount", "freightAmount", "orderDate"}
Fields ==
    {"billingAddress", "deliveryAddress", "telephoneNumber", "countryCode",
     "shopperEmail", "shopperLocale", "lineItems"} \cup CustomerFields \cup SchemeFields

\* The fields that are from the cart unless the merchant gave them.
CartFields == (Fields \ CustomerFields) \ (IF request.scheme THEN {} ELSE SchemeFields)

\* Without a cart the request stays as it is.
FetchCart ==
    /\ pc = "cart"
    /\ pc' = IF cart = NoCart THEN "done" ELSE "map"
    /\ UNCHANGED <<cart, request, mapped, taxLines, sums, details, shared, charged, cost>>

\* The merchant's value comes first, but for the date of the order: it is today.
MapCartData ==
    /\ pc = "map"
    /\ mapped' = [f \in Fields |->
                    CASE f \notin CartFields -> mapped[f]
                      [] f = "orderDate" /\ f \in CartFields -> "today"
                      [] OTHER -> IF f \in request.fields THEN mapped[f] ELSE "cart"]
    /\ taxLines' = IF "lineItems" \in request.fields THEN {} ELSE CreateLineItems(cart)
    /\ pc' = IF request.scheme THEN "sum" ELSE "customer"
    /\ UNCHANGED <<cart, request, sums, details, shared, charged, cost>>

\* Mutant: lines without tax are left out.
SumUpTaxed ==
    /\ pc = "sum"
    /\ IF Len(sums) <= Len(cart.lines)
       THEN /\ sums' = Append(sums, Total + (IF HasTaxLine(cart.lines[Len(sums)])
                                            THEN Price(cart.lines[Len(sums)]) ELSE 0))
            /\ UNCHANGED pc
       ELSE pc' = "lines" /\ UNCHANGED sums
    /\ UNCHANGED <<cart, request, mapped, taxLines, details, shared, charged, cost>>

\* _totalSumOfLineItems
SumUp ==
    /\ pc = "sum"
    /\ IF Len(sums) <= Len(cart.lines)
       THEN /\ sums' = Append(sums, Total + Price(cart.lines[Len(sums)]))
            /\ UNCHANGED pc
       ELSE pc' = "lines" /\ UNCHANGED sums
    /\ UNCHANGED <<cart, request, mapped, taxLines, details, shared, charged, cost>>

\* The next line.
MapLine ==
    /\ pc = "lines"
    /\ Len(details) < Len(cart.lines)
    /\ LET line == cart.lines[Len(details) + 1]
       IN  /\ \/ /\ Total # 0
                 /\ \E share \in Shares(Price(line) * cart.discount, Total) :
                      /\ details' = Append(details,
                           DetailLine(line, TotalAmount(line, share),
                                            DiscountAmount(line, share)))
                      /\ shared' = shared + share
                      /\ charged' = charged + TotalAmount(line, share)
              \/ /\ Total = 0
                 /\ details' = Append(details,
                      DetailLine(line, TotalByZero(line), DiscountByZero(line)))
                 /\ UNCHANGED <<shared, charged>>
           /\ cost' = cost + Cost(line)
    /\ UNCHANGED <<cart, request, pc, mapped, taxLines, sums>>

LinesMapped ==
    /\ pc = "lines"
    /\ Len(details) = Len(cart.lines)
    /\ pc' = "customer"
    /\ UNCHANGED <<cart, request, mapped, taxLines, sums, details, shared, charged, cost>>

MapCustomerData ==
    /\ pc = "customer"
    /\ mapped' = IF cart.hasCustomer
                 THEN [f \in Fields |->
                         IF f \in CustomerFields \ request.fields THEN "customer"
                         ELSE mapped[f]]
                 ELSE mapped
    /\ pc' = "done"
    /\ UNCHANGED <<cart, request, taxLines, sums, details, shared, charged, cost>>

\* commercetools cannot be reached: so the handler, and the update, fails.
FetchFails ==
    /\ pc = "cart" \/ (pc = "customer" /\ cart.hasCustomer)
    /\ pc' = "failed"
    /\ UNCHANGED <<cart, request, mapped, taxLines, sums, details, shared, charged, cost>>

Init ==
    /\ cart \in Carts
    /\ request \in Requests
    /\ pc = "cart"
    /\ mapped = [f \in Fields |-> IF f \in request.fields THEN "merchant" ELSE "none"]
    /\ taxLines = {}
    /\ sums = <<0>>
    /\ details = <<>>
    /\ shared = 0
    /\ charged = 0
    /\ cost = 0

Next ==
    \/ FetchCart
    \/ MapCartData
    \/ SumUp
    \/ MapLine
    \/ LinesMapped
    \/ MapCustomerData
    \/ FetchFails

Spec == Init /\ [][Next]_vars
-----------------------------------------------------------------------------
(* Properties *)

\* The price of a line and that of all of them have opposite signs.
IsOpposed(line) == (Price(line) < 0 /\ Total > 0) \/ (Price(line) > 0 /\ Total < 0)

\* The numbers that can be sent for a line.
AmountsOf(line) == {NaN} \cup (IF IsOpposed(line) THEN Int ELSE Nat)

\* The type of every variable: no total that Adyen is sent is negative, and no
\* discount or unit price, but for a line whose price has not the sign of the
\* total.
TypeOK ==
    /\ pc \in {"cart", "map", "sum", "lines", "customer", "done", "failed"}
    /\ mapped \in [Fields -> {"merchant", "cart", "customer", "today", "none"}]
    /\ \A i \in DOMAIN sums : sums[i] \in Int
    /\ \A i \in DOMAIN details :
         /\ details[i].quantity \in Nat \ {0}
         /\ details[i].totalAmount \in Nat \cup {NaN}
         /\ details[i].discountAmount \in AmountsOf(cart.lines[i])
         /\ details[i].unitPrice.amount \in AmountsOf(cart.lines[i])

\* All lines have their details, and their prices add up to something.
IsMapped ==
    /\ cart # NoCart
    /\ Len(details) = Len(cart.lines) /\ Len(sums) = Len(cart.lines) + 1
    /\ Total # 0

\* How far n is from zero, in halves of a cent.
WithinHalves(n, halves) == -halves <= 2 * n /\ 2 * n <= halves

\* The shares of the lines add up to the discount on the whole cart, within half
\* a cent for each line, however they are rounded (_getDiscountAmount).
DiscountIsSpread ==
    IsMapped => WithinHalves(shared - cart.discount, Len(cart.lines))

\* The lines for which the code's price is what they cost, and none reduces the
\* price of the others.
IsExact(line) == (HasTaxLine(line) \/ line.quantity = 1) /\ Price(line) >= 0

\* The totals of the lines add up to what commercetools charges for them less
\* the discount, within half a cent for each line, if each line is taxed or of
\* one unit, and none is negative (the share of such a line is negative, and
\* its total 0).  Lines without tax of more than one unit are what run untaxed
\* is about: the code takes the price of one unit for them.
TotalsAddUp ==
    /\ IsMapped
    /\ \A i \in DOMAIN cart.lines : IsExact(cart.lines[i])
    /\ cart.discount <= cost
    => WithinHalves(charged - (cost - cart.discount), Len(cart.lines))

\* The net amount and the tax of a unit, each rounded for itself, are within a
\* cent of its gross amount (createLineItems).
TaxLinesAddUp ==
    \A l \in taxLines :
        WithinHalves(l.amountExcludingTax + l.taxAmount - l.amountIncludingTax, 2)

\* The unit price of a line without tax and discounts is its base price
\* (docs/WebComponentsIntegrationGuide.md: "Unit price (calculated from taxed price
\* if available, otherwise from base price)").
UnitPriceIsBasePrice ==
    \A i \in DOMAIN details :
        LET line == cart.lines[i]
            unitPrice == details[i].unitPrice
        IN  /\ ~HasTaxLine(line) /\ line.included = NoValue /\ cart.discount = 0
            /\ line.price >= 0
            /\ \A f \in DOMAIN line.provided : line.provided[f] = NoValue
            /\ Total # 0
            => unitPrice.amount = line.price * unitPrice.per
=============================================================================
