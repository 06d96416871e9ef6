--------------------------- MODULE MCCartMapping ---------------------------
(* Instances of CartMapping for TLC.                                        *)
EXTENDS CartMapping

Nothing == [quantity |-> NoValue, totalAmount |-> NoValue,
            discountAmount |-> NoValue, unitPrice |-> NoValue]

Taxed(net, tax, quantity) ==
    [net |-> net, tax |-> tax, price |-> net, quantity |-> quantity,
     included |-> NoValue, provided |-> Nothing]
Untaxed(price, quantity) ==
    [net |-> NoValue, tax |-> NoValue, price |-> price, quantity |-> quantity,
     included |-> NoValue, provided |-> Nothing]

\* Lines of equal prices, whose shares all round the same way, and of others;
\* several units without tax, a free line, one that takes something off, lines
\* with discounts of their own, and one the merchant has given the numbers for.
SomeLines ==
    {Taxed(1, 0, 1), Taxed(3, 1, 2), Taxed(5, 2, 3), Untaxed(2, 3), Untaxed(0, 1),
     Untaxed(-2, 1),
     [Taxed(4, 1, 2) EXCEPT !.included = 3],
     [Untaxed(2, 1) EXCEPT !.included = 1],
     [Taxed(2, 1, 1) EXCEPT !.provided = [Nothing EXCEPT !.quantity = 2, !.totalAmount = 7]]}

CartOf(lines, discount, shipping, hasCustomer) ==
    [lines |-> lines, discount |-> discount, shipping |-> shipping,
     hasCustomer |-> hasCustomer]

\* The discount is not more than the lines cost.
DiscountsOf(lines) ==
    {d \in 0 .. 4 : d <= AtLeastZero(Cost(lines[1]) + Cost(lines[2]) + Cost(lines[3]))}

SomeCarts ==
    {NoCart}
    \cup UNION {{CartOf(lines, discount, {}, TRUE) : discount \in DiscountsOf(lines)} :
                   lines \in [1 .. 3 -> SomeLines]}
    \cup {CartOf(<<Taxed(net, tax, quantity)>>, 0, {Taxed(5, 1, 1), Untaxed(5, 1)}, FALSE) :
             net \in 0 .. 9, tax \in 0 .. 4, quantity \in 1 .. 5}
    \cup {CartOf(<<Taxed(-net, -tax, quantity)>>, 0, {}, FALSE) :
             net \in 1 .. 9, tax \in 0 .. 4, quantity \in 1 .. 5}

SomeRequests ==
    {[scheme |-> TRUE, fields |-> {"countryCode", "dateOfBirth"}],
     [scheme |-> FALSE, fields |-> {"lineItems"}]}
=============================================================================
