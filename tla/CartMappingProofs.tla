------------------------- MODULE CartMappingProofs -------------------------
(***************************************************************************)
(* The discount of the cart is spread over its lines, for every cart and   *)
(* however the shares are rounded.                                         *)
(*                                                                         *)
(* The argument: a rounded share is at most half a cent away from the      *)
(* exact one.  With n lines done, their shares times the total of the      *)
(* prices are at most n halves of its size away from the discount times    *)
(* the prices of those lines; at the end the total can be cancelled.       *)
(***************************************************************************)
EXTENDS CartMapping, TLAPS

-----------------------------------------------------------------------------
(* Arithmetic *)

LEMMA Quotient ==
    ASSUME NEW a \in Int, NEW b \in Nat \ {0}
    PROVE  /\ a \div b \in Int
           /\ b * (a \div b) <= a
           /\ a < b * (a \div b) + b
           /\ a % b = 0 => a = b * (a \div b)
OBVIOUS

\* n is within half of m.
IsHalf(n, m) == -m <= 2 * n /\ 2 * n <= m

Size(d) == IF d < 0 THEN -d ELSE d

LEMMA RoundIsClose ==
    ASSUME NEW n \in Int, NEW d \in Nat \ {0}
    PROVE  /\ Round(n, d) \in Int
           /\ IsHalf(Round(n, d) * d - n, d)
           /\ (2 * n + d) % (2 * d) = 0 => IsHalf((Round(n, d) - 1) * d - n, d)
<1> DEFINE a == 2 * n + d
           b == 2 * d
           q == a \div b
<1>1. a \in Int /\ b \in Nat \ {0}
    OBVIOUS
<1>2. q \in Int /\ b * q <= a /\ a < b * q + b /\ (a % b = 0 => a = b * q)
    <2> HIDE DEF a, b
    <2> QED BY <1>1, Quotient
<1>3. Round(n, d) = q
    BY DEF Round
<1> HIDE DEF q
<1>4. b * q = 2 * (q * d) /\ (q - 1) * d = q * d - d
    BY <1>2
<1>5. q * d \in Int
    BY <1>2
<1> QED BY <1>2, <1>3, <1>4, <1>5 DEF IsHalf

\* A share is within half a cent of n / d.
LEMMA ShareIsRounded ==
    ASSUME NEW n \in Int, NEW d \in Int \ {0}, NEW share \in Shares(n, d)
    PROVE  share \in Int /\ IsHalf(share * d - n, Size(d))
<1> DEFINE a == IF d < 0 THEN -n ELSE n
           b == Size(d)
<1>1. a \in Int /\ b \in Nat \ {0}
    BY DEF Size
<1>2. share = Round(a, b) \/ (share = Round(a, b) - 1 /\ (2 * a + b) % (2 * b) = 0)
    BY DEF Shares, Size
<1>3. share \in Int /\ IsHalf(share * b - a, b)
    <2> HIDE DEF a, b
    <2> QED BY <1>1, <1>2, RoundIsClose
<1>4. share * b - a = IF d < 0 THEN -(share * d - n) ELSE share * d - n
    BY <1>3 DEF Size
<1>5. share * d \in Int
    BY <1>3
<1> HIDE DEF a, b
<1> QED BY <1>1, <1>3, <1>4, <1>5 DEF IsHalf, b

\* A share of a discount that is not more than the total is not more than the
\* price.
LEMMA ShareIsNotMore ==
    ASSUME NEW price \in Nat, NEW discount \in Nat, NEW total \in Nat \ {0},
           discount <= total, NEW share \in Int,
           IsHalf(share * total - price * discount, total)
    PROVE  share <= price
<1>1. price * discount <= price * total
    OBVIOUS
<1>2. price * discount \in Int /\ price * total \in Int /\ share * total \in Int
    OBVIOUS
<1>3. 2 * (share * total) <= 2 * (price * total) + total
    BY <1>1, <1>2 DEF IsHalf
<1>4. ASSUME share >= price + 1
      PROVE  FALSE
    <2>1. share * total >= (price + 1) * total
        BY <1>4
    <2>2. (price + 1) * total = price * total + total
        OBVIOUS
    <2> QED BY <1>2, <1>3, <2>1, <2>2
<1> QED BY <1>4

\* Another line adds at most half of the size of the total to the distance.
LEMMA DistanceGrows ==
    ASSUME NEW total \in Int, NEW size \in Nat, NEW discount \in Nat, NEW n \in Nat,
           NEW s \in Int, NEW share \in Int, NEW sum \in Int, NEW price \in Int,
           IsHalf(s * total - sum * discount, n * size),
           IsHalf(share * total - price * discount, size)
    PROVE  IsHalf((s + share) * total - (sum + price) * discount, (n + 1) * size)
<1>1. /\ (s + share) * total = s * total + share * total
      /\ (sum + price) * discount = sum * discount + price * discount
      /\ (n + 1) * size = n * size + size
    OBVIOUS
<1>2. /\ s * total \in Int /\ share * total \in Int
      /\ sum * discount \in Int /\ price * discount \in Int /\ n * size \in Int
    OBVIOUS
<1> QED BY <1>1, <1>2 DEF IsHalf

LEMMA Cancel ==
    ASSUME NEW total \in Nat \ {0}, NEW x \in Int, NEW y \in Int,
           x * total <= y * total
    PROVE  x <= y
<1>1. ASSUME x >= y + 1
      PROVE  FALSE
    <2>1. x * total >= (y + 1) * total
        BY <1>1
    <2>2. (y + 1) * total = y * total + total /\ x * total \in Int /\ y * total \in Int
        OBVIOUS
    <2> QED BY <2>1, <2>2
<1> QED BY <1>1
-----------------------------------------------------------------------------
(* The inductive invariant *)

\* sums has the prices of the first lines, summed up.
SumsAreSums ==
    /\ sums \in Seq(Int) /\ Len(sums) >= 1 /\ sums[1] = 0
    /\ cart # NoCart =>
         /\ Len(sums) <= Len(cart.lines) + 1
         /\ \A i \in 1 .. Len(sums) - 1 : sums[i + 1] = sums[i] + Price(cart.lines[i])

\* The lines are mapped when all of them have been summed up.
StepsInOrder ==
    /\ pc \in {"map", "sum", "lines"} => cart # NoCart
    /\ pc \in {"cart", "map", "sum"} => details = <<>>
    /\ details = <<>> => shared = 0 /\ charged = 0 /\ cost = 0
    /\ cart # NoCart =>
         /\ Len(details) <= Len(cart.lines)
         /\ pc = "lines" \/ Len(details) > 0 => Len(sums) = Len(cart.lines) + 1

NothingNegative == \A i \in DOMAIN cart.lines : Price(cart.lines[i]) >= 0

\* How far the lines mapped so far are from their part of the discount.
SpreadSoFar ==
    cart # NoCart /\ Total # 0 =>
        /\ IsHalf(shared * Total - sums[Len(details) + 1] * cart.discount,
                  Len(details) * Size(Total))
        /\ cart.discount <= Total /\ NothingNegative =>
              charged = sums[Len(details) + 1] - shared

\* What the lines mapped so far cost, if the code has it right.
CostSoFar ==
    cart # NoCart /\ (\A i \in DOMAIN cart.lines : IsExact(cart.lines[i])) =>
        cost = sums[Len(details) + 1]

IInv ==
    /\ cart \in Carts
    /\ shared \in Int /\ charged \in Int /\ cost \in Int
    /\ \E S : details \in Seq(S)
    /\ SumsAreSums
    /\ StepsInOrder
    /\ SpreadSoFar
    /\ CostSoFar

LEMMA CartTypes ==
    ASSUME cart \in Carts, cart # NoCart
    PROVE  /\ cart.discount \in Nat
           /\ cart.lines \in Seq(Line)
           /\ \A i \in DOMAIN cart.lines :
                Price(cart.lines[i]) \in Int /\ Cost(cart.lines[i]) \in Int
<1>1. cart \in Cart
    BY CartsAssumption
<1>2. cart.lines \in Seq(PricedLine) /\ cart.discount \in Nat
    BY <1>1 DEF Cart
<1>3. \A line \in PricedLine : line \in Line /\ Price(line) \in Int /\ Cost(line) \in Int
    <2> SUFFICES ASSUME NEW line \in PricedLine
                 PROVE  line \in Line /\ Price(line) \in Int /\ Cost(line) \in Int
        OBVIOUS
    <2>1. /\ line \in Line /\ line.price \in Int /\ line.quantity \in Int
          /\ HasTaxLine(line) => line.net \in Int
        BY DEF PricedLine, Line, HasTaxLine, OptionalInt
    <2>2. line.price * line.quantity \in Int
        BY <2>1
    <2> QED BY <2>1, <2>2 DEF Price, Cost
<1>4. \A i \in DOMAIN cart.lines : cart.lines[i] \in PricedLine
    BY <1>2
<1>5. cart.lines \in Seq(Line)
    BY <1>2, <1>3
<1> QED BY <1>2, <1>3, <1>4, <1>5

LEMMA InitIInv == Init => IInv
<1> SUFFICES ASSUME Init PROVE IInv
    OBVIOUS
<1>1. sums \in Seq(Int) /\ Len(sums) = 1 /\ sums[1] = 0
    BY DEF Init
<1>2. details \in Seq({}) /\ Len(details) = 0 /\ details = <<>>
    BY DEF Init
<1>3. Total = 0
    BY <1>1 DEF Total
<1>4. cart # NoCart => Len(cart.lines) \in Nat
    BY CartTypes DEF Init
<1>5. SumsAreSums
    BY <1>1, <1>4 DEF SumsAreSums
<1>6. StepsInOrder
    BY <1>1, <1>2, <1>4 DEF Init, StepsInOrder
<1>7. CostSoFar
    BY <1>1, <1>2 DEF Init, CostSoFar
<1> QED BY <1>2, <1>3, <1>5, <1>6, <1>7 DEF Init, IInv, SpreadSoFar

\* A step that leaves the numbers alone.
LEMMA OtherStepsKeepIInv ==
    ASSUME IInv, UNCHANGED <<cart, sums, details, shared, charged, cost>>,
           \/ FetchCart
           \/ MapCartData
           \/ LinesMapped
           \/ MapCustomerData
           \/ FetchFails
           \/ UNCHANGED vars
    PROVE  IInv'
<1>1. SumsAreSums' /\ SpreadSoFar' /\ CostSoFar'
    <2>1. /\ \A line : (Price(line)' = Price(line)) /\ (IsExact(line)' <=> IsExact(line))
          /\ Total' = Total
        BY DEF Price, HasTaxLine, IsExact, Total
    <2>2. NothingNegative' <=> NothingNegative
        BY <2>1 DEF NothingNegative
    <2>3. SumsAreSums'
        BY <2>1 DEF IInv, SumsAreSums
    <2>4. SpreadSoFar'
        BY <2>1, <2>2 DEF IInv, SpreadSoFar, Size
    <2>5. CostSoFar'
        BY <2>1 DEF IInv, CostSoFar
    <2> QED BY <2>3, <2>4, <2>5
<1>2. StepsInOrder'
    BY DEF IInv, StepsInOrder, FetchCart, MapCartData, LinesMapped,
           MapCustomerData, FetchFails, vars
<1> QED BY <1>1, <1>2 DEF IInv

LEMMA SumUpKeepsIInv ==
    ASSUME IInv, SumUp
    PROVE  IInv'
<1>1. /\ cart # NoCart /\ details = <<>> /\ Len(details) = 0
      /\ shared = 0 /\ charged = 0 /\ cost = 0
      /\ UNCHANGED <<cart, details, shared, charged, cost>>
    BY DEF SumUp, IInv, StepsInOrder
<1>2. /\ cart.lines \in Seq(Line)
      /\ \A i \in DOMAIN cart.lines :
            Price(cart.lines[i]) \in Int /\ Cost(cart.lines[i]) \in Int
      /\ cart.discount \in Nat
    BY CartTypes, <1>1 DEF IInv
<1>3. SumsAreSums
    BY DEF IInv
<1>4. SumsAreSums' /\ StepsInOrder'
    <2>1. CASE Len(sums) <= Len(cart.lines)
        <3> DEFINE n == Len(sums)
                   next == Total + Price(cart.lines[n])
        <3>1. sums' = Append(sums, next) /\ pc' = "sum"
            BY <2>1 DEF SumUp
        <3>2. next \in Int /\ n \in Nat /\ next = sums[n] + Price(cart.lines[n])
            BY <1>2, <1>3, <2>1 DEF SumsAreSums, Total
        <3>3. /\ sums' \in Seq(Int) /\ Len(sums') = n + 1 /\ sums'[n + 1] = next
              /\ \A i \in 1 .. n : sums'[i] = sums[i]
            <4> HIDE DEF next
            <4> QED BY <1>3, <3>1, <3>2 DEF SumsAreSums
        <3>4. \A i \in 1 .. n : sums'[i + 1] = sums'[i] + Price(cart.lines[i])
            <4>1. ASSUME NEW i \in 1 .. n
                  PROVE  sums'[i + 1] = sums'[i] + Price(cart.lines[i])
                <5>1. CASE i = n
                    BY <3>2, <3>3, <5>1
                <5>2. CASE i # n
                    <6>1. i \in 1 .. n - 1 /\ i + 1 \in 1 .. n
                        BY <3>2, <5>2
                    <6>2. sums[i + 1] = sums[i] + Price(cart.lines[i])
                        BY <1>1, <1>3, <6>1 DEF SumsAreSums
                    <6> QED BY <3>3, <6>1, <6>2
                <5> QED BY <5>1, <5>2
            <4> QED BY <4>1
        <3>5. SumsAreSums'
            <4>1. sums'[1] = 0 /\ n >= 1
                BY <1>3, <3>3 DEF SumsAreSums
            <4>2. Len(sums') - 1 = n /\ Len(sums') <= Len(cart.lines) + 1
                BY <1>2, <2>1, <3>2, <3>3
            <4>3. \A i : Price(cart.lines[i])' = Price(cart.lines[i])
                BY <1>1 DEF Price, HasTaxLine
            <4> QED BY <1>1, <3>2, <3>3, <3>4, <4>1, <4>2, <4>3 DEF SumsAreSums
        <3>6. StepsInOrder'
            BY <1>1, <1>2, <3>1 DEF IInv, StepsInOrder
        <3> QED BY <3>5, <3>6
    <2>2. CASE ~(Len(sums) <= Len(cart.lines))
        <3>1. sums' = sums /\ pc' = "lines"
            BY <2>2 DEF SumUp
        <3>2. Len(sums) = Len(cart.lines) + 1
            BY <1>1, <1>2, <1>3, <2>2 DEF SumsAreSums
        <3>3. SumsAreSums'
            BY <1>1, <1>3, <3>1 DEF SumsAreSums, Price, HasTaxLine
        <3> QED BY <1>1, <1>2, <3>1, <3>2, <3>3 DEF StepsInOrder
    <2> QED BY <2>1, <2>2
<1>5. SpreadSoFar'
    <2>1. Total' \in Int /\ sums'[1] = 0 /\ Size(Total)' \in Int
        BY <1>4 DEF SumsAreSums, Total, Size
    <2>2. shared' * Total' - sums'[1] * cart'.discount = 0
        BY <1>1, <1>2, <2>1
    <2> QED BY <1>1, <2>1, <2>2 DEF SpreadSoFar, IsHalf
<1>6. CostSoFar'
    BY <1>1, <1>4 DEF CostSoFar, SumsAreSums
<1> QED BY <1>1, <1>4, <1>5, <1>6 DEF IInv

LEMMA MapLineKeepsIInv ==
    ASSUME IInv, MapLine
    PROVE  IInv'
<1> DEFINE k == Len(details)
           line == cart.lines[k + 1]
           price == Price(line)
<1>1. /\ cart # NoCart /\ pc = "lines" /\ k < Len(cart.lines)
      /\ Len(sums) = Len(cart.lines) + 1
      /\ UNCHANGED <<cart, pc, sums>>
    BY DEF MapLine, IInv, StepsInOrder
<1>2. /\ cart.lines \in Seq(Line)
      /\ \A i \in DOMAIN cart.lines :
            Price(cart.lines[i]) \in Int /\ Cost(cart.lines[i]) \in Int
      /\ cart.discount \in Nat
    BY CartTypes, <1>1 DEF IInv
<1>3. k \in Nat
    BY DEF IInv
<1>4. /\ price \in Int /\ Cost(line) \in Int /\ sums[k + 1] \in Int
      /\ sums[k + 2] = sums[k + 1] + price
    <2>1. k + 1 \in 1 .. Len(sums) - 1 /\ k + 1 \in DOMAIN cart.lines
        BY <1>1, <1>2, <1>3
    <2>2. sums[(k + 1) + 1] = sums[k + 1] + Price(cart.lines[k + 1])
        BY <1>1, <2>1 DEF IInv, SumsAreSums
    <2>3. sums[k + 1] \in Int
        BY <2>1 DEF IInv, SumsAreSums
    <2>4. (k + 1) + 1 = k + 2
        BY <1>3
    <2> QED BY <1>2, <2>1, <2>2, <2>3, <2>4
<1>5. PICK detail : details' = Append(details, detail)
    BY DEF MapLine
<1>6. /\ \E S : details' \in Seq(S)
      /\ Len(details') = k + 1
    <2>1. PICK S : details \in Seq(S)
        BY DEF IInv
    <2>2. details \in Seq(S \cup {detail})
        BY <2>1
    <2>3. details' \in Seq(S \cup {detail}) /\ Len(details') = Len(details) + 1
        BY <1>5, <2>2
    <2> QED BY <2>3
<1>7. SumsAreSums'
    BY <1>1 DEF IInv, SumsAreSums, Price, HasTaxLine
<1>8. StepsInOrder'
    <2>1. details' # <<>>
        BY <1>3, <1>6
    <2> QED BY <1>1, <1>2, <1>3, <1>6, <2>1 DEF StepsInOrder
<1>9. shared' \in Int /\ charged' \in Int /\ SpreadSoFar'
    <2> DEFINE D == cart.discount
    <2>1. Total \in Int /\ Total' = Total /\ Size(Total)' = Size(Total)
        BY <1>1 DEF IInv, SumsAreSums, Total, Size
    <2>2. CASE Total = 0
        <3>1. UNCHANGED <<shared, charged>>
            BY <2>2 DEF MapLine
        <3> QED BY <2>1, <2>2, <3>1 DEF IInv, SpreadSoFar
    <2>3. CASE Total # 0
        <3>1. PICK share \in Shares(price * D, Total) :
                /\ shared' = shared + share
                /\ charged' = charged + TotalAmount(line, share)
            BY <2>3 DEF MapLine
        <3>2. price * D \in Int /\ Size(Total) \in Nat
            BY <1>2, <1>4, <2>1 DEF Size
        <3>3. share \in Int /\ IsHalf(share * Total - price * D, Size(Total))
            BY <2>1, <2>3, <3>1, <3>2, ShareIsRounded
        <3>4. /\ IsHalf(shared * Total - sums[k + 1] * D, k * Size(Total))
              /\ D <= Total /\ NothingNegative => charged = sums[k + 1] - shared
            BY <1>1, <2>3 DEF IInv, SpreadSoFar
        <3>5. shared \in Int /\ charged \in Int
            BY DEF IInv
        <3>6. IsHalf((shared + share) * Total - (sums[k + 1] + price) * D,
                     (k + 1) * Size(Total))
            <4> HIDE DEF k, price, D
            <4> QED BY <1>2, <1>3, <1>4, <2>1, <3>2, <3>3, <3>4, <3>5, DistanceGrows DEF D
        <3>7. TotalAmount(line, share) \in Int
            BY <1>4, <3>3 DEF TotalAmount, AtLeastZero
        <3>8. ASSUME D <= Total, NothingNegative
              PROVE  charged' = sums[k + 2] - shared'
            <4>1. price \in Nat
                BY <1>1, <1>2, <1>3, <1>4, <3>8 DEF NothingNegative
            <4>2. Total \in Nat \ {0} /\ Size(Total) = Total
                BY <1>2, <2>1, <2>3, <3>8 DEF Size
            <4>3. share <= price
                <5> HIDE DEF price, D
                <5> QED BY <1>2, <3>3, <3>8, <4>1, <4>2, ShareIsNotMore DEF D
            <4>4. TotalAmount(line, share) = price - share
                BY <1>4, <3>3, <4>3 DEF TotalAmount, AtLeastZero
            <4> QED BY <1>4, <3>1, <3>3, <3>4, <3>5, <3>8, <4>4
        <3>9. Len(details') + 1 = k + 2
            BY <1>3, <1>6
        <3>10. NothingNegative' <=> NothingNegative
            BY <1>1 DEF NothingNegative, Price, HasTaxLine
        <3> QED BY <1>1, <1>4, <1>6, <2>1, <3>1, <3>3, <3>5, <3>6, <3>7, <3>8, <3>9, <3>10
                DEF SpreadSoFar
    <2> QED BY <2>2, <2>3
<1>10. cost' \in Int /\ CostSoFar'
    <2>1. cost' = cost + Cost(line) /\ cost \in Int
        BY DEF MapLine, IInv
    <2>2. \A l : IsExact(l)' <=> IsExact(l)
        BY DEF IsExact, Price, HasTaxLine
    <2>3. ASSUME \A i \in DOMAIN cart.lines : IsExact(cart.lines[i])
          PROVE  cost' = sums'[Len(details') + 1]
        <3>1. IsExact(line)
            BY <1>1, <1>2, <1>3, <2>3
        <3>2. Cost(line) = price
            BY <1>4, <3>1 DEF IsExact, Cost, Price
        <3>3. cost = sums[k + 1]
            BY <1>1, <2>3 DEF IInv, CostSoFar
        <3>4. Len(details') + 1 = k + 2
            BY <1>3, <1>6
        <3> HIDE DEF price, k
        <3> QED BY <1>1, <1>4, <2>1, <3>2, <3>3, <3>4
    <2>4. cost' \in Int
        BY <1>4, <2>1
    <2> QED BY <1>1, <2>2, <2>3, <2>4 DEF CostSoFar
<1> QED BY <1>1, <1>6, <1>7, <1>8, <1>9, <1>10 DEF IInv

LEMMA NextKeepsIInv ==
    ASSUME IInv, [Next]_vars
    PROVE  IInv'
<1>1. CASE SumUp
    BY <1>1, SumUpKeepsIInv
<1>2. CASE MapLine
    BY <1>2, MapLineKeepsIInv
<1>3. CASE \/ FetchCart
           \/ MapCartData
           \/ LinesMapped
           \/ MapCustomerData
           \/ FetchFails
           \/ UNCHANGED vars
    <2>1. UNCHANGED <<cart, sums, details, shared, charged, cost>>
        BY <1>3 DEF FetchCart, MapCartData, LinesMapped, MapCustomerData,
                    FetchFails, vars
    <2> QED BY <1>3, <2>1, OtherStepsKeepIInv
<1> QED BY <1>1, <1>2, <1>3 DEF Next

\* With all lines done the total of the cart is cancelled.
LEMMA SpreadAtTheEnd ==
    ASSUME IInv, IsMapped
    PROVE  /\ shared \in Int /\ charged \in Int /\ cost \in Int
           /\ Total \in Int /\ cart.discount \in Nat /\ Len(cart.lines) \in Nat
           /\ WithinHalves(shared - cart.discount, Len(cart.lines))
           /\ cart.discount <= Total /\ NothingNegative => charged = Total - shared
           /\ (\A i \in DOMAIN cart.lines : IsExact(cart.lines[i])) => cost = Total
<1> DEFINE n == Len(cart.lines)
           D == cart.discount
           size == Size(Total)
           x == IF Total < 0 THEN D - shared ELSE shared - D
<1>1. D \in Nat /\ n \in Nat
    BY CartTypes DEF IInv, IsMapped
<1>2. Total \in Int \ {0} /\ sums[n + 1] = Total
    BY DEF IInv, IsMapped, SumsAreSums, Total
<1>3. /\ IsHalf(shared * Total - Total * D, n * size)
      /\ D <= Total /\ NothingNegative => charged = Total - shared
      /\ (\A i \in DOMAIN cart.lines : IsExact(cart.lines[i])) => cost = Total
    BY <1>2 DEF IInv, IsMapped, SpreadSoFar, CostSoFar
<1>4. shared \in Int /\ charged \in Int /\ cost \in Int
    BY DEF IInv
<1>5. size \in Nat \ {0}
    BY <1>2 DEF Size
<1> HIDE DEF n, D
<1>6. /\ 2 * (shared * Total - Total * D) = (2 * x) * size
      /\ -(n * size) = (-n) * size
    <2>1. shared * Total - Total * D = (shared - D) * Total
        BY <1>1, <1>2, <1>4
    <2>2. (shared - D) * Total = x * size
        BY <1>1, <1>2, <1>4 DEF Size
    <2>3. x \in Int
        BY <1>1, <1>4
    <2>4. 2 * (x * size) = (2 * x) * size
        <3> HIDE DEF x, size
        <3> QED BY <1>5, <2>3
    <2>5. -(n * size) = (-n) * size
        <3> HIDE DEF size
        <3> QED BY <1>1, <1>5
    <2> QED BY <2>1, <2>2, <2>4, <2>5
<1>7. x \in Int
    BY <1>1, <1>4
<1>8. (-n) * size <= (2 * x) * size /\ (2 * x) * size <= n * size
    BY <1>3, <1>6 DEF IsHalf
<1>9. -n <= 2 * x /\ 2 * x <= n
    <2> HIDE DEF x, size
    <2> QED BY <1>1, <1>5, <1>7, <1>8, Cancel
<1>10. -n <= 2 * (shared - D) /\ 2 * (shared - D) <= n
    BY <1>1, <1>4, <1>9
<1> QED BY <1>1, <1>2, <1>3, <1>4, <1>10 DEF WithinHalves, n, D

-----------------------------------------------------------------------------
(* Theorems *)

\* The inductive invariant holds in every state.
THEOREM Invariance == Spec => []IInv
BY InitIInv, NextKeepsIInv, PTL DEF Spec

\* The lines share the discount on the cart within half a cent for each line.
THEOREM DiscountIsSpreadOver == Spec => []DiscountIsSpread
<1>1. IInv => DiscountIsSpread
    BY SpreadAtTheEnd DEF DiscountIsSpread
<1> QED BY <1>1, Invariance, PTL

\* The totals of the lines are what commercetools charges for them less the
\* discount, within half a cent for each line, in every cart whose lines are
\* each taxed or of one unit and none negative (_getDiscountAmount).
THEOREM LineTotalsAddUp == Spec => []TotalsAddUp
<1>1. IInv => TotalsAddUp
    <2> SUFFICES ASSUME IInv, IsMapped, \A i \in DOMAIN cart.lines : IsExact(cart.lines[i]),
                        cart.discount <= cost
                 PROVE  WithinHalves(charged - (cost - cart.discount), Len(cart.lines))
        BY DEF TotalsAddUp
    <2> DEFINE x == shared - cart.discount
               n == Len(cart.lines)
    <2>1. NothingNegative
        BY DEF NothingNegative, IsExact
    <2>2. charged - (cost - cart.discount) = -x
        BY <2>1, SpreadAtTheEnd
    <2>3. x \in Int /\ n \in Nat /\ WithinHalves(x, n)
        BY SpreadAtTheEnd
    <2> HIDE DEF x, n
    <2>4. WithinHalves(-x, n)
        BY <2>3 DEF WithinHalves
    <2> QED BY <2>2, <2>4 DEF n
<1> QED BY <1>1, Invariance, PTL

-----------------------------------------------------------------------------
(* Lines with tax *)

LEMMA FixedIsClose ==
    ASSUME NEW n \in Int, NEW d \in Nat \ {0}
    PROVE  RoundFixed(n, d) \in Int /\ IsHalf(RoundFixed(n, d) * d - n, d)
<1>1. CASE n < 0
    <2> DEFINE r == Round(-n, d)
    <2>1. r \in Int /\ IsHalf(r * d - (-n), d) /\ RoundFixed(n, d) = -r
        BY <1>1, RoundIsClose DEF RoundFixed
    <2> HIDE DEF r
    <2>2. (-r) * d - n = -(r * d - (-n)) /\ r * d \in Int
        BY <2>1
    <2> QED BY <2>1, <2>2 DEF IsHalf
<1>2. CASE ~(n < 0)
    BY <1>2, RoundIsClose DEF RoundFixed
<1> QED BY <1>1, <1>2

\* The three amounts of a unit are each half a cent off, their sum less than two.
LEMMA TaxLineAddsUp ==
    ASSUME NEW net \in Int, NEW tax \in Int, NEW q \in Nat \ {0}
    PROVE  WithinHalves(RoundFixed(net, q) + RoundFixed(tax, q) - RoundFixed(net + tax, q), 2)
<1> DEFINE x == RoundFixed(net, q)
           y == RoundFixed(tax, q)
           z == RoundFixed(net + tax, q)
           sum == x + y - z
<1>1. /\ x \in Int /\ IsHalf(x * q - net, q)
      /\ y \in Int /\ IsHalf(y * q - tax, q)
      /\ z \in Int /\ IsHalf(z * q - (net + tax), q)
    BY FixedIsClose
<1> HIDE DEF x, y, z
<1>2. /\ x * q \in Int /\ y * q \in Int /\ z * q \in Int
      /\ (2 * sum) * q = 2 * (x * q) + 2 * (y * q) - 2 * (z * q)
    BY <1>1
<1>3. -3 * q <= (2 * sum) * q /\ (2 * sum) * q <= 3 * q
    BY <1>1, <1>2 DEF IsHalf
<1>4. -3 <= 2 * sum /\ 2 * sum <= 3
    <2>1. 2 * sum \in Int
        BY <1>1
    <2> HIDE DEF sum
    <2> QED BY <1>3, <2>1, Cancel
<1> QED BY <1>1, <1>4 DEF WithinHalves, x, y, z

\* The net amount and the tax of a unit, each rounded for itself, are within a
\* cent of its gross amount, for every line and every shipping price of a cart.
THEOREM TaxLineAmountsAddUp == Spec => []TaxLinesAddUp
<1>1. Init => TaxLinesAddUp
    BY DEF Init, TaxLinesAddUp
<1>2. IInv /\ [Next]_vars /\ TaxLinesAddUp => TaxLinesAddUp'
    <2> SUFFICES ASSUME IInv, [Next]_vars, TaxLinesAddUp
                 PROVE  TaxLinesAddUp'
        OBVIOUS
    <2>1. CASE MapCartData
        <3>1. cart \in Cart
            BY <2>1, CartsAssumption DEF IInv, StepsInOrder, MapCartData
        <3>2. ASSUME NEW line \in PricedLine, HasTaxLine(line), NEW l, l = TaxLine(line)
              PROVE  WithinHalves(l.amountExcludingTax + l.taxAmount - l.amountIncludingTax, 2)
            <4>1. line.net \in Int /\ line.tax \in Int /\ line.quantity \in Nat \ {0}
                BY <3>2 DEF PricedLine, Line, HasTaxLine, OptionalInt
            <4>2. /\ l.amountExcludingTax = RoundFixed(line.net, line.quantity)
                  /\ l.taxAmount = RoundFixed(line.tax, line.quantity)
                  /\ l.amountIncludingTax = RoundFixed(line.net + line.tax, line.quantity)
                BY <3>2 DEF TaxLine
            <4> QED BY <4>1, <4>2, TaxLineAddsUp
        <3>3. ASSUME NEW l \in CreateLineItems(cart)
              PROVE  \E line \in PricedLine : HasTaxLine(line) /\ l = TaxLine(line)
            <4>1. CASE \E i \in DOMAIN cart.lines :
                         HasTaxLine(cart.lines[i]) /\ l = TaxLine(cart.lines[i])
                <5>1. cart.lines \in Seq(PricedLine)
                    BY <3>1 DEF Cart
                <5> QED BY <4>1, <5>1
            <4>2. CASE \E s \in cart.shipping :
                         HasTaxLine(s) /\ l = TaxLineOfShipping(s)
                <5>1. PICK s \in cart.shipping : HasTaxLine(s) /\ l = TaxLineOfShipping(s)
                    BY <4>2
                <5> DEFINE unit == [s EXCEPT !.quantity = 1]
                <5>2. s \in PricedLine
                    BY <3>1 DEF Cart
                <5>3. unit \in PricedLine /\ HasTaxLine(unit)
                    BY <5>1, <5>2 DEF PricedLine, Line, HasTaxLine
                <5> QED BY <5>1, <5>3 DEF TaxLineOfShipping
            <4> QED BY <4>1, <4>2 DEF CreateLineItems
        <3>4. taxLines' \subseteq CreateLineItems(cart)
            BY <2>1 DEF MapCartData
        <3> QED BY <3>2, <3>3, <3>4 DEF TaxLinesAddUp
    <2>2. CASE UNCHANGED taxLines
        BY <2>2 DEF TaxLinesAddUp
    <2> QED BY <2>1, <2>2 DEF Next, FetchCart, SumUp, MapLine, LinesMapped,
                              MapCustomerData, FetchFails, vars
<1> QED BY <1>1, <1>2, Invariance, PTL DEF Spec

-----------------------------------------------------------------------------
(* Types *)

LEMMA RoundIsNatural ==
    ASSUME NEW n \in Nat, NEW d \in Nat \ {0}
    PROVE  /\ Round(n, d) \in Nat
           /\ (2 * n + d) % (2 * d) = 0 => Round(n, d) - 1 \in Nat
<1> DEFINE a == 2 * n + d
           b == 2 * d
           q == a \div b
<1>1. a \in Nat \ {0} /\ b \in Nat \ {0}
    OBVIOUS
<1>2. q \in Int /\ a < b * q + b /\ (a % b = 0 => a = b * q)
    <2> HIDE DEF a, b
    <2> QED BY <1>1, Quotient
<1>3. Round(n, d) = q
    BY DEF Round
<1> HIDE DEF q
<1>4. q >= 0
    <2>1. ASSUME q <= -1 PROVE FALSE
        <3> HIDE DEF a, b
        <3>1. b * q <= b * (-1)
            BY <1>1, <1>2, <2>1
        <3> QED BY <1>1, <1>2, <3>1
    <2> QED BY <1>2, <2>1
<1>5. a % b = 0 => q # 0
    <2> HIDE DEF a, b
    <2> QED BY <1>1, <1>2
<1> QED BY <1>2, <1>3, <1>4, <1>5

\* A share of a discount is not negative, also when a half is rounded down, for
\* a price with the sign of the total.
LEMMA ShareIsNatural ==
    ASSUME NEW price \in Int, NEW discount \in Nat, NEW total \in Int \ {0},
           NEW share \in Shares(price * discount, total),
           ~(price < 0 /\ total > 0), ~(price > 0 /\ total < 0)
    PROVE  share \in Nat
<1> DEFINE n == price * discount
           a == IF total < 0 THEN -n ELSE n
           b == IF total < 0 THEN -total ELSE total
<1>1. a \in Nat /\ b \in Nat \ {0}
    <2>1. price \in Nat => n \in Nat
        OBVIOUS
    <2>2. -price \in Nat => -n \in Nat
        <3>1. -n = (-price) * discount
            OBVIOUS
        <3> QED BY <3>1
    <2> HIDE DEF n
    <2>3. n \in Int
        BY DEF n
    <2> QED BY <2>1, <2>2, <2>3
<1>2. share = Round(a, b) \/ (share = Round(a, b) - 1 /\ (2 * a + b) % (2 * b) = 0)
    BY DEF Shares
<1> HIDE DEF a, b
<1> QED BY <1>1, <1>2, RoundIsNatural

\* What a line is given: the merchant's numbers, or numbers of the right sign.
LEMMA DetailIsTyped ==
    ASSUME NEW line \in Line, NEW N, N = Nat \/ N = Int,
           NEW total \in Nat \cup {NaN}, NEW discount \in N \cup {NaN}
    PROVE  LET d == DetailLine(line, total, discount)
           IN  /\ d.quantity \in Nat \ {0}
               /\ d.totalAmount \in Nat \cup {NaN}
               /\ d.discountAmount \in N \cup {NaN}
               /\ d.unitPrice.amount \in N \cup {NaN}
<1> DEFINE quantity == Given(line.provided.quantity, line.quantity)
           totalAmount == Given(line.provided.totalAmount, total)
           discountAmount == Given(line.provided.discountAmount, discount)
           d == DetailLine(line, total, discount)
<1>1. /\ quantity \in Nat \ {0}
      /\ totalAmount \in Nat \cup {NaN}
      /\ discountAmount \in N \cup {NaN}
    BY DEF Line, Given, OptionalNat
<1>2. /\ d.quantity = quantity
      /\ d.totalAmount = totalAmount
      /\ d.discountAmount = discountAmount
      /\ \/ d.unitPrice.amount = line.provided.unitPrice /\ line.provided.unitPrice # NoValue
         \/ d.unitPrice.amount = NaN
         \/ /\ NaN \notin {totalAmount, discountAmount}
            /\ d.unitPrice.amount = totalAmount + discountAmount
    BY DEF DetailLine
<1>3. line.provided.unitPrice # NoValue => line.provided.unitPrice \in N
    BY DEF Line, OptionalNat
<1> HIDE DEF quantity, totalAmount, discountAmount, d
<1>4. d.unitPrice.amount \in N \cup {NaN}
    BY <1>1, <1>2, <1>3
<1> QED BY <1>1, <1>2, <1>4 DEF d

LEMMA MapLineIsTyped ==
    ASSUME IInv, TypeOK, MapLine
    PROVE  TypeOK'
<1> DEFINE k == Len(details)
           line == cart.lines[k + 1]
           N == IF IsOpposed(line) THEN Int ELSE Nat
<1>1. /\ cart # NoCart /\ k \in Nat /\ k < Len(cart.lines)
      /\ UNCHANGED <<cart, pc, mapped, sums>>
    BY DEF MapLine, IInv, StepsInOrder
<1>2. line \in Line /\ Price(line) \in Int /\ cart.discount \in Nat
    <2>1. /\ cart.lines \in Seq(Line) /\ cart.discount \in Nat
          /\ \A i \in DOMAIN cart.lines : Price(cart.lines[i]) \in Int
        BY <1>1, CartTypes DEF IInv
    <2>2. k + 1 \in DOMAIN cart.lines
        BY <1>1, <2>1
    <2> QED BY <2>1, <2>2
<1>3. line.included # NoValue => line.included \in Nat
    BY <1>2 DEF Line, OptionalNat
<1>4. Total \in Int
    BY DEF IInv, SumsAreSums, Total
<1>5. PICK total \in Nat \cup {NaN}, discount \in N \cup {NaN} :
        details' = Append(details, DetailLine(line, total, discount))
    <2>1. CASE Total # 0
        <3>1. PICK share \in Shares(Price(line) * cart.discount, Total) :
                details' = Append(details,
                    DetailLine(line, TotalAmount(line, share), DiscountAmount(line, share)))
            BY <2>1 DEF MapLine
        <3>2. share \in Int
            <4>1. Price(line) * cart.discount \in Int
                BY <1>2
            <4> QED BY <1>4, <2>1, <3>1, <4>1, ShareIsRounded
        <3>3. ~IsOpposed(line) => share \in Nat
            <4> SUFFICES ASSUME ~IsOpposed(line)
                         PROVE  share \in Nat
                OBVIOUS
            <4>1. ~(Price(line) < 0 /\ Total > 0) /\ ~(Price(line) > 0 /\ Total < 0)
                BY DEF IsOpposed
            <4> QED BY <1>2, <1>4, <2>1, <3>1, <4>1, ShareIsNatural
        <3>4. TotalAmount(line, share) \in Nat
            BY <1>2, <3>2 DEF TotalAmount, AtLeastZero
        <3>5. DiscountAmount(line, share) \in N
            BY <1>3, <3>2, <3>3 DEF DiscountAmount, AtLeastZero
        <3> QED BY <3>1, <3>4, <3>5
    <2>2. CASE Total = 0
        <3>1. details' = Append(details,
                DetailLine(line, TotalByZero(line), DiscountByZero(line)))
            BY <2>2 DEF MapLine
        <3>2. TotalByZero(line) \in Nat \cup {NaN} /\ DiscountByZero(line) \in N \cup {NaN}
            BY DEF TotalByZero, DiscountByZero
        <3> QED BY <3>1, <3>2
    <2> QED BY <2>1, <2>2
<1> DEFINE d == DetailLine(line, total, discount)
<1>6. \A i \in DOMAIN details' :
        \/ i \in DOMAIN details /\ details'[i] = details[i]
        \/ i = k + 1 /\ details'[i] = d
    <2>1. PICK S : details \in Seq(S)
        BY DEF IInv
    <2> HIDE DEF d
    <2> QED BY <1>5, <2>1 DEF d
<1>7. /\ d.quantity \in Nat \ {0}
      /\ d.totalAmount \in Nat \cup {NaN}
      /\ d.discountAmount \in AmountsOf(line)
      /\ d.unitPrice.amount \in AmountsOf(line)
    <2>1. AmountsOf(line) = N \cup {NaN}
        BY DEF AmountsOf
    <2>2. N = Nat \/ N = Int
        OBVIOUS
    <2> HIDE DEF N
    <2> QED BY <1>2, <2>1, <2>2, DetailIsTyped
<1>8. \A l : AmountsOf(l)' = AmountsOf(l)
    BY <1>1 DEF AmountsOf, IsOpposed, Price, HasTaxLine, Total
<1> HIDE DEF d
<1> QED BY <1>1, <1>6, <1>7, <1>8 DEF TypeOK

\* No total that Adyen is sent for a line is negative, and no discount or unit
\* price but for a line whose price has the other sign than the total (a
\* custom line item that takes something off), however a half is rounded and
\* whatever discounts meet; and each value of the request has a known origin.
THEOREM TypeCorrect == Spec => []TypeOK
<1>1. Init => TypeOK
    BY DEF Init, TypeOK
<1>2. IInv /\ IInv' /\ [Next]_vars /\ TypeOK => TypeOK'
    <2> SUFFICES ASSUME IInv, IInv', [Next]_vars, TypeOK
                 PROVE  TypeOK'
        OBVIOUS
    <2>1. CASE MapLine
        BY <2>1, MapLineIsTyped
    <2>2. CASE SumUp
        <3>1. \A i \in DOMAIN sums' : sums'[i] \in Int
            BY DEF IInv, SumsAreSums
        <3>2. pc' \in {pc, "lines"} /\ UNCHANGED <<mapped, details>> /\ details = <<>>
            BY <2>2 DEF SumUp, IInv, StepsInOrder
        <3> QED BY <3>1, <3>2 DEF TypeOK
    <2>3. ASSUME UNCHANGED <<cart, sums, details>>,
                 pc' \in {"cart", "map", "sum", "lines", "customer", "done", "failed"},
                 mapped' \in [Fields -> {"merchant", "cart", "customer", "today", "none"}]
          PROVE  TypeOK'
        <3>1. \A l : AmountsOf(l)' = AmountsOf(l)
            BY <2>3 DEF AmountsOf, IsOpposed, Price, HasTaxLine, Total
        <3> QED BY <2>3, <3>1 DEF TypeOK
    <2>4. CASE MapCartData
        BY <2>3, <2>4 DEF MapCartData, TypeOK
    <2>5. CASE FetchCart \/ LinesMapped \/ FetchFails
        BY <2>3, <2>5 DEF FetchCart, LinesMapped, FetchFails, TypeOK
    <2>6. CASE MapCustomerData
        BY <2>3, <2>6 DEF MapCustomerData, TypeOK
    <2>7. CASE UNCHANGED vars
        BY <2>3, <2>7 DEF vars, TypeOK
    <2> QED BY <2>1, <2>2, <2>4, <2>5, <2>6, <2>7 DEF Next
<1> QED BY <1>1, <1>2, Invariance, PTL DEF Spec
=============================================================================
