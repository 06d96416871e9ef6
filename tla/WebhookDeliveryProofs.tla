----------------------- MODULE WebhookDeliveryProofs -----------------------
(***************************************************************************)
(* The safety properties of WebhookDelivery, for any batches and any       *)
(* number of requests.                                                     *)
(***************************************************************************)
EXTENDS WebhookDelivery, TLAPS

\* A request has settled what lies behind it, and its answer is [accepted]
\* only if the batch may be acknowledged.
ProgressIsSettled ==
    \A q \in Requests :
        requests[q].pc = "working" =>
            SettledBefore(requests[q].batch, requests[q].next)

AnswersAreSettled ==
    \A q \in Requests :
        requests[q].pc = "answered" /\ requests[q].response = "accepted" =>
            IsAcknowledgeable(requests[q].batch)

IInv ==
    /\ TypeOK
    /\ ProgressIsSettled
    /\ AnswersAreSettled
    /\ AcknowledgedIsSettled
    /\ InOrder

----------------------------------------------------------------------------
(* Requests *)

\* The two forms of a request that is not free.
LEMMA RequestFields ==
    ASSUME NEW r \in Request
    PROVE  /\ r.pc \in {"free", "working", "answered"}
           /\ r.pc = "working" => r.batch \in Batches /\ r.next \in Nat \ {0}
           /\ r.pc = "answered" =>
                /\ r.batch \in Batches
                /\ r.response \in {"accepted", "401", "500"}
BY DEF Request

\* Settled items stay settled when more items are handled or fail.
LEMMA StaysSettled ==
    ASSUME handled \subseteq handled', failed \subseteq failed',
           NEW b
    PROVE  /\ \A n : SettledBefore(b, n) => SettledBefore(b, n)'
           /\ IsAcknowledgeable(b) => IsAcknowledgeable(b)'
BY DEF SettledBefore, IsSettled, IsAcknowledgeable

\* The loop has the items of the batch, numbered from 1.
LEMMA CurrentPosition ==
    ASSUME TypeOK, NEW q \in Requests, HasItem(q)
    PROVE  /\ requests[q].batch \in Batches
           /\ requests[q].next \in DOMAIN ItemsOf[requests[q].batch]
<1>1. requests[q] \in Request
  BY DEF TypeOK
<1>2. requests[q].batch \in Batches /\ requests[q].next \in Nat \ {0}
  BY <1>1, RequestFields DEF HasItem
<1>3. ItemsOf[requests[q].batch] \in Seq(Item)
  BY <1>2, ItemsAssumption
<1> QED
  BY <1>2, <1>3 DEF HasItem

----------------------------------------------------------------------------
(* One lemma for each way a request changes *)

\* The item in front has been settled: the loop goes on.
LEMMA GoingOn ==
    ASSUME IInv, NEW q \in Requests, HasItem(q), GoOn(q),
           NEW b, NEW n, Position(q) = <<b, n>>, IsSettled(b, n)',
           handled' \in {handled, handled \cup {Position(q)}},
           UNCHANGED <<acknowledged, failed>>
    PROVE  IInv'
<1>0. b = requests[q].batch /\ n = requests[q].next
  BY DEF Position
<1>1. b \in Batches /\ n \in DOMAIN ItemsOf[b] /\ n \in Nat \ {0}
  BY <1>0, CurrentPosition, RequestFields DEF IInv, TypeOK, HasItem
<1>2. ItemsOf[b] \in Seq(Item)
  BY <1>1, ItemsAssumption
<1>3. requests[q].pc = "working" /\ SettledBefore(b, n)
  BY <1>0 DEF HasItem, IInv, ProgressIsSettled
<1>4. \A c : /\ \A k : SettledBefore(c, k) => SettledBefore(c, k)'
             /\ IsAcknowledgeable(c) => IsAcknowledgeable(c)'
  BY StaysSettled
<1>5. requests[q] \in [pc: {"working"}, batch: Batches, next: Nat \ {0}]
  BY <1>3 DEF IInv, TypeOK, Request
<1>6. requests' = [requests EXCEPT ![q] = [requests[q] EXCEPT !.next = n + 1]]
  BY <1>0 DEF GoOn
<1>7. \A r \in [pc: {"working"}, batch: Batches, next: Nat \ {0}] :
        [r EXCEPT !.next = n + 1]
            = [pc |-> "working", batch |-> r.batch, next |-> n + 1]
  OBVIOUS
<1>8. requests' = [requests EXCEPT ![q] =
        [pc |-> "working", batch |-> b, next |-> n + 1]]
  BY <1>0, <1>5, <1>6, <1>7
<1>9. TypeOK'
  BY <1>1, <1>8 DEF IInv, TypeOK, Request, Position
<1>10. ProgressIsSettled'
  <2>1. SettledBefore(b, n + 1)'
    <3>1. SettledBefore(b, n)'
      BY <1>3, <1>4
    <3>2. \A i \in DOMAIN ItemsOf[b] : i < n + 1 => i < n \/ i = n
      BY <1>1, <1>2
    <3> QED
      BY <3>1, <3>2 DEF SettledBefore
  <2> QED
    BY <1>4, <1>8, <2>1 DEF IInv, TypeOK, ProgressIsSettled
<1>11. AnswersAreSettled'
  BY <1>4, <1>8 DEF IInv, TypeOK, AnswersAreSettled
<1>12. AcknowledgedIsSettled'
  BY <1>4 DEF IInv, AcknowledgedIsSettled
<1>13. InOrder'
  BY <1>3, <1>4 DEF IInv, InOrder, Position
<1> QED
  BY <1>9, <1>10, <1>11, <1>12, <1>13 DEF IInv

\* The loop has ended with an answer, which is [accepted] only if the batch
\* may be acknowledged.
LEMMA Answering ==
    ASSUME IInv, NEW q \in Requests, requests[q].pc = "working",
           NEW response \in {"accepted", "401", "500"}, Answer(q, response),
           NEW b, NEW n, Position(q) = <<b, n>>,
           handled' \in {handled, handled \cup {Position(q)}},
           failed' \in {failed, failed \cup {Position(q)}},
           UNCHANGED acknowledged,
           response = "accepted" => IsAcknowledgeable(b)'
    PROVE  IInv'
<1>0. b = requests[q].batch /\ n = requests[q].next
  BY DEF Position
<1>1. b \in Batches /\ n \in Nat \ {0} /\ SettledBefore(b, n)
  BY <1>0, RequestFields DEF IInv, TypeOK, ProgressIsSettled
<1>2. \A c : /\ \A k : SettledBefore(c, k) => SettledBefore(c, k)'
             /\ IsAcknowledgeable(c) => IsAcknowledgeable(c)'
  BY StaysSettled
<1>3. requests' = [requests EXCEPT ![q] =
        [pc |-> "answered", batch |-> b, response |-> response]]
  BY <1>0 DEF Answer
<1>4. TypeOK'
  BY <1>1, <1>3 DEF IInv, TypeOK, Request, Position
<1>5. ProgressIsSettled'
  BY <1>2, <1>3 DEF IInv, TypeOK, ProgressIsSettled
<1>6. AnswersAreSettled'
  BY <1>2, <1>3 DEF IInv, TypeOK, AnswersAreSettled
<1>7. AcknowledgedIsSettled'
  BY <1>2 DEF IInv, AcknowledgedIsSettled
<1>8. InOrder'
  BY <1>1, <1>2 DEF IInv, InOrder, Position
<1> QED
  BY <1>4, <1>5, <1>6, <1>7, <1>8 DEF IInv

\* A request begins with the first item of its batch, or it is over.
LEMMA StartingOrEnding ==
    ASSUME IInv, NEW q \in Requests,
           \/ requests' = [requests EXCEPT ![q] = [pc |-> "free"]]
           \/ \E b \in Batches : requests' = [requests EXCEPT ![q] =
                                  [pc |-> "working", batch |-> b, next |-> 1]],
           acknowledged' \subseteq Batches,
           \A b \in acknowledged' : IsAcknowledgeable(b),
           UNCHANGED <<handled, failed>>
    PROVE  IInv'
<1>1. \A c : /\ \A k : SettledBefore(c, k)' <=> SettledBefore(c, k)
             /\ IsAcknowledgeable(c)' <=> IsAcknowledgeable(c)
  BY DEF SettledBefore, IsSettled, IsAcknowledgeable
<1>2. \A b \in Batches : SettledBefore(b, 1)
  <2> TAKE b \in Batches
  <2>1. ItemsOf[b] \in Seq(Item)
    BY ItemsAssumption
  <2> QED
    BY <2>1 DEF SettledBefore
<1>3. TypeOK'
  BY DEF IInv, TypeOK, Request
<1>4. ProgressIsSettled'
  BY <1>1, <1>2 DEF IInv, TypeOK, ProgressIsSettled
<1>5. AnswersAreSettled'
  BY <1>1 DEF IInv, TypeOK, AnswersAreSettled
<1>6. AcknowledgedIsSettled'
  BY <1>1 DEF AcknowledgedIsSettled
<1>7. InOrder'
  BY <1>1 DEF IInv, InOrder
<1> QED
  BY <1>3, <1>4, <1>5, <1>6, <1>7 DEF IInv

----------------------------------------------------------------------------
(* Steps *)

\* Each action is one of the three changes.
LEMMA WorkPreserves ==
    ASSUME IInv, NEW q \in Requests, Work(q)
    PROVE  IInv'
<1>0. PICK b, n : b = requests[q].batch /\ n = requests[q].next
  OBVIOUS
<1> Position(q) = <<b, n>> /\ CurrentItem(q) = ItemsOf[b][n]
  BY <1>0 DEF Position, CurrentItem
<1>1. HasItem(q) => /\ b \in Batches
                    /\ n \in DOMAIN ItemsOf[b]
                    /\ SettledBefore(b, n)
  BY <1>0, CurrentPosition DEF IInv, HasItem, ProgressIsSettled
<1>2. HasItem(q) => requests[q].pc = "working"
  BY DEF HasItem
<1>3. ASSUME HasItem(q), handled \subseteq handled', Position(q) \in failed'
      PROVE  IsAcknowledgeable(b)'
  BY <1>1, <1>3 DEF IsAcknowledgeable, SettledBefore, IsSettled
<1>4. CASE Misconfigured(q)
  <2>1. Position(q) \in failed' /\ handled' = handled
    BY <1>4 DEF Misconfigured
  <2> QED
    BY <1>2, <1>3, <1>4, <2>1, Answering DEF Misconfigured
<1>5. CASE Reject(q)
  BY <1>2, <1>5, Answering DEF Reject
<1>6. CASE Drop(q)
  <2>1. IsSettled(b, n)'
    BY <1>6 DEF Drop, IsSettled
  <2> QED
    BY <1>6, <2>1, GoingOn DEF Drop
<1>7. CASE ProcessItem(q)
  <2>1. IsSettled(b, n)'
    BY <1>7 DEF ProcessItem, IsSettled
  <2> QED
    BY <1>7, <2>1, GoingOn DEF ProcessItem
<1>8. CASE ProcessItemFails(q)
  <2>1. PICK status \in {"409", "4xx", "5xx"} :
          /\ Answer(q, ResponseTo(status))
          /\ failed' = IF status = "4xx" THEN failed \cup {Position(q)} ELSE failed
    BY <1>8 DEF ProcessItemFails
  <2>2. ResponseTo(status) = "accepted" => status = "4xx"
    BY DEF ResponseTo, IsRecoverable
  <2>3. ResponseTo(status) = "accepted" => IsAcknowledgeable(b)'
    BY <1>3, <1>8, <2>1, <2>2 DEF ProcessItemFails
  <2>4. ResponseTo(status) \in {"accepted", "401", "500"}
    BY DEF ResponseTo
  <2> QED
    BY <1>2, <1>8, <2>1, <2>3, <2>4, Answering DEF ProcessItemFails
<1>9. CASE Finish(q)
  <2>1. requests[q].pc = "working" /\ ~(n <= Len(ItemsOf[b]))
    BY <1>0, <1>9 DEF Finish, HasItem
  <2>2. b \in Batches /\ n \in Nat /\ SettledBefore(b, n)
    BY <1>0, <2>1, RequestFields DEF IInv, TypeOK, ProgressIsSettled
  <2>3. ItemsOf[b] \in Seq(Item)
    BY <2>2, ItemsAssumption
  <2>4. \A i \in DOMAIN ItemsOf[b] : i < n
    BY <2>1, <2>2, <2>3
  <2>5. SettledBefore(b, Len(ItemsOf[b]) + 1)
    BY <2>2, <2>4 DEF SettledBefore
  <2>6. IsAcknowledgeable(b)'
    BY <1>9, <2>5 DEF Finish, IsAcknowledgeable, SettledBefore, IsSettled
  <2> QED
    BY <1>9, <2>1, <2>6, Answering DEF Finish
<1> QED
  BY <1>4, <1>5, <1>6, <1>7, <1>8, <1>9 DEF Work

\* The invariant is inductive.
LEMMA StepPreserves == IInv /\ [Next]_vars => IInv'
<1> SUFFICES ASSUME IInv, [Next]_vars PROVE IInv'
  OBVIOUS
<1>1. ASSUME NEW q \in Requests, NEW b \in Batches, Deliver(q, b) PROVE IInv'
  BY <1>1, StartingOrEnding DEF Deliver, IInv, TypeOK, AcknowledgedIsSettled
<1>2. ASSUME NEW q \in Requests, Work(q) PROVE IInv'
  BY <1>2, WorkPreserves
<1>3. ASSUME NEW q \in Requests, Return(q) PROVE IInv'
  <2>1. requests[q].pc = "answered" /\ requests[q].batch \in Batches
    BY <1>3, RequestFields DEF Return, IInv, TypeOK
  <2>2. acknowledged' \subseteq Batches
    BY <1>3, <2>1 DEF Return, IInv, TypeOK
  <2>3. \A b \in acknowledged' : IsAcknowledgeable(b)
    BY <1>3, <2>1 DEF Return, IInv, AnswersAreSettled, AcknowledgedIsSettled
  <2> QED
    BY <1>3, <2>2, <2>3, StartingOrEnding DEF Return
<1>4. ASSUME NEW q \in Requests, Break(q) PROVE IInv'
  BY <1>4, StartingOrEnding DEF Break, IInv, TypeOK, AcknowledgedIsSettled
<1>5. CASE UNCHANGED vars
  BY <1>5 DEF vars, IInv, TypeOK, ProgressIsSettled, AnswersAreSettled,
     AcknowledgedIsSettled, InOrder, SettledBefore, IsSettled, IsAcknowledgeable
<1> QED
  BY <1>1, <1>2, <1>3, <1>4, <1>5 DEF Next

----------------------------------------------------------------------------
(* Theorems *)

\* The inductive invariant: what has been passed, answered or acknowledged in
\* any of the parallel deliveries has been settled in the order of the batch.
THEOREM Invariance == Spec => []IInv
<1>1. Init => IInv
  BY DEF Init, IInv, TypeOK, Request, ProgressIsSettled, AnswersAreSettled,
     AcknowledgedIsSettled, InOrder
<1> QED
  BY <1>1, StepPreserves, PTL DEF Spec

\* Type correctness of the requests, the acknowledgements and the histories.
THEOREM TypeCorrect == Spec => []TypeOK
BY Invariance, PTL DEF IInv

\* What Adyen will not deliver again has been dealt with, up to the end of the
\* batch or up to an item that no repetition would cure.
THEOREM NothingAcknowledgedTooEarly == Spec => []AcknowledgedIsSettled
BY Invariance, PTL DEF IInv

\* Items reach their payments in the order of their batch, over any number of
\* failed, repeated and parallel deliveries.
THEOREM ItemsInOrder == Spec => []InOrder
BY Invariance, PTL DEF IInv

----------------------------------------------------------------------------
(* The ordered delivery that the requests implement *)

DoneOf(b) == Positions(b, handled)
GivenUp == {b \in Batches : Positions(b, failed) # {}}

\* Items that reach their payment, or fail for good, are those of a step of
\* one request at its position.
LEMMA AttemptIsOrdered ==
    ASSUME IInv, NEW b \in Batches, NEW i \in DOMAIN ItemsOf[b],
           ~IsDropped(ItemsOf[b][i]), SettledBefore(b, i),
           handled' \in {handled, handled \cup {<<b, i>>}},
           failed' \in {failed, failed \cup {<<b, i>>}},
           UNCHANGED acknowledged
    PROVE  Delivery!Attempt(b, i)
<1>1. i \in DuePositions[b]
  BY DEF DuePositions
<1>2. Delivery!IsNext(b, i)
  BY DEF Delivery!IsNext, DuePositions, Positions, SettledBefore, IsSettled
<1>3. [c \in Batches |-> Positions(c, handled)]' \in
        {[c \in Batches |-> Positions(c, handled)],
         [[c \in Batches |-> Positions(c, handled)] EXCEPT ![b] = @ \cup {i}]}
  <2>1. CASE handled' = handled
    BY <2>1 DEF Positions
  <2>2. CASE handled' = handled \cup {<<b, i>>}
    <3>1. \A c \in Batches : Positions(c, handled)' =
            IF c = b THEN Positions(c, handled) \cup {i} ELSE Positions(c, handled)
      BY <2>2 DEF Positions
    <3> QED
      BY <3>1
  <2> QED
    BY <2>1, <2>2
<1>4. GivenUp' \in {GivenUp, GivenUp \cup {b}}
  <2>1. CASE failed' = failed
    BY <2>1 DEF GivenUp, Positions
  <2>2. CASE failed' = failed \cup {<<b, i>>}
    <3>1. \A c \in Batches : Positions(c, failed)' =
            IF c = b THEN Positions(c, failed) \cup {i} ELSE Positions(c, failed)
      BY <2>2 DEF Positions
    <3>2. GivenUp' = GivenUp \cup {b}
      BY <3>1 DEF GivenUp
    <3> QED
      BY <3>2
  <2> QED
    BY <2>1, <2>2
<1> QED
  BY <1>2, <1>3, <1>4 DEF Delivery!Attempt, GivenUp

\* Every step is a step of the ordered delivery, or invisible to Adyen.
LEMMA StepIsOrdered ==
    ASSUME IInv, [Next]_vars
    PROVE  [Delivery!Next]_(Delivery!vars)
<1>1. CASE UNCHANGED <<acknowledged, handled, failed>>
  BY <1>1 DEF Delivery!vars, Positions
<1>2. ASSUME NEW q \in Requests, Work(q)
      PROVE  [Delivery!Next]_(Delivery!vars)
  <2> DEFINE b == requests[q].batch
             i == requests[q].next
  <2>1. CASE UNCHANGED <<acknowledged, handled, failed>>
    BY <1>1, <2>1
  <2>2. CASE Misconfigured(q) \/ ProcessItem(q) \/ ProcessItemFails(q)
    <3>1. HasItem(q)
      BY <2>2 DEF Misconfigured, ProcessItem, ProcessItemFails
    <3>2. b \in Batches /\ i \in DOMAIN ItemsOf[b] /\ SettledBefore(b, i)
      BY <3>1, CurrentPosition DEF IInv, HasItem, ProgressIsSettled
    <3>3. ~IsDropped(ItemsOf[b][i])
      BY <2>2 DEF Misconfigured, ProcessItem, ProcessItemFails, IsProcessed,
                  CurrentItem, IsDropped
    <3>4. /\ handled' \in {handled, handled \cup {<<b, i>>}}
          /\ failed' \in {failed, failed \cup {<<b, i>>}}
          /\ UNCHANGED acknowledged
      BY <2>2 DEF Misconfigured, ProcessItem, ProcessItemFails, Position
    <3>5. Delivery!Attempt(b, i)
      BY <3>2, <3>3, <3>4, AttemptIsOrdered
    <3>6. i \in DuePositions[b]
      BY <3>2, <3>3 DEF DuePositions
    <3> QED
      BY <3>2, <3>5, <3>6 DEF Delivery!Next
  <2> QED
    BY <1>2, <2>1, <2>2 DEF Work, Reject, Drop, Finish
<1>3. ASSUME NEW q \in Requests, Return(q)
      PROVE  [Delivery!Next]_(Delivery!vars)
  <2> DEFINE b == requests[q].batch
  <2>1. requests[q].pc = "answered" /\ b \in Batches
    BY <1>3, RequestFields DEF Return, IInv, TypeOK
  <2>2. CASE requests[q].response # "accepted"
    BY <1>1, <1>3, <2>2 DEF Return
  <2>3. CASE requests[q].response = "accepted"
    <3>1. IsAcknowledgeable(b)
      BY <2>1, <2>3 DEF IInv, AnswersAreSettled
    <3>2. ItemsOf[b] \in Seq(Item)
      BY <2>1, ItemsAssumption
    <3>3. \A j \in DOMAIN ItemsOf[b] : j < Len(ItemsOf[b]) + 1
      BY <3>2
    <3>4. \/ DuePositions[b] \subseteq Positions(b, handled)
          \/ Positions(b, failed) # {}
      BY <2>1, <3>1, <3>3 DEF IsAcknowledgeable, SettledBefore, IsSettled,
                              DuePositions, Positions
    <3>5. acknowledged' = acknowledged \cup {b} /\ UNCHANGED <<handled, failed>>
      BY <1>3, <2>3 DEF Return
    <3>6. Delivery!Acknowledge(b)
      BY <2>1, <3>4, <3>5 DEF Delivery!Acknowledge, Positions
    <3> QED
      BY <2>1, <3>6 DEF Delivery!Next
  <2> QED
    BY <2>2, <2>3
<1> QED
  BY <1>1, <1>2, <1>3 DEF Next, Deliver, Break, vars

\* The endpoint implements the ordered delivery of each batch: initial states
\* are initial, and every step is one of its steps or a stutter.
THEOREM ImplementsDelivery == Spec => DeliversInOrder
<1>1. Init => Delivery!Init
  BY DEF Init, Delivery!Init, Positions
<1>2. IInv /\ [Next]_vars => [Delivery!Next]_(Delivery!vars)
  BY StepIsOrdered
<1> QED
  BY <1>1, <1>2, Invariance, PTL DEF Spec, DeliversInOrder, Delivery!Spec
============================================================================
