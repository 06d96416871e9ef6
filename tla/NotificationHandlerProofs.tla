--------------------- MODULE NotificationHandlerProofs ---------------------
(***************************************************************************)
(* Safety of concurrent invocations of processNotification, for any number *)
(* of invocations, payments and notifications.                             *)
(*                                                                         *)
(* The argument: a payment only ever grows (Newer), every copy that an     *)
(* invocation holds is an earlier state of the payment and the current one *)
(* if the versions agree (IsCopy), so an accepted update is an update of   *)
(* the payment as it is.                                                   *)
(***************************************************************************)
EXTENDS NotificationHandler, PaymentUpdateProofs

----------------------------------------------------------------------------
(* Payments grow *)

\* A payment is the one it was, or a later version that has all of it.
Newer(new, old) ==
    \/ new = old
    \/ new.version > old.version /\ Extends(new, old)

\* What an invocation has read of a payment: an earlier state of it.
IsCopy(copy, payment) ==
    /\ copy \in Payment
    /\ copy.version <= payment.version
    /\ copy.version = payment.version => copy = payment
    /\ Extends(payment, copy)

LEMMA PaymentFields ==
    ASSUME NEW payment \in Payment
    PROVE  /\ payment.version \in Nat
           /\ payment.transactions \in Seq(Transaction)
           /\ payment.interactions \in Seq(Text)
BY DEF Payment

LEMMA ExtendsItself ==
    ASSUME NEW payment \in Payment
    PROVE  Extends(payment, payment)
<1> DEFINE old == payment.transactions
<1>1. old \in Seq(Transaction)
    BY PaymentFields
<1> HIDE DEF old
<1>2. \A i \in DOMAIN old : CompareTransactionStates(old[i].state, old[i].state) >= 0
    BY <1>1, TransactionFields, SameState
<1>3. Len(old) <= Len(old)
    BY <1>1
<1>4. MovesForward(old, old)
    BY <1>2, <1>3 DEF MovesForward
<1> QED BY <1>4 DEF Extends, old

LEMMA ForwardIsTransitive ==
    ASSUME NEW a \in Seq(Transaction), NEW b \in Seq(Transaction),
           NEW c \in Seq(Transaction), MovesForward(a, b), MovesForward(b, c)
    PROVE  MovesForward(a, c)
<1>1. Len(a) <= Len(b) /\ Len(b) <= Len(c)
    BY DEF MovesForward
<1>2. ASSUME NEW i \in DOMAIN a
      PROVE  /\ c[i].type = a[i].type
             /\ c[i].interactionId = a[i].interactionId
             /\ \/ CompareTransactionStates(a[i].state, c[i].state) >= 0
                \/ /\ a[i].type = "Authorization"
                   /\ a[i].state = "Failure"
                   /\ c[i].state = "Success"
    <2>1. i \in DOMAIN b /\ i \in DOMAIN c
        BY <1>1
    <2> DEFINE type == a[i].type
               s == a[i].state
               t == b[i].state
               u == c[i].state
    <2>2. /\ s \in TransactionStates
          /\ t \in TransactionStates
          /\ u \in TransactionStates
        BY <2>1, TransactionFields
    <2>3. /\ b[i].type = type
          /\ b[i].interactionId = a[i].interactionId
          /\ \/ CompareTransactionStates(s, t) >= 0
             \/ type = "Authorization" /\ s = "Failure" /\ t = "Success"
        BY DEF MovesForward
    <2>4. /\ c[i].type = type
          /\ c[i].interactionId = b[i].interactionId
          /\ \/ CompareTransactionStates(t, u) >= 0
             \/ type = "Authorization" /\ t = "Failure" /\ u = "Success"
        BY <2>1, <2>3 DEF MovesForward
    <2>5. \/ CompareTransactionStates(s, u) >= 0
          \/ type = "Authorization" /\ s = "Failure" /\ u = "Success"
        <3> HIDE DEF type, s, t, u
        <3> QED BY <2>2, <2>3, <2>4, StateFlow DEF CompareTransactionStates
    <2> QED BY <2>3, <2>4, <2>5
<1>3. Len(a) <= Len(c)
    BY <1>1
<1> QED BY <1>2, <1>3 DEF MovesForward

LEMMA ExtendsIsTransitive ==
    ASSUME NEW a \in Payment, NEW b \in Payment, NEW c \in Payment,
           Extends(b, a), Extends(c, b)
    PROVE  Extends(c, a)
BY PaymentFields, ForwardIsTransitive DEF Extends

\* A copy stays a copy.
LEMMA CopyOfNewer ==
    ASSUME NEW copy, NEW old \in Payment, NEW new \in Payment,
           IsCopy(copy, old), Newer(new, old)
    PROVE  IsCopy(copy, new)
BY PaymentFields, ExtendsIsTransitive DEF IsCopy, Newer

LEMMA CopyOfItself ==
    ASSUME NEW payment \in Payment
    PROVE  IsCopy(payment, payment)
BY PaymentFields, ExtendsItself DEF IsCopy

LEMMA NewerReflects ==
    ASSUME NEW old \in Payment, NEW new \in Payment, Newer(new, old),
           NEW n \in Notification, Reflects(old, n)
    PROVE  Reflects(new, n)
BY ExtendsReflects DEF Newer

----------------------------------------------------------------------------
(* The inductive invariant *)

Running == {"fetchByKeys", "fetchByCustomField", "update", "refetch"}

\* Counters within their limits, and copies of the payment as it was.
Tracks(hr, store) ==
    /\ hr \in Handler
    /\ hr.pc \in Running => hr.item \in Notifications
    /\ hr.pc \in Running /\ ~hr.final => hr.retryCount < MaxRetry
    /\ hr.pc \in {"fetchByKeys", "fetchByCustomField"} =>
            ~hr.final /\ hr.fetched = NoValue
    /\ hr.pc \in {"update", "refetch"} =>
            /\ hr.payment \in Payments
            /\ IsCopy(hr.fetched, store[hr.payment])
            /\ IsCopy(hr.current, store[hr.payment])

\* The answer that the extension waits for is new to a payment that nobody has
\* written to since, unless Adyen was asked before; nothing is added until it
\* is stored.
AnswerIsNew(call, payment, results) ==
    /\ call.pc # "done" => call.added = 0
    /\ call.pc = "calling" =>
        /\ call.version <= payment.version
        /\ call.version = payment.version /\ ~call.repeated =>
              \A r \in results :
                  r.pspReference \notin References(payment.transactions)

IInv ==
    /\ TypeOK
    /\ \A h \in Handlers : Tracks(handlers[h], payments)
    /\ \A p \in Payments :
            AnswerIsNew(extension[p], payments[p], MakePaymentResults[p])
    /\ OneTransactionPerReference
    /\ ReportedIsReflected

----------------------------------------------------------------------------
(* The states of one invocation *)

\* An error in handleWebhook leads to another attempt, to the final update or
\* to the end of the invocation.
LEMMA CaughtTracks ==
    ASSUME NEW hr \in Handler, NEW store,
           hr.item \in Notifications, ~hr.final, hr.retryCount < MaxRetry,
           hr.fetched # NoValue =>
                /\ hr.payment \in Payments
                /\ IsCopy(hr.fetched, store[hr.payment])
    PROVE  Tracks(Caught(hr), store)
<1> DEFINE count == hr.retryCount + 1
<1>1. hr.retryCount \in Nat /\ MaxRetry \in Nat /\ MaxUpdateRetry \in Nat
    BY BoundsAssumption DEF Handler
<1>2. count \in 0 .. MaxRetry
    BY <1>1
<1>3. CASE count < MaxRetry /\ hr.item.eventCode \in RetriedEvents
    <2> DEFINE next == [IdleHandler EXCEPT !.pc = "fetchByKeys", !.item = hr.item,
                                           !.retryCount = count]
    <2>1. Caught(hr) = next
        BY <1>3 DEF Caught
    <2>2. /\ next.pc = "fetchByKeys" /\ next.item = hr.item
          /\ next.payment = NoValue /\ next.fetched = NoValue
          /\ next.current = NoValue /\ next.retryCount = count
          /\ next.updateRetryCount = 0 /\ next.final = FALSE
          /\ next.status = NoValue
        BY DEF IdleHandler
    <2>3. next \in Handler
        <3>1. IdleHandler \in Handler
            BY <1>1, BoundsAssumption DEF IdleHandler, Handler
        <3> HIDE DEF count
        <3> QED BY <1>2, <3>1 DEF Handler
    <2> HIDE DEF next
    <2> QED BY <1>3, <2>1, <2>2, <2>3 DEF Tracks
<1>4. CASE /\ ~(count < MaxRetry /\ hr.item.eventCode \in RetriedEvents)
           /\ hr.fetched # NoValue
    <2> DEFINE next == [hr EXCEPT !.pc = "update", !.current = hr.fetched,
                                  !.retryCount = count, !.updateRetryCount = 0,
                                  !.final = TRUE]
    <2>1. Caught(hr) = next
        BY <1>4 DEF Caught
    <2>2. /\ next.pc = "update" /\ next.item = hr.item
          /\ next.payment = hr.payment /\ next.fetched = hr.fetched
          /\ next.current = hr.fetched /\ next.final = TRUE
        BY DEF Handler
    <2>3. next \in Handler
        <3> DEFINE first == [hr EXCEPT !.pc = "update", !.current = hr.fetched,
                                       !.retryCount = count]
        <3>1. next = [first EXCEPT !.updateRetryCount = 0, !.final = TRUE]
            OBVIOUS
        <3>2. first \in Handler
            <4> HIDE DEF count
            <4> QED BY <1>2 DEF Handler
        <3>3. 0 \in 0 .. MaxUpdateRetry
            BY <1>1
        <3> HIDE DEF first, next
        <3> QED BY <3>1, <3>2, <3>3 DEF Handler
    <2> HIDE DEF next
    <2> QED BY <1>4, <2>1, <2>2, <2>3 DEF Tracks
<1>5. CASE /\ ~(count < MaxRetry /\ hr.item.eventCode \in RetriedEvents)
           /\ ~(hr.fetched # NoValue)
    <2> DEFINE next == [hr EXCEPT !.pc = "returned", !.retryCount = count]
    <2>1. Caught(hr) = next
        BY <1>5 DEF Caught
    <2>2. next.pc = "returned"
        BY DEF Handler
    <2>3. next \in Handler
        BY <1>1, <1>2 DEF Handler
    <2> HIDE DEF next
    <2> QED BY <2>1, <2>2, <2>3 DEF Tracks, Running
<1> QED BY <1>3, <1>4, <1>5

\* An invocation that has stopped tracks nothing.
LEMMA StoppedTracks ==
    ASSUME NEW hr \in Handler, NEW store,
           hr.pc \in {"idle", "returned", "threw"}
    PROVE  Tracks(hr, store)
BY DEF Tracks, Running

LEMMA ThrownTracks ==
    ASSUME NEW hr, NEW store, Tracks(hr, store), hr.pc \in {"update", "refetch"},
           NEW status \in Statuses
    PROVE  Tracks(Thrown(hr, status), store)
<1>1. hr \in Handler
    BY DEF Tracks
<1>2. CASE hr.final
    <2> DEFINE next == [hr EXCEPT !.pc = "threw", !.status = status]
    <2>1. Thrown(hr, status) = next
        BY <1>2 DEF Thrown
    <2>2. next \in Handler /\ next.pc = "threw"
        BY <1>1 DEF Handler
    <2> HIDE DEF next
    <2> QED BY <2>1, <2>2, StoppedTracks
<1>3. CASE ~hr.final
    <2>1. Thrown(hr, status) = Caught(hr)
        BY <1>3 DEF Thrown
    <2>2. /\ hr.item \in Notifications /\ hr.retryCount < MaxRetry
          /\ hr.payment \in Payments /\ IsCopy(hr.fetched, store[hr.payment])
        BY <1>3 DEF Tracks, Running
    <2> QED BY <1>1, <1>3, <2>1, <2>2, CaughtTracks
<1> QED BY <1>2, <1>3

\* A payment that was looked up is a copy of itself.
LEMMA FoundTracks ==
    ASSUME NEW hr, Tracks(hr, payments), payments \in [Payments -> Payment],
           hr.pc \in {"fetchByKeys", "fetchByCustomField"}, NEW p \in Payments
    PROVE  Tracks(Found(hr, p), payments)
<1> DEFINE found == [hr EXCEPT !.payment = p, !.fetched = payments[p],
                               !.current = payments[p]]
<1>1. hr \in Handler /\ payments[p] \in Payment
    BY DEF Tracks
<1>2. /\ found \in Handler
      /\ found.payment = p /\ found.fetched = payments[p]
      /\ found.current = payments[p] /\ found.item = hr.item
      /\ found.final = hr.final /\ found.retryCount = hr.retryCount
    BY <1>1 DEF Handler
<1>3. IsCopy(payments[p], payments[p])
    BY <1>1, CopyOfItself
<1>4. hr.item \in Notifications /\ ~hr.final /\ hr.retryCount < MaxRetry
    BY DEF Tracks, Running
<1>5. CASE payments[p].hasResponse
    <2> DEFINE next == [found EXCEPT !.pc = "update", !.updateRetryCount = 0]
    <2>1. Found(hr, p) = next
        BY <1>5 DEF Found
    <2> HIDE DEF found
    <2>2. next \in Handler
        <3>1. found \in Handler /\ 0 \in 0 .. MaxUpdateRetry
            BY <1>2, BoundsAssumption
        <3> QED BY <3>1 DEF Handler
    <2>3. /\ next.pc = "update"
          /\ next.payment = p /\ next.fetched = payments[p]
          /\ next.current = payments[p] /\ next.item = hr.item
          /\ next.final = hr.final /\ next.retryCount = hr.retryCount
        BY <1>2 DEF Handler
    <2> HIDE DEF next
    <2> QED BY <1>3, <1>4, <2>1, <2>2, <2>3 DEF Tracks
<1>6. CASE ~payments[p].hasResponse
    <2>1. Found(hr, p) = Caught(found)
        BY <1>6 DEF Found
    <2> HIDE DEF found
    <2> QED BY <1>2, <1>3, <1>4, <2>1, CaughtTracks
<1> QED BY <1>5, <1>6

\* What an invocation has read stays a copy while payments grow.
LEMMA TracksNewer ==
    ASSUME NEW hr, NEW old \in [Payments -> Payment],
           NEW new \in [Payments -> Payment],
           \A p \in Payments : Newer(new[p], old[p]),
           Tracks(hr, old)
    PROVE  Tracks(hr, new)
BY CopyOfNewer DEF Tracks

----------------------------------------------------------------------------
(* Writing to a payment *)

\* A write gives payment p a newer version and leaves the others alone.
LEMMA WriteIsNewer ==
    ASSUME payments \in [Payments -> Payment], NEW p \in Payments,
           NEW content \in Payment, content.version = payments[p].version,
           Extends(content, payments[p]), Write(p, content)
    PROVE  /\ payments' \in [Payments -> Payment]
           /\ \A q \in Payments : Newer(payments'[q], payments[q])
           /\ \A q \in Payments : q # p => payments'[q] = payments[q]
           /\ payments'[p].version > payments[p].version
           /\ payments'[p].transactions = content.transactions
           /\ payments'[p].interactions = content.interactions
<1> DEFINE version == content.version + 1
           next == [content EXCEPT !.version = version]
<1>1. payments' = [payments EXCEPT ![p] = next]
    BY DEF Write
<1>2. /\ next \in Payment /\ next.version > content.version
      /\ next.transactions = content.transactions
      /\ next.interactions = content.interactions
    <2>1. version \in Nat /\ version > content.version
        BY PaymentFields
    <2> HIDE DEF version
    <2> QED BY <2>1 DEF Payment
<1> HIDE DEF next
<1>3. Newer(next, payments[p])
    BY <1>2 DEF Newer, Extends
<1>4. /\ payments' \in [Payments -> Payment]
      /\ payments'[p] = next
      /\ \A q \in Payments : q # p => payments'[q] = payments[q]
    BY <1>1, <1>2
<1>5. \A q \in Payments : Newer(payments'[q], payments[q])
    <2>1. \A q \in Payments : q # p => Newer(payments'[q], payments[q])
        BY <1>4 DEF Newer
    <2>2. Newer(payments'[p], payments[p])
        BY <1>3, <1>4
    <2> QED BY <2>1, <2>2
<1> QED BY <1>2, <1>4, <1>5

\* The extension's answer adds at most an Authorization, and no second one for
\* its reference if that is new (createAddTransactionActionByResponse).
LEMMA AfterMakePaymentExtends ==
    ASSUME NEW payment \in Payment, NEW r \in MakePaymentResult
    PROVE  /\ AfterMakePayment(payment, r) \in Payment
           /\ AfterMakePayment(payment, r).version = payment.version
           /\ Extends(AfterMakePayment(payment, r), payment)
           /\ DistinctReferences(payment.transactions) =>
                /\ DistinctReferencesBut(AfterMakePayment(payment, r).transactions,
                                         AddedAt(payment, r))
                /\ r.pspReference \notin References(payment.transactions)
                   => DistinctReferences(AfterMakePayment(payment, r).transactions)
<1> DEFINE after == AfterMakePayment(payment, r)
           old == payment.transactions
           new == TransactionsAfterMakePayment(payment, r)
           t == MakePaymentTransaction(r)
<1>1. old \in Seq(Transaction)
    BY PaymentFields
<1>2. t \in Transaction /\ t.interactionId = r.pspReference
    BY StateFlow
    DEF MakePaymentTransaction, Transaction, TransactionTypes, MakePaymentResult
<1>3. new = old \/ new = Append(old, t)
    BY DEF TransactionsAfterMakePayment
<1>4. /\ after \in Payment /\ after.version = payment.version
      /\ after.transactions = new /\ after.interactions = payment.interactions
    <2> DEFINE method == IF r.method # NoValue THEN r.method ELSE payment.method
               key == KeyAfterMakePayment(payment, r)
               reference == IF r.reference # NoValue THEN r.reference
                            ELSE payment.merchantReference
               first == [payment EXCEPT !.hasResponse = TRUE, !.method = method,
                                        !.key = key]
    <2>1. after = [first EXCEPT !.merchantReference = reference,
                                !.transactions = new]
        BY DEF AfterMakePayment
    <2>2. method \in STRING \cup {NoValue}
        BY DEF MakePaymentResult, Payment
    <2>3. key \in STRING \cup {NoValue}
        BY DEF KeyAfterMakePayment, MakePaymentResult, Payment
    <2>4. reference \in STRING \cup {NoValue}
        BY DEF MakePaymentResult, Payment
    <2>5. new \in Seq(Transaction)
        <3> HIDE DEF new, old, t
        <3> QED BY <1>1, <1>2, <1>3
    <2> HIDE DEF method, key, reference, after, new
    <2>6. /\ first \in Payment /\ first.version = payment.version
          /\ first.interactions = payment.interactions
        BY <2>2, <2>3 DEF Payment
    <2> HIDE DEF first
    <2> QED BY <2>1, <2>4, <2>5, <2>6 DEF Payment
<1> HIDE DEF after, old, new, t
<1>5. Len(old) <= Len(new) /\ \A i \in DOMAIN old : new[i] = old[i]
    BY <1>1, <1>2, <1>3
<1>6. MovesForward(old, new)
    <2>1. MovesForward(old, old)
        BY ExtendsItself DEF Extends, old
    <2> QED BY <1>5, <2>1 DEF MovesForward
<1>7. ASSUME DistinctReferences(old), r.pspReference \notin References(old)
      PROVE  DistinctReferencesBut(new, 0)
    <2>1. CASE new = old
        BY <1>7, <2>1 DEF DistinctReferences
    <2>2. CASE new = Append(old, t)
        <3>1. \A i \in DOMAIN new : \/ i \in DOMAIN old /\ new[i] = old[i]
                                    \/ i = Len(old) + 1 /\ new[i] = t
            BY <1>1, <1>2, <2>2
        <3>2. \A i \in DOMAIN old :
                    old[i].interactionId = t.interactionId
                        => t.interactionId = NoValue
            BY <1>2, <1>7 DEF References
        <3> QED BY <1>1, <1>2, <1>7, <3>1, <3>2
                DEF DistinctReferences, DistinctReferencesBut
    <2> QED BY <1>3, <2>1, <2>2
<1>8. Extends(after, payment)
    BY <1>4, <1>6 DEF Extends, old
<1>9. ASSUME DistinctReferences(old)
      PROVE  DistinctReferencesBut(new, AddedAt(payment, r))
    <2>1. CASE r.resultCode = "other"
        BY <1>9, <2>1 DEF AddedAt, TransactionsAfterMakePayment, DistinctReferences, new, old
    <2>2. CASE r.resultCode # "other"
        <3>1. new = Append(old, t) /\ AddedAt(payment, r) = Len(old) + 1
            BY <2>2 DEF AddedAt, TransactionsAfterMakePayment, new, old, t
        <3>2. \A i \in DOMAIN new \ {Len(old) + 1} :
                    i \in DOMAIN old \ {0} /\ new[i] = old[i]
            BY <1>1, <1>2, <3>1
        <3> QED BY <1>9, <3>1, <3>2 DEF DistinctReferences, DistinctReferencesBut
    <2> QED BY <2>1, <2>2
<1> QED BY <1>4, <1>7, <1>8, <1>9 DEF after, old, new, AfterMakePayment, DistinctReferences

----------------------------------------------------------------------------
(* Steps *)

\* What a step has to show: payments grow, the invocations track them, no
\* reference appears twice, and what is newly reported is reflected.
LEMMA GrowingKeepsIInv ==
    ASSUME IInv,
           payments' \in [Payments -> Payment],
           \A p \in Payments : Newer(payments'[p], payments[p]),
           \A p \in Payments : DistinctReferencesBut(payments'[p].transactions, RepeatedAnswer(p)'),
           extension' \in [Payments -> ExtensionCall],
           \A p \in Payments :
                \/ extension'[p] = extension[p]
                \/ AnswerIsNew(extension'[p], payments'[p], MakePaymentResults[p]),
           handlers' \in [Handlers -> Handler],
           \A h \in Handlers : Tracks(handlers'[h], payments'),
           deliveries' \in [Notifications -> Nat],
           reported' \subseteq Notifications \X Payments,
           \A r \in reported' :
                r \in reported \/ Reflects(payments'[r[2]], r[1])
    PROVE  IInv'
<1>1. TypeOK'
    BY DEF TypeOK
<1>2. ASSUME NEW p \in Payments
      PROVE  AnswerIsNew(extension[p], payments[p], MakePaymentResults[p])'
    <2>1. AnswerIsNew(extension[p], payments[p], MakePaymentResults[p])
        BY DEF IInv
    <2>2. payments[p] \in Payment /\ payments'[p] \in Payment
        BY DEF IInv, TypeOK
    <2>3. payments'[p].version \in Nat /\ payments[p].version \in Nat
        BY <2>2, PaymentFields
    <2>4. extension[p].version \in Nat
        BY DEF IInv, TypeOK, ExtensionCall
    <2>5. \/ payments'[p] = payments[p]
          \/ payments'[p].version > payments[p].version
        BY DEF Newer
    <2> QED BY <2>1, <2>3, <2>4, <2>5 DEF AnswerIsNew
<1>3. OneTransactionPerReference'
    BY DEF OneTransactionPerReference
<1>4. ReportedIsReflected'
    <2>1. ASSUME NEW r \in reported', r \in reported
          PROVE  Reflects(payments'[r[2]], r[1])
        <3>1. r[1] \in Notification /\ r[2] \in Payments
            BY DataAssumption DEF IInv, TypeOK
        <3>2. Reflects(payments[r[2]], r[1])
            BY <2>1 DEF IInv, ReportedIsReflected
        <3>3. payments[r[2]] \in Payment /\ payments'[r[2]] \in Payment
            BY <3>1 DEF IInv, TypeOK
        <3> QED BY <3>1, <3>2, <3>3, NewerReflects
    <2> QED BY <2>1 DEF ReportedIsReflected
<1>5. \A h \in Handlers : Tracks(handlers[h], payments)'
    OBVIOUS
<1> QED BY <1>1, <1>2, <1>3, <1>4, <1>5 DEF IInv

\* One invocation moves, to a state that tracks the payments it has seen.
LEMMA OneHandlerMoves ==
    ASSUME IInv, NEW h \in Handlers, NEW next,
           handlers' = [handlers EXCEPT ![h] = next],
           Tracks(next, payments),
           payments' \in [Payments -> Payment],
           \A p \in Payments : Newer(payments'[p], payments[p])
    PROVE  /\ handlers' \in [Handlers -> Handler]
           /\ \A g \in Handlers : Tracks(handlers'[g], payments')
<1>1. handlers \in [Handlers -> Handler] /\ payments \in [Payments -> Payment]
    BY DEF IInv, TypeOK
<1>2. next \in Handler
    BY DEF Tracks
<1>3. \A g \in Handlers : Tracks(handlers'[g], payments)
    BY <1>1 DEF IInv
<1> QED BY <1>1, <1>2, <1>3, TracksNewer

\* A step of one invocation that writes nothing.
LEMMA ReadingKeepsIInv ==
    ASSUME IInv, NEW h \in Handlers, NEW next,
           handlers' = [handlers EXCEPT ![h] = next],
           Tracks(next, payments),
           UNCHANGED <<payments, extension, reported>>,
           deliveries' \in [Notifications -> Nat]
    PROVE  IInv'
<1>1. payments \in [Payments -> Payment]
    BY DEF IInv, TypeOK
<1>2. \A p \in Payments : Newer(payments'[p], payments[p])
    BY DEF Newer
<1>3. /\ handlers' \in [Handlers -> Handler]
      /\ \A g \in Handlers : Tracks(handlers'[g], payments')
    BY <1>1, <1>2, OneHandlerMoves
<1>4. /\ payments' \in [Payments -> Payment]
      /\ extension' \in [Payments -> ExtensionCall]
      /\ reported' \subseteq Notifications \X Payments
    BY <1>1 DEF IInv, TypeOK
<1>5. \A p \in Payments : DistinctReferencesBut(payments'[p].transactions, RepeatedAnswer(p)')
    BY DEF IInv, OneTransactionPerReference, RepeatedAnswer
<1> QED BY <1>2, <1>3, <1>4, <1>5, GrowingKeepsIInv

\* The invocation reports its notification as done on its payment.
LEMMA DoneKeepsIInv ==
    ASSUME IInv, NEW h \in Handlers, Done(h),
           handlers[h].pc = "update",
           payments' \in [Payments -> Payment],
           \A p \in Payments : Newer(payments'[p], payments[p]),
           \A p \in Payments : DistinctReferencesBut(payments'[p].transactions, RepeatedAnswer(p)),
           Reflects(payments'[handlers[h].payment], handlers[h].item),
           UNCHANGED <<extension, deliveries>>
    PROVE  IInv'
<1> DEFINE hr == handlers[h]
           next == [hr EXCEPT !.pc = "returned"]
           done == <<hr.item, hr.payment>>
<1>1. hr \in Handler /\ hr.item \in Notifications /\ hr.payment \in Payments
    BY DEF IInv, Tracks, Running
<1>2. handlers' = [handlers EXCEPT ![h] = next]
    BY DEF Done
<1>3. Tracks(next, payments)
    <2>1. next \in Handler /\ next.pc = "returned"
        BY <1>1 DEF Handler
    <2> HIDE DEF next
    <2> QED BY <2>1, StoppedTracks
<1>4. /\ handlers' \in [Handlers -> Handler]
      /\ \A g \in Handlers : Tracks(handlers'[g], payments')
    BY <1>2, <1>3, OneHandlerMoves
<1>5. reported' = reported \cup {done}
    BY DEF Done
<1>6. done \in Notifications \X Payments /\ Reflects(payments'[done[2]], done[1])
    BY <1>1
<1> HIDE DEF done
<1>7. reported' \subseteq Notifications \X Payments
    BY <1>5, <1>6 DEF IInv, TypeOK
<1>8. \A r \in reported' : r \in reported \/ Reflects(payments'[r[2]], r[1])
    BY <1>5, <1>6
<1>9. /\ extension' \in [Payments -> ExtensionCall]
      /\ deliveries' \in [Notifications -> Nat]
    BY DEF IInv, TypeOK
<1>10. \A p \in Payments : DistinctReferencesBut(payments'[p].transactions, RepeatedAnswer(p)')
    BY DEF RepeatedAnswer
<1> QED BY <1>4, <1>7, <1>8, <1>9, <1>10, GrowingKeepsIInv

\* An accepted update is the update of the payment as it is (ctpClient.update
\* with the version that the actions were calculated from).
LEMMA StoreIsUpdate ==
    ASSUME IInv, NEW h \in Handlers, Sends(h), Accepts(h), Store(h)
    PROVE  LET p == handlers[h].payment
               n == handlers[h].item
           IN  /\ payments' \in [Payments -> Payment]
               /\ \A q \in Payments : Newer(payments'[q], payments[q])
               /\ \A q \in Payments : DistinctReferencesBut(payments'[q].transactions, RepeatedAnswer(q))
               /\ Reflects(payments'[p], n)
<1> DEFINE hr == handlers[h]
           p == hr.payment
           n == hr.item
           content == Updated(payments[p], n)
<1>1. /\ hr \in Handler /\ p \in Payments /\ n \in Notification
      /\ IsCopy(hr.current, payments[p])
    BY DataAssumption DEF IInv, Tracks, Running, Sends
<1>2. payments \in [Payments -> Payment]
    BY DEF IInv, TypeOK
<1>3. hr.current = payments[p]
    BY DEF Accepts, IsCopy, IInv, Tracks, Sends
<1>4. Write(p, content)
    BY <1>3 DEF Store, Actions, Updated
<1>5. /\ payments[p] \in Payment
      /\ DistinctReferencesBut(payments[p].transactions, RepeatedAnswer(p))
    BY <1>1, <1>2 DEF IInv, OneTransactionPerReference
<1>6. /\ content \in Payment /\ content.version = payments[p].version
      /\ Extends(content, payments[p])
      /\ DistinctReferencesBut(content.transactions, RepeatedAnswer(p))
      /\ Reflects(content, n)
    BY <1>1, <1>5, UpdatedType, UpdateExtends, UpdateKeepsReferencesDistinct,
       UpdateReflects
    DEF Updated, Apply
<1> HIDE DEF content, p, n
<1>7. /\ payments' \in [Payments -> Payment]
      /\ \A q \in Payments : Newer(payments'[q], payments[q])
      /\ \A q \in Payments : q # p => payments'[q] = payments[q]
      /\ payments'[p].transactions = content.transactions
      /\ payments'[p].interactions = content.interactions
    BY <1>1, <1>2, <1>4, <1>6, WriteIsNewer
<1>8. \A q \in Payments : DistinctReferencesBut(payments'[q].transactions, RepeatedAnswer(q))
    BY <1>6, <1>7 DEF IInv, OneTransactionPerReference
<1>9. Reflects(payments'[p], n)
    BY <1>6, <1>7 DEF Reflects
<1> QED BY <1>7, <1>8, <1>9 DEF p, n

----------------------------------------------------------------------------
(* The invariant is inductive *)

LEMMA InitIInv == Init => IInv
<1> SUFFICES ASSUME Init PROVE IInv
    OBVIOUS
<1>1. PICK initial \in InitialPayments : payments = initial
    BY DEF Init
<1>2. payments \in [Payments -> Payment]
    BY <1>1, DataAssumption
<1>3. MaxRetry \in Nat \ {0} /\ MaxUpdateRetry \in Nat /\ MaxDeliveries \in Nat
    BY BoundsAssumption
<1>4. IdleHandler \in Handler /\ IdleHandler.pc = "idle"
    BY <1>3 DEF IdleHandler, Handler
<1>5. \A h \in Handlers : handlers[h] = IdleHandler
    BY DEF Init
<1>6. TypeOK
    <2>1. handlers \in [Handlers -> Handler]
        BY <1>4 DEF Init
    <2>2. extension \in [Payments -> ExtensionCall]
        <3>1. \A p \in Payments : payments[p].version \in Nat
            BY <1>2, PaymentFields
        <3> QED BY <3>1 DEF Init, ExtensionCall
    <2>3. deliveries \in [Notifications -> Nat]
        BY <1>3 DEF Init
    <2> QED BY <1>2, <2>1, <2>2, <2>3 DEF Init, TypeOK
<1>7. \A h \in Handlers : Tracks(handlers[h], payments)
    BY <1>4, <1>5, StoppedTracks
<1>8. \A p \in Payments :
            AnswerIsNew(extension[p], payments[p], MakePaymentResults[p])
    <2>1. ASSUME NEW p \in Payments
          PROVE  AnswerIsNew(extension[p], payments[p], MakePaymentResults[p])
        <3>1. /\ extension[p].version = payments[p].version
              /\ extension[p].added = 0
              /\ extension[p].repeated = \E r \in MakePaymentResults[p] :
                    r.pspReference \in References(payments[p].transactions)
            BY DEF Init
        <3>2. payments[p].version \in Nat
            BY <1>2, PaymentFields
        <3> QED BY <3>1, <3>2 DEF AnswerIsNew
    <2> QED BY <2>1
<1>9. OneTransactionPerReference /\ ReportedIsReflected
    <2>1. \A p \in Payments : RepeatedAnswer(p) = 0
        BY DEF Init, RepeatedAnswer
    <2> QED BY <1>1, <2>1, InitialAssumption
            DEF Init, OneTransactionPerReference, DistinctReferences, ReportedIsReflected
<1> QED BY <1>6, <1>7, <1>8, <1>9 DEF IInv

LEMMA HandlerFacts ==
    ASSUME IInv, NEW h \in Handlers
    PROVE  /\ handlers \in [Handlers -> Handler]
           /\ payments \in [Payments -> Payment]
           /\ deliveries \in [Notifications -> Nat]
           /\ handlers[h] \in Handler
           /\ Tracks(handlers[h], payments)
BY DEF IInv, TypeOK

LEMMA ReceiveKeepsIInv ==
    ASSUME IInv, NEW h \in Handlers, NEW n \in Notifications, Receive(h, n)
    PROVE  IInv'
<1> DEFINE next == [IdleHandler EXCEPT !.pc = "fetchByKeys", !.item = n]
<1>1. handlers' = [handlers EXCEPT ![h] = next]
    BY DEF Receive
<1>2. MaxRetry \in Nat \ {0} /\ MaxUpdateRetry \in Nat /\ MaxDeliveries \in Nat
    BY BoundsAssumption
<1>3. Tracks(next, payments)
    <2>1. /\ next.pc = "fetchByKeys" /\ next.item = n /\ next.final = FALSE
          /\ next.fetched = NoValue /\ next.retryCount = 0
        BY DEF IdleHandler
    <2>2. next \in Handler
        <3>1. IdleHandler \in Handler
            BY <1>2 DEF IdleHandler, Handler
        <3> QED BY <3>1 DEF Handler
    <2> HIDE DEF next
    <2> QED BY <1>2, <2>1, <2>2 DEF Tracks
<1>4. deliveries' \in [Notifications -> Nat]
    BY <1>2, HandlerFacts DEF Receive
<1>5. UNCHANGED <<payments, extension, reported>>
    BY DEF Receive
<1> QED BY <1>1, <1>3, <1>4, <1>5, ReadingKeepsIInv

LEMMA LookupKeepsIInv ==
    ASSUME IInv, NEW h \in Handlers,
           FetchByKeys(h) \/ FetchByCustomField(h) \/ LookupFails(h)
    PROVE  IInv'
<1> DEFINE hr == handlers[h]
<1>1. /\ hr \in Handler /\ Tracks(hr, payments)
      /\ hr.pc \in {"fetchByKeys", "fetchByCustomField"}
      /\ payments \in [Payments -> Payment]
    BY HandlerFacts DEF FetchByKeys, FetchByCustomField, LookupFails
<1>2. /\ UNCHANGED <<payments, extension, reported>>
      /\ deliveries' \in [Notifications -> Nat]
    BY HandlerFacts DEF FetchByKeys, FetchByCustomField, LookupFails
<1>3. /\ hr.item \in Notifications /\ ~hr.final /\ hr.retryCount < MaxRetry
      /\ hr.fetched = NoValue
    BY <1>1 DEF Tracks, Running
<1>4. CASE \E p \in Payments : handlers' = [handlers EXCEPT ![h] = Found(@, p)]
    <2>1. PICK p \in Payments : handlers' = [handlers EXCEPT ![h] = Found(hr, p)]
        BY <1>4
    <2>2. Tracks(Found(hr, p), payments)
        BY <1>1, FoundTracks
    <2> QED BY <1>2, <2>1, <2>2, ReadingKeepsIInv
<1>5. CASE handlers' = [handlers EXCEPT ![h].pc = "fetchByCustomField"]
    <2> DEFINE next == [hr EXCEPT !.pc = "fetchByCustomField"]
    <2>1. handlers' = [handlers EXCEPT ![h] = next]
        BY <1>5
    <2>2. /\ next \in Handler /\ next.pc = "fetchByCustomField"
          /\ next.item = hr.item /\ next.final = hr.final
          /\ next.fetched = hr.fetched /\ next.retryCount = hr.retryCount
        BY <1>1 DEF Handler
    <2>3. Tracks(next, payments)
        <3> HIDE DEF next, hr
        <3> QED BY <1>3, <2>2 DEF Tracks
    <2> QED BY <1>2, <2>1, <2>3, ReadingKeepsIInv
<1>6. CASE handlers' = [handlers EXCEPT ![h] = Caught(@)]
    <2>1. Tracks(Caught(hr), payments)
        BY <1>1, <1>3, CaughtTracks
    <2> QED BY <1>2, <1>6, <2>1, ReadingKeepsIInv
<1>7. CASE handlers' = [handlers EXCEPT ![h] = Caught([@ EXCEPT !.status = "404"])]
    <2> DEFINE failed == [hr EXCEPT !.status = "404"]
    <2>1. handlers' = [handlers EXCEPT ![h] = Caught(failed)]
        BY <1>7
    <2>2. /\ failed \in Handler
          /\ failed.item = hr.item /\ failed.final = hr.final
          /\ failed.fetched = hr.fetched /\ failed.retryCount = hr.retryCount
        BY <1>1 DEF Handler, Statuses
    <2>3. Tracks(Caught(failed), payments)
        <3> HIDE DEF failed, hr
        <3> QED BY <1>3, <2>2, CaughtTracks
    <2> QED BY <1>2, <2>1, <2>3, ReadingKeepsIInv
<1>8. CASE \E status \in {"4xx", "5xx"} :
              handlers' = [handlers EXCEPT ![h].pc = "threw", ![h].status = status]
    <2>1. PICK status \in {"4xx", "5xx"} : handlers' = [handlers EXCEPT
                ![h] = [hr EXCEPT !.pc = "threw", !.status = status]]
        BY <1>8, HandlerFacts
    <2> DEFINE next == [hr EXCEPT !.pc = "threw", !.status = status]
    <2>2. next \in Handler /\ next.pc = "threw"
        BY <1>1 DEF Handler, Statuses
    <2>3. Tracks(next, payments)
        <3> HIDE DEF next
        <3> QED BY <2>2, StoppedTracks
    <2> QED BY <1>2, <2>1, <2>3, ReadingKeepsIInv
<1> QED BY <1>4, <1>5, <1>6, <1>7, <1>8
        DEF FetchByKeys, FetchByCustomField, LookupFails

LEMMA NothingToUpdateKeepsIInv ==
    ASSUME IInv, NEW h \in Handlers, NothingToUpdate(h)
    PROVE  IInv'
<1> DEFINE hr == handlers[h]
           p == hr.payment
<1>1. /\ Done(h) /\ hr.pc = "update"
      /\ UNCHANGED <<payments, extension, deliveries>>
    BY DEF NothingToUpdate
<1>2. /\ p \in Payments /\ hr.item \in Notification
      /\ IsCopy(hr.current, payments[p])
      /\ payments[p] \in Payment
    BY <1>1, DataAssumption, HandlerFacts DEF Tracks, Running
<1>3. Reflects(payments[p], hr.item)
    <2>1. Reflects(hr.current, hr.item)
        BY <1>2, NothingToUpdateReflects DEF NothingToUpdate, Actions, IsCopy
    <2> QED BY <1>2, <2>1, ExtendsReflects DEF IsCopy
<1>4. /\ payments' \in [Payments -> Payment]
      /\ \A q \in Payments : Newer(payments'[q], payments[q])
      /\ \A q \in Payments : DistinctReferencesBut(payments'[q].transactions, RepeatedAnswer(q))
    BY <1>1, HandlerFacts DEF IInv, OneTransactionPerReference, Newer
<1>5. Reflects(payments'[handlers[h].payment], handlers[h].item)
    BY <1>1, <1>3
<1> QED BY <1>1, <1>4, <1>5, DoneKeepsIInv

LEMMA UpdateSucceedsKeepsIInv ==
    ASSUME IInv, NEW h \in Handlers, UpdateSucceeds(h)
    PROVE  IInv'
<1>1. /\ Sends(h) /\ Accepts(h) /\ Store(h) /\ Done(h)
      /\ UNCHANGED <<extension, deliveries>> /\ handlers[h].pc = "update"
    BY DEF UpdateSucceeds, Sends
<1> QED BY <1>1, StoreIsUpdate, DoneKeepsIInv

LEMMA AnswerIsLostKeepsIInv ==
    ASSUME IInv, NEW h \in Handlers, AnswerIsLost(h)
    PROVE  IInv'
<1>0. PICK next \in {handlers[h], Thrown(handlers[h], "5xx")} :
            handlers' = [handlers EXCEPT ![h] = next]
    BY DEF AnswerIsLost
<1>1. /\ Sends(h) /\ Accepts(h) /\ Store(h) /\ handlers[h].pc = "update"
      /\ UNCHANGED <<extension, deliveries, reported>>
    BY DEF AnswerIsLost, Sends
<1>2. /\ payments' \in [Payments -> Payment]
      /\ \A q \in Payments : Newer(payments'[q], payments[q])
      /\ \A q \in Payments : DistinctReferencesBut(payments'[q].transactions, RepeatedAnswer(q))
    BY <1>1, StoreIsUpdate
<1>3. Tracks(next, payments)
    BY <1>1, HandlerFacts, ThrownTracks DEF Statuses
<1>4. /\ handlers' \in [Handlers -> Handler]
      /\ \A g \in Handlers : Tracks(handlers'[g], payments')
    BY <1>0, <1>2, <1>3, OneHandlerMoves
<1>5. /\ extension' \in [Payments -> ExtensionCall]
      /\ deliveries' \in [Notifications -> Nat]
      /\ reported' \subseteq Notifications \X Payments
    BY <1>1 DEF IInv, TypeOK
<1>6. \A p \in Payments : DistinctReferencesBut(payments'[p].transactions, RepeatedAnswer(p)')
    BY <1>1, <1>2 DEF RepeatedAnswer
<1> QED BY <1>1, <1>2, <1>4, <1>5, <1>6, GrowingKeepsIInv

LEMMA ConflictKeepsIInv ==
    ASSUME IInv, NEW h \in Handlers, VersionConflict(h)
    PROVE  IInv'
<1> DEFINE hr == handlers[h]
           count == hr.updateRetryCount + 1
           next == [hr EXCEPT !.pc = "refetch", !.updateRetryCount = count]
<1>1. /\ hr \in Handler /\ Tracks(hr, payments) /\ hr.pc = "update"
    BY HandlerFacts DEF VersionConflict, Sends
<1>2. /\ UNCHANGED <<payments, extension, reported>>
      /\ deliveries' \in [Notifications -> Nat]
    BY HandlerFacts DEF VersionConflict
<1>3. CASE count > MaxUpdateRetry
    <2>1. handlers' = [handlers EXCEPT ![h] = Thrown(hr, "409")]
        BY <1>3 DEF VersionConflict
    <2>2. Tracks(Thrown(hr, "409"), payments)
        BY <1>1, ThrownTracks DEF Statuses
    <2> QED BY <1>2, <2>1, <2>2, ReadingKeepsIInv
<1>4. CASE ~(count > MaxUpdateRetry)
    <2>1. handlers' = [handlers EXCEPT ![h] = next]
        BY <1>4 DEF VersionConflict
    <2>2. count \in 0 .. MaxUpdateRetry
        BY <1>1, <1>4, BoundsAssumption DEF Handler
    <2>3. /\ next \in Handler /\ next.pc = "refetch"
          /\ next.item = hr.item /\ next.final = hr.final
          /\ next.payment = hr.payment /\ next.fetched = hr.fetched
          /\ next.current = hr.current /\ next.retryCount = hr.retryCount
        <3> HIDE DEF count
        <3> QED BY <1>1, <2>2 DEF Handler
    <2>4. Tracks(next, payments)
        <3> HIDE DEF next, hr
        <3> QED BY <1>1, <2>3 DEF Tracks, Running
    <2> QED BY <1>2, <2>1, <2>4, ReadingKeepsIInv
<1> QED BY <1>3, <1>4

LEMMA FailureKeepsIInv ==
    ASSUME IInv, NEW h \in Handlers, UpdateFails(h) \/ RefetchFails(h)
    PROVE  IInv'
<1>1. handlers[h].pc \in {"update", "refetch"} /\ Tracks(handlers[h], payments)
    BY HandlerFacts DEF UpdateFails, RefetchFails, Sends
<1>2. PICK status \in {"4xx", "5xx"} :
            handlers' = [handlers EXCEPT ![h] = Thrown(handlers[h], status)]
    BY DEF UpdateFails, RefetchFails
<1>3. Tracks(Thrown(handlers[h], status), payments)
    BY <1>1, ThrownTracks DEF Statuses
<1>4. /\ UNCHANGED <<payments, extension, reported>>
      /\ deliveries' \in [Notifications -> Nat]
    BY HandlerFacts DEF UpdateFails, RefetchFails
<1> QED BY <1>2, <1>3, <1>4, ReadingKeepsIInv

LEMMA RefetchKeepsIInv ==
    ASSUME IInv, NEW h \in Handlers, Refetch(h)
    PROVE  IInv'
<1> DEFINE hr == handlers[h]
           payment == payments[hr.payment]
           next == [hr EXCEPT !.pc = "update", !.current = payment]
<1>1. /\ hr \in Handler /\ Tracks(hr, payments) /\ hr.pc = "refetch"
    BY HandlerFacts DEF Refetch
<1>2. payment \in Payment /\ IsCopy(payment, payment)
    BY <1>1, HandlerFacts, CopyOfItself DEF Tracks
<1>3. handlers' = [handlers EXCEPT ![h] = next]
    BY HandlerFacts DEF Refetch
<1>4. /\ next \in Handler /\ next.pc = "update"
      /\ next.item = hr.item /\ next.final = hr.final
      /\ next.payment = hr.payment /\ next.fetched = hr.fetched
      /\ next.current = payment /\ next.retryCount = hr.retryCount
    <2> HIDE DEF payment
    <2> QED BY <1>1, <1>2 DEF Handler
<1>5. Tracks(next, payments)
    <2> HIDE DEF next, hr
    <2> QED BY <1>1, <1>2, <1>4 DEF Tracks, Running
<1>6. /\ UNCHANGED <<payments, extension, reported>>
      /\ deliveries' \in [Notifications -> Nat]
    BY HandlerFacts DEF Refetch
<1> QED BY <1>3, <1>5, <1>6, ReadingKeepsIInv

LEMMA EndKeepsIInv ==
    ASSUME IInv, NEW h \in Handlers, Leave(h) \/ Crash(h)
    PROVE  IInv'
<1>1. Tracks(IdleHandler, payments)
    <2>1. IdleHandler \in Handler /\ IdleHandler.pc = "idle"
        BY BoundsAssumption DEF IdleHandler, Handler
    <2> QED BY <2>1, StoppedTracks
<1>2. /\ handlers' = [handlers EXCEPT ![h] = IdleHandler]
      /\ UNCHANGED <<payments, extension, reported>>
      /\ deliveries' \in [Notifications -> Nat]
    BY HandlerFacts DEF Leave, Crash
<1> QED BY <1>1, <1>2, ReadingKeepsIInv

\* The invocations go on with the copies they have while somebody else writes.
LEMMA OthersKeepIInv ==
    ASSUME IInv,
           payments' \in [Payments -> Payment],
           \A p \in Payments : Newer(payments'[p], payments[p]),
           \A p \in Payments : DistinctReferencesBut(payments'[p].transactions, RepeatedAnswer(p)'),
           extension' \in [Payments -> ExtensionCall],
           \A p \in Payments :
                \/ extension'[p] = extension[p]
                \/ AnswerIsNew(extension'[p], payments'[p], MakePaymentResults[p]),
           UNCHANGED <<handlers, deliveries, reported>>
    PROVE  IInv'
<1>1. handlers' \in [Handlers -> Handler] /\ payments \in [Payments -> Payment]
    BY DEF IInv, TypeOK
<1>2. \A h \in Handlers : Tracks(handlers'[h], payments')
    <2>1. \A h \in Handlers : Tracks(handlers[h], payments')
        BY <1>1, TracksNewer DEF IInv
    <2> QED BY <2>1
<1>3. /\ deliveries' \in [Notifications -> Nat]
      /\ reported' \subseteq Notifications \X Payments
    BY DEF IInv, TypeOK
<1> QED BY <1>1, <1>2, <1>3, GrowingKeepsIInv

LEMMA EnvironmentKeepsIInv ==
    ASSUME IInv, NEW p \in Payments,
           \/ ExtensionCommits(p) \/ ExtensionFails(p) \/ ExtensionRepeats(p)
           \/ OtherWrite(p)
    PROVE  IInv' /\ \A q \in Payments : Newer(payments'[q], payments[q])
<1>1. /\ payments \in [Payments -> Payment] /\ payments[p] \in Payment
      /\ extension \in [Payments -> ExtensionCall]
      /\ \A q \in Payments :
            DistinctReferencesBut(payments[q].transactions, RepeatedAnswer(q))
      /\ AnswerIsNew(extension[p], payments[p], MakePaymentResults[p])
    BY DEF IInv, TypeOK, OneTransactionPerReference
<1>2. ASSUME NEW call \in ExtensionCall, extension' = [extension EXCEPT ![p] = call]
      PROVE  /\ extension' \in [Payments -> ExtensionCall]
             /\ extension'[p] = call
             /\ \A q \in Payments : q # p => extension'[q] = extension[q]
             /\ \A q \in Payments : q # p => RepeatedAnswer(q)' = RepeatedAnswer(q)
             /\ RepeatedAnswer(p)' = IF call.repeated THEN call.added ELSE 0
    BY <1>1, <1>2 DEF RepeatedAnswer
<1>3. CASE ExtensionCommits(p)
    <2>1. PICK r \in MakePaymentResults[p] :
                /\ Write(p, AfterMakePayment(payments[p], r))
                /\ extension' = [extension EXCEPT
                        ![p].pc = "done", ![p].added = AddedAt(payments[p], r)]
        BY <1>3 DEF ExtensionCommits
    <2> DEFINE content == AfterMakePayment(payments[p], r)
               added == AddedAt(payments[p], r)
               call == [extension[p] EXCEPT !.pc = "done", !.added = added]
    <2>2. r \in MakePaymentResult
        BY DataAssumption
    <2>3. DistinctReferences(payments[p].transactions)
        BY <1>1, <1>3 DEF ExtensionCommits, AnswerIsNew, RepeatedAnswer, DistinctReferences
    <2>4. ~extension[p].repeated =>
                r.pspReference \notin References(payments[p].transactions)
        BY <1>1, <1>3 DEF ExtensionCommits, AnswerIsNew
    <2>5. /\ content \in Payment /\ content.version = payments[p].version
          /\ Extends(content, payments[p])
          /\ DistinctReferencesBut(content.transactions,
                                   IF extension[p].repeated THEN added ELSE 0)
        BY <1>1, <2>2, <2>3, <2>4, AfterMakePaymentExtends DEF DistinctReferences
    <2>6. added \in Nat
        BY <1>1, PaymentFields DEF AddedAt
    <2>7. Write(p, content) /\ extension' = [extension EXCEPT ![p] = call]
        BY <1>1, <2>1
    <2> HIDE DEF content, added
    <2>8. /\ call \in ExtensionCall /\ call.pc = "done"
          /\ call.repeated = extension[p].repeated /\ call.added = added
        BY <1>1, <2>6 DEF ExtensionCall
    <2> HIDE DEF call
    <2>9. /\ payments' \in [Payments -> Payment]
          /\ \A q \in Payments : Newer(payments'[q], payments[q])
          /\ \A q \in Payments : q # p => payments'[q] = payments[q]
          /\ payments'[p].transactions = content.transactions
        BY <1>1, <2>5, <2>7, WriteIsNewer
    <2>10. \A q \in Payments :
                DistinctReferencesBut(payments'[q].transactions, RepeatedAnswer(q)')
        BY <1>1, <1>2, <2>5, <2>7, <2>8, <2>9
    <2>11. AnswerIsNew(call, payments'[p], MakePaymentResults[p])
        BY <2>8 DEF AnswerIsNew
    <2>12. UNCHANGED <<handlers, deliveries, reported>>
        BY <1>3 DEF ExtensionCommits
    <2> QED BY <1>2, <2>7, <2>8, <2>9, <2>10, <2>11, <2>12, OthersKeepIInv
<1>4. ASSUME NEW call \in ExtensionCall, extension' = [extension EXCEPT ![p] = call],
             AnswerIsNew(call, payments[p], MakePaymentResults[p]),
             call.added = 0, extension[p].added = 0,
             UNCHANGED <<payments, handlers, deliveries, reported>>
      PROVE  IInv' /\ \A q \in Payments : Newer(payments'[q], payments[q])
    <2>1. \A q \in Payments : Newer(payments'[q], payments[q])
        BY <1>4 DEF Newer
    <2>2. \A q \in Payments :
                DistinctReferencesBut(payments'[q].transactions, RepeatedAnswer(q)')
        BY <1>1, <1>2, <1>4 DEF RepeatedAnswer
    <2>3. payments' \in [Payments -> Payment]
        BY <1>1, <1>4
    <2> QED BY <1>2, <1>4, <2>1, <2>2, <2>3, OthersKeepIInv
<1>5. CASE ExtensionFails(p)
    <2> DEFINE call == [extension[p] EXCEPT !.pc = "failed"]
    <2>1. /\ extension' = [extension EXCEPT ![p] = call]
          /\ UNCHANGED <<payments, handlers, deliveries, reported>>
        BY <1>5 DEF ExtensionFails
    <2>2. call \in ExtensionCall /\ call.pc = "failed" /\ call.added = extension[p].added
        BY <1>1 DEF ExtensionCall
    <2>3. extension[p].added = 0
        BY <1>1, <1>5 DEF AnswerIsNew, ExtensionFails
    <2> HIDE DEF call
    <2> QED BY <1>4, <2>1, <2>2, <2>3 DEF AnswerIsNew
<1>6. CASE ExtensionRepeats(p)
    <2> DEFINE version == payments[p].version
               call == [extension[p] EXCEPT !.pc = "calling", !.version = version,
                                            !.repeated = TRUE]
    <2>1. /\ extension' = [extension EXCEPT ![p] = call]
          /\ UNCHANGED <<payments, handlers, deliveries, reported>>
        BY <1>1, <1>6 DEF ExtensionRepeats
    <2>2. version \in Nat
        BY <1>1, PaymentFields
    <2>3. /\ call \in ExtensionCall /\ call.repeated = TRUE
          /\ call.version = version /\ call.added = extension[p].added
        <3> HIDE DEF version
        <3> QED BY <1>1, <2>2 DEF ExtensionCall
    <2>4. extension[p].added = 0
        BY <1>1, <1>6 DEF AnswerIsNew, ExtensionRepeats
    <2>5. AnswerIsNew(call, payments[p], MakePaymentResults[p])
        <3> HIDE DEF call
        <3> QED BY <2>2, <2>3, <2>4 DEF AnswerIsNew
    <2> HIDE DEF call
    <2> QED BY <1>4, <2>1, <2>3, <2>4, <2>5
<1>7. CASE OtherWrite(p)
    <2>1. /\ Write(p, payments[p])
          /\ UNCHANGED <<extension, handlers, deliveries, reported>>
        BY <1>7 DEF OtherWrite
    <2>2. Extends(payments[p], payments[p])
        BY <1>1, ExtendsItself
    <2>3. /\ payments' \in [Payments -> Payment]
          /\ \A q \in Payments : Newer(payments'[q], payments[q])
          /\ \A q \in Payments : q # p => payments'[q] = payments[q]
          /\ payments'[p].transactions = payments[p].transactions
        BY <1>1, <2>1, <2>2, WriteIsNewer
    <2>4. \A q \in Payments :
                DistinctReferencesBut(payments'[q].transactions, RepeatedAnswer(q)')
        BY <1>1, <2>1, <2>3 DEF RepeatedAnswer
    <2> QED BY <1>1, <2>1, <2>3, <2>4, OthersKeepIInv
<1> QED BY <1>3, <1>5, <1>6, <1>7

LEMMA NextKeepsIInv ==
    ASSUME IInv, [Next]_vars
    PROVE  IInv'
<1>1. ASSUME NEW h \in Handlers, NEW n \in Notifications, Receive(h, n)
      PROVE  IInv'
    BY <1>1, ReceiveKeepsIInv
<1>2. ASSUME NEW h \in Handlers, Step(h)
      PROVE  IInv'
    BY <1>2, LookupKeepsIInv, NothingToUpdateKeepsIInv, UpdateSucceedsKeepsIInv,
       AnswerIsLostKeepsIInv, ConflictKeepsIInv, FailureKeepsIInv,
       RefetchKeepsIInv DEF Step
<1>3. ASSUME NEW h \in Handlers, Leave(h) \/ Crash(h)
      PROVE  IInv'
    BY <1>3, EndKeepsIInv
<1>4. ASSUME Environment
      PROVE  IInv'
    BY <1>4, EnvironmentKeepsIInv DEF Environment
<1>5. CASE UNCHANGED vars
    <2>1. \A h \in Handlers : Tracks(handlers[h], payments)'
        BY <1>5 DEF vars, IInv
    <2>2. \A p \in Payments :
            AnswerIsNew(extension[p], payments[p], MakePaymentResults[p])'
        BY <1>5 DEF vars, IInv
    <2>3. TypeOK' /\ OneTransactionPerReference' /\ ReportedIsReflected'
        BY <1>5 DEF vars, IInv, TypeOK, OneTransactionPerReference, RepeatedAnswer,
                    ReportedIsReflected
    <2> QED BY <2>1, <2>2, <2>3 DEF IInv
<1> QED BY <1>1, <1>2, <1>3, <1>4, <1>5 DEF Next

\* Every step of the system leaves each payment as it is or makes it grow.
LEMMA NextGrows ==
    ASSUME IInv, [Next]_vars
    PROVE  \A p \in Payments : Newer(payments'[p], payments[p])
<1>1. CASE UNCHANGED payments
    BY <1>1 DEF Newer
<1>2. CASE \E h \in Handlers : UpdateSucceeds(h) \/ AnswerIsLost(h)
    BY <1>2, StoreIsUpdate DEF UpdateSucceeds, AnswerIsLost
<1>3. CASE Environment
    BY <1>3, EnvironmentKeepsIInv DEF Environment
<1>4. \/ UNCHANGED payments
      \/ \E h \in Handlers : UpdateSucceeds(h) \/ AnswerIsLost(h)
      \/ Environment
    BY DEF Next, Step, Receive, FetchByKeys, FetchByCustomField, LookupFails,
           NothingToUpdate, VersionConflict, UpdateFails, Refetch, RefetchFails,
           Leave, Crash, vars
<1> QED BY <1>1, <1>2, <1>3, <1>4

----------------------------------------------------------------------------
(* Theorems *)

\* The inductive invariant holds in every state of every behaviour.
THEOREM Invariance == Spec => []IInv
BY InitIInv, NextKeepsIInv, PTL DEF Spec

\* Every variable has its type; the counters stay within the code's limits.
THEOREM TypeCorrect == Spec => []TypeOK
<1>1. IInv => TypeOK
    BY DEF IInv
<1> QED BY <1>1, Invariance, PTL

\* However many deliveries race with each other and with the extension, and
\* however often makePayment is repeated, no notification gives a payment a
\* second transaction for a pspReference; only the answer to a repeated
\* makePayment may.
THEOREM NoDuplicateTransaction == Spec => []OneTransactionPerReference
<1>1. IInv => OneTransactionPerReference
    BY DEF IInv
<1> QED BY <1>1, Invariance, PTL

\* What an invocation has reported as done is never lost from the payment.
THEOREM NoLostNotification == Spec => []ReportedIsReflected
<1>1. IInv => ReportedIsReflected
    BY DEF IInv
<1> QED BY <1>1, Invariance, PTL

\* Transactions are never removed and their state only moves forward.
THEOREM ForwardOnly == Spec => TransactionsMoveForward
<1>1. ASSUME IInv, [Next]_vars
      PROVE  [\A p \in Payments : MovesForward(payments[p].transactions,
                                        payments'[p].transactions)]_vars
    <2>1. ASSUME NEW p \in Payments
          PROVE  MovesForward(payments[p].transactions, payments'[p].transactions)
        <3>1. payments[p] \in Payment
            BY <1>1 DEF IInv, TypeOK
        <3>2. Newer(payments'[p], payments[p])
            BY <1>1, NextGrows
        <3> QED BY <3>1, <3>2, ExtendsItself DEF Newer, Extends
    <2> QED BY <2>1
<1> QED BY <1>1, Invariance, PTL DEF Spec, TransactionsMoveForward

----------------------------------------------------------------------------
(* The atomic updates that the invocations implement *)

\* An invocation runs for a delivered notification, and until the extension is
\* done the payment does not have the answer.
Causes ==
    /\ \A h \in Handlers :
            handlers[h].pc \in Running => deliveries[handlers[h].item] > 0
    /\ \A p \in Payments :
            extension[p].pc # "done" => ~payments[p].hasResponse

\* Whatever an error leads to, it is about the same notification.
LEMMA SameItem ==
    ASSUME NEW hr \in Handler
    PROVE  /\ Caught(hr).item = hr.item
           /\ \A status : Thrown(hr, status).item = hr.item
           /\ \A p : Found(hr, p).item = hr.item
<1>1. \A r \in Handler : Caught(r).item = r.item
    BY DEF Caught, Handler, IdleHandler
<1>2. \A status : Thrown(hr, status).item = hr.item
    BY <1>1 DEF Thrown, Handler
<1>3. ASSUME NEW p
      PROVE  Found(hr, p).item = hr.item
    <2> DEFINE found == [hr EXCEPT !.payment = p, !.fetched = payments[p],
                                   !.current = payments[p]]
    <2>1. found.item = hr.item
        BY DEF Handler
    <2>2. [found EXCEPT !.pc = "update", !.updateRetryCount = 0].item = found.item
        BY DEF Handler
    <2>3. Caught(found).item = found.item
        BY DEF Caught, Handler, IdleHandler
    <2> QED BY <2>1, <2>2, <2>3 DEF Found
<1> QED BY <1>1, <1>2, <1>3

\* One invocation moves, about the same notification or to its end.
LEMMA MovingKeepsCauses ==
    ASSUME IInv, Causes, NEW h \in Handlers, NEW next,
           handlers' = [handlers EXCEPT ![h] = next],
           next.pc \in Running =>
                handlers[h].pc \in Running /\ next.item = handlers[h].item,
           UNCHANGED deliveries
    PROVE  \A g \in Handlers :
                handlers'[g].pc \in Running => deliveries'[handlers'[g].item] > 0
BY DEF IInv, TypeOK, Causes

\* No step of an invocation changes whether the payment has a response.
LEMMA StoreKeepsResponse ==
    ASSUME IInv, NEW h \in Handlers, Sends(h), Accepts(h), Store(h)
    PROVE  LET p == handlers[h].payment
               n == handlers[h].item
           IN  /\ p \in Payments /\ n \in Notifications
               /\ Write(p, Updated(payments[p], n))
               /\ \A q \in Payments :
                    payments'[q].hasResponse = payments[q].hasResponse
<1> DEFINE hr == handlers[h]
           p == hr.payment
           n == hr.item
<1>1. p \in Payments /\ n \in Notifications /\ hr.current = payments[p]
    BY DEF Accepts, IsCopy, IInv, Tracks, Sends, Running
<1>2. Write(p, Updated(payments[p], n))
    BY <1>1 DEF Store, Actions, Updated
<1>3. Updated(payments[p], n).hasResponse = payments[p].hasResponse
    BY DEF Updated, Apply
<1>4. [Updated(payments[p], n) EXCEPT !.version = @ + 1].hasResponse
        = payments[p].hasResponse
    BY <1>3 DEF Updated, Apply
<1>5. payments \in [Payments -> Payment]
    BY DEF IInv, TypeOK
<1> QED BY <1>1, <1>2, <1>4, <1>5 DEF Write

LEMMA InitCauses == Init => Causes
BY DEF Init, Causes, IdleHandler, Running

LEMMA NextKeepsCauses ==
    ASSUME IInv, Causes, [Next]_vars
    PROVE  Causes'
<1> DEFINE Items == \A g \in Handlers :
                handlers[g].pc \in Running => deliveries[handlers[g].item] > 0
           Calls == \A p \in Payments :
                extension[p].pc # "done" => ~payments[p].hasResponse
<1>1. ASSUME NEW h \in Handlers, NEW n \in Notifications, Receive(h, n)
      PROVE  Causes'
    <2>1. deliveries \in [Notifications -> Nat] /\ handlers \in [Handlers -> Handler]
        BY BoundsAssumption DEF IInv, TypeOK
    <2>2. deliveries'[n] > 0 /\ \A m \in Notifications : deliveries'[m] >= deliveries[m]
        BY <1>1, <2>1 DEF Receive
    <2>3. /\ handlers'[h].item = n
          /\ \A g \in Handlers : g # h => handlers'[g] = handlers[g]
        BY <1>1, <2>1 DEF Receive, IdleHandler
    <2>4. \A g \in Handlers : handlers[g].pc \in Running => handlers[g].item \in Notifications
        BY DEF IInv, Tracks
    <2>5. Items'
        <3>1. ASSUME NEW g \in Handlers, handlers'[g].pc \in Running
              PROVE  deliveries'[handlers'[g].item] > 0
            <4>1. CASE g = h
                BY <2>2, <2>3, <4>1
            <4>2. CASE g # h
                <5> DEFINE m == handlers[g].item
                <5>1. handlers'[g] = handlers[g] /\ m \in Notifications
                    BY <2>3, <2>4, <3>1, <4>2
                <5>2. deliveries[m] > 0
                    BY <3>1, <5>1 DEF Causes
                <5>3. deliveries'[m] > 0
                    <6> HIDE DEF m
                    <6>1. deliveries[m] \in Nat
                        BY <2>1, <5>1
                    <6>2. deliveries'[m] \in Nat
                        BY <1>1, <2>1, <5>1 DEF Receive
                    <6> QED BY <2>2, <5>1, <5>2, <6>1, <6>2
                <5> QED BY <5>1, <5>3
            <4> QED BY <4>1, <4>2
        <3> QED BY <3>1
    <2>6. Calls'
        BY <1>1 DEF Receive, Causes
    <2> QED BY <2>5, <2>6 DEF Causes
<1>2. ASSUME NEW h \in Handlers, Step(h) \/ Leave(h) \/ Crash(h)
      PROVE  Causes'
    <2> DEFINE hr == handlers[h]
    <2>1. hr \in Handler /\ handlers \in [Handlers -> Handler]
        BY HandlerFacts
    <2>2. /\ UNCHANGED <<extension, deliveries>>
          /\ \/ UNCHANGED payments
             \/ Sends(h) /\ Accepts(h) /\ Store(h)
        BY <1>2 DEF Step, FetchByKeys, FetchByCustomField, LookupFails,
                    NothingToUpdate, UpdateSucceeds, AnswerIsLost, VersionConflict,
                    UpdateFails, Refetch, RefetchFails, Leave, Crash
    <2>3. Calls'
        BY <2>2, StoreKeepsResponse DEF Causes
    <2>4. /\ handlers' = [handlers EXCEPT ![h] = handlers'[h]]
          /\ handlers'[h].pc \in Running =>
                hr.pc \in Running /\ handlers'[h].item = hr.item
        <3>1. CASE FetchByKeys(h)
            BY <2>1, <3>1, SameItem DEF FetchByKeys, Running, Handler
        <3>2. CASE FetchByCustomField(h)
            BY <2>1, <3>2, SameItem DEF FetchByCustomField, Running
        <3>3. CASE LookupFails(h)
            <4>1. CASE handlers' = [handlers EXCEPT
                                ![h] = Caught([@ EXCEPT !.status = "404"])]
                <5> DEFINE failed == [hr EXCEPT !.status = "404"]
                <5>1. failed \in Handler /\ failed.item = hr.item
                    BY <2>1 DEF Handler, Statuses
                <5>2. handlers' = [handlers EXCEPT ![h] = Caught(failed)]
                    BY <4>1
                <5> HIDE DEF failed
                <5>3. Caught(failed).item = hr.item
                    BY <5>1, SameItem
                <5>4. hr.pc \in Running
                    BY <3>3 DEF LookupFails, Running
                <5> QED BY <2>1, <5>2, <5>3, <5>4
            <4>2. CASE \E status \in {"4xx", "5xx"} : handlers' =
                        [handlers EXCEPT ![h].pc = "threw", ![h].status = status]
                <5>1. PICK status \in {"4xx", "5xx"} : handlers' = [handlers EXCEPT
                        ![h] = [hr EXCEPT !.pc = "threw", !.status = status]]
                    BY <2>1, <4>2
                <5> DEFINE next == [hr EXCEPT !.pc = "threw", !.status = status]
                <5>2. next.pc = "threw"
                    BY <2>1 DEF Handler
                <5>3. handlers' = [handlers EXCEPT ![h] = next]
                    BY <5>1
                <5> HIDE DEF next
                <5> QED BY <2>1, <5>2, <5>3 DEF Running
            <4> QED BY <3>3, <4>1, <4>2 DEF LookupFails
        <3>4. CASE NothingToUpdate(h) \/ UpdateSucceeds(h)
            BY <2>1, <3>4 DEF NothingToUpdate, UpdateSucceeds, Done, Running, Handler
        <3>5. CASE AnswerIsLost(h) \/ UpdateFails(h) \/ RefetchFails(h)
            BY <2>1, <3>5, SameItem
            DEF AnswerIsLost, UpdateFails, RefetchFails, Sends, Running
        <3>6. CASE VersionConflict(h)
            <4>1. hr.pc \in Running
                BY <3>6 DEF VersionConflict, Sends, Running
            <4>2. PICK next : /\ handlers' = [handlers EXCEPT ![h] = next]
                              /\ next.item = hr.item
                <5> DEFINE again == [hr EXCEPT !.pc = "refetch",
                                    !.updateRetryCount = hr.updateRetryCount + 1]
                <5>1. Thrown(hr, "409").item = hr.item /\ again.item = hr.item
                    BY <2>1, SameItem DEF Handler
                <5>2. \/ handlers' = [handlers EXCEPT ![h] = Thrown(hr, "409")]
                      \/ handlers' = [handlers EXCEPT ![h] = again]
                    BY <3>6 DEF VersionConflict
                <5> QED BY <5>1, <5>2
            <4> QED BY <2>1, <4>1, <4>2
        <3>7. CASE Refetch(h)
            BY <2>1, <3>7 DEF Refetch, Running, Handler
        <3>8. CASE Leave(h) \/ Crash(h)
            BY <2>1, <3>8 DEF Leave, Crash, IdleHandler, Running
        <3> QED BY <1>2, <3>1, <3>2, <3>3, <3>4, <3>5, <3>6, <3>7, <3>8 DEF Step
    <2>5. Items'
        BY <2>2, <2>4, MovingKeepsCauses
    <2> QED BY <2>3, <2>5 DEF Causes
<1>3. ASSUME NEW p \in Payments,
             \/ ExtensionCommits(p) \/ ExtensionFails(p) \/ ExtensionRepeats(p)
             \/ OtherWrite(p)
      PROVE  Causes'
    <2>1. /\ payments \in [Payments -> Payment]
          /\ extension \in [Payments -> ExtensionCall]
        BY DEF IInv, TypeOK
    <2>2. Items'
        BY <1>3 DEF ExtensionCommits, ExtensionFails, ExtensionRepeats, OtherWrite, Causes
    <2>3. CASE ExtensionCommits(p)
        <3>1. extension'[p].pc = "done"
            <4>1. PICK added : extension' = [extension EXCEPT ![p].pc = "done",
                                                              ![p].added = added]
                BY <2>3 DEF ExtensionCommits
            <4> DEFINE call == [extension[p] EXCEPT !.pc = "done", !.added = added]
            <4>2. extension' = [extension EXCEPT ![p] = call] /\ call.pc = "done"
                BY <2>1, <4>1 DEF ExtensionCall
            <4> HIDE DEF call
            <4> QED BY <2>1, <4>2
        <3>2. \A q \in Payments : q # p =>
                extension'[q] = extension[q] /\ payments'[q] = payments[q]
            BY <2>1, <2>3 DEF ExtensionCommits, Write
        <3>3. Calls'
            BY <3>1, <3>2 DEF Causes
        <3> QED BY <2>2, <3>3 DEF Causes
    <2>4. CASE ExtensionFails(p) \/ ExtensionRepeats(p)
        <3>1. extension[p].pc # "done" /\ UNCHANGED payments
            BY <2>4 DEF ExtensionFails, ExtensionRepeats
        <3>2. \A q \in Payments : q # p => extension'[q] = extension[q]
            BY <2>1, <2>4 DEF ExtensionFails, ExtensionRepeats
        <3>3. Calls'
            BY <3>1, <3>2 DEF Causes
        <3> QED BY <2>2, <3>3 DEF Causes
    <2>5. CASE OtherWrite(p)
        <3>1. \A q \in Payments : payments'[q].hasResponse = payments[q].hasResponse
            BY <2>1, <2>5 DEF OtherWrite, Write, Payment
        <3>2. Calls'
            BY <2>5, <3>1 DEF OtherWrite, Causes
        <3> QED BY <2>2, <3>2 DEF Causes
    <2> QED BY <1>3, <2>3, <2>4, <2>5
<1>4. CASE UNCHANGED vars
    BY <1>4 DEF vars, Causes
<1> QED BY <1>1, <1>2, <1>3, <1>4 DEF Next, Environment

\* Every step is a step of the atomic updates, or one that no payment shows.
LEMMA StepIsAtomic ==
    ASSUME IInv, Causes, [Next]_vars
    PROVE  [Atomic!Next]_(Atomic!vars)
<1> DEFINE delivered == {n \in Notifications : deliveries[n] > 0}
<1>1. CASE UNCHANGED <<payments, deliveries, reported>>
    BY <1>1 DEF Atomic!vars
<1>2. ASSUME NEW h \in Handlers, NEW n \in Notifications, Receive(h, n)
      PROVE  [Atomic!Next]_(Atomic!vars)
    <2>1. deliveries \in [Notifications -> Nat]
        BY BoundsAssumption DEF IInv, TypeOK
    <2>2. delivered' = delivered \cup {n}
        BY <1>2, <2>1 DEF Receive
    <2>3. Atomic!Deliver(n)
        BY <1>2, <2>2 DEF Receive, Atomic!Deliver
    <2> QED BY <2>3 DEF Atomic!Next
<1>3. ASSUME NEW h \in Handlers, NothingToUpdate(h)
      PROVE  [Atomic!Next]_(Atomic!vars)
    <2> DEFINE p == handlers[h].payment
               n == handlers[h].item
    <2>1. /\ p \in Payments /\ n \in Notifications /\ n \in Notification
          /\ IsCopy(handlers[h].current, payments[p])
          /\ payments[p] \in Payment
        BY <1>3, DataAssumption, HandlerFacts DEF NothingToUpdate, Tracks, Running
    <2>2. Reflects(payments[p], n)
        <3>1. Reflects(handlers[h].current, n)
            BY <1>3, <2>1, NothingToUpdateReflects DEF NothingToUpdate, Actions, IsCopy
        <3> QED BY <2>1, <3>1, ExtendsReflects DEF IsCopy
    <2>3. n \in delivered
        BY <1>3, <2>1 DEF NothingToUpdate, Causes, Running
    <2>4. reported' = reported \cup {<<n, p>>} /\ UNCHANGED <<payments, deliveries>>
        BY <1>3 DEF NothingToUpdate, Done
    <2>5. Atomic!Report(n, p)
        BY <2>2, <2>3, <2>4 DEF Atomic!Report
    <2> QED BY <2>1, <2>5 DEF Atomic!Next
<1>4. ASSUME NEW h \in Handlers, UpdateSucceeds(h) \/ AnswerIsLost(h)
      PROVE  [Atomic!Next]_(Atomic!vars)
    <2> DEFINE p == handlers[h].payment
               n == handlers[h].item
    <2>1. Sends(h) /\ Accepts(h) /\ Store(h) /\ UNCHANGED deliveries
        BY <1>4 DEF UpdateSucceeds, AnswerIsLost
    <2>2. /\ p \in Payments /\ n \in Notifications
          /\ Write(p, Updated(payments[p], n))
        BY <2>1, StoreKeepsResponse
    <2>3. n \in delivered
        BY <2>1, <2>2 DEF Sends, Causes, Running
    <2>4. reported' \in {reported, reported \cup {<<n, p>>}}
        BY <1>4 DEF UpdateSucceeds, AnswerIsLost, Done
    <2>5. Atomic!Process(n, p)
        BY <2>1, <2>2, <2>3, <2>4 DEF Atomic!Process, Atomic!Set, Write
    <2> QED BY <2>2, <2>5 DEF Atomic!Next
<1>5. ASSUME NEW p \in Payments,
             \/ ExtensionCommits(p) \/ ExtensionFails(p) \/ ExtensionRepeats(p)
             \/ OtherWrite(p)
      PROVE  [Atomic!Next]_(Atomic!vars)
    <2>1. CASE ExtensionCommits(p)
        <3>1. Atomic!Answer(p)
            BY <2>1 DEF ExtensionCommits, Causes, Write, Atomic!Answer, Atomic!Set
        <3> QED BY <3>1 DEF Atomic!Next
    <2>2. CASE ExtensionFails(p) \/ ExtensionRepeats(p)
        BY <1>1, <2>2 DEF ExtensionFails, ExtensionRepeats
    <2>3. CASE OtherWrite(p)
        <3>1. Atomic!Other(p)
            BY <2>3 DEF OtherWrite, Write, Atomic!Other, Atomic!Set
        <3> QED BY <3>1 DEF Atomic!Next
    <2> QED BY <1>5, <2>1, <2>2, <2>3
<1>6. \/ UNCHANGED <<payments, deliveries, reported>>
      \/ \E h \in Handlers, n \in Notifications : Receive(h, n)
      \/ \E h \in Handlers : NothingToUpdate(h)
      \/ \E h \in Handlers : UpdateSucceeds(h) \/ AnswerIsLost(h)
      \/ \E p \in Payments :
            \/ ExtensionCommits(p) \/ ExtensionFails(p) \/ ExtensionRepeats(p)
            \/ OtherWrite(p)
    BY DEF Next, Step, Environment, FetchByKeys, FetchByCustomField, LookupFails,
           VersionConflict, UpdateFails, Refetch, RefetchFails, Leave, Crash, vars
<1> QED BY <1>1, <1>2, <1>3, <1>4, <1>5, <1>6

\* The concurrent invocations implement the atomic processing of notifications.
THEOREM ImplementsAtomicUpdates == Spec => UpdatesAreAtomic
<1>1. Init => Atomic!Init
    <2>1. Init => {n \in Notifications : deliveries[n] > 0} = {}
        BY DEF Init
    <2> QED BY <2>1 DEF Init, Atomic!Init
<1>2. IInv /\ Causes /\ [Next]_vars => Causes' /\ [Atomic!Next]_(Atomic!vars)
    BY NextKeepsCauses, StepIsAtomic
<1> QED BY <1>1, <1>2, InitCauses, Invariance, PTL
        DEF Spec, UpdatesAreAtomic, Atomic!Spec
============================================================================
