----------------------- MODULE NotificationFactsProofs -----------------------
(***************************************************************************)
(* What a payment says is true: every state of a transaction was announced *)
(* for its reference, and a notification is on the payment once when its   *)
(* text is stored as it was delivered.                                     *)
(*                                                                         *)
(* The argument rests on the atomic updates: whatever is going on, a       *)
(* payment changes by one notification that was delivered, by the          *)
(* extension's answer, or not at all.                                      *)
(*                                                                         *)
(* And what an invocation sends: no update before the extension has        *)
(* answered while there are attempts left, and a bounded number of them;   *)
(* and a modification finds the payment that it modifies.                  *)
(***************************************************************************)
EXTENDS NotificationHandlerProofs

----------------------------------------------------------------------------
(* How a payment changes *)

\* The transactions and texts of a payment after a step.
PaymentChanges(p) ==
    LET old == payments[p]
        new == payments'[p]
    IN  \/ /\ new.transactions = old.transactions
           /\ new.interactions = old.interactions
        \/ \E n \in Notifications :
             /\ deliveries[n] > 0
             /\ new.transactions = Updated(old, n).transactions
             /\ new.interactions = Updated(old, n).interactions
        \/ \E r \in MakePaymentResults[p] :
             /\ extension'[p].pc = "done"
             /\ new.transactions = TransactionsAfterMakePayment(old, r)
             /\ new.interactions = old.interactions

\* What has been announced stays so.
AnnouncementsStay ==
    /\ \A n \in Notifications : deliveries[n] > 0 => deliveries'[n] > 0
    /\ \A p \in Payments : extension[p].pc = "done" => extension'[p].pc = "done"

\* An update changes one payment, and in it what it writes.
LEMMA WrittenPayment ==
    ASSUME IInv, NEW p \in Payments, NEW content, Write(p, content),
           {"version", "transactions", "interactions"} \subseteq DOMAIN content
    PROVE  /\ payments'[p].transactions = content.transactions
           /\ payments'[p].interactions = content.interactions
           /\ \A q \in Payments \ {p} : payments'[q] = payments[q]
<1>1. payments \in [Payments -> Payment]
    BY DEF IInv, TypeOK
<1>2. payments' = [payments EXCEPT ![p] = [content EXCEPT !.version = @ + 1]]
    BY DEF Write
<1>3. payments'[p] = [content EXCEPT !.version = @ + 1]
    BY <1>1, <1>2
<1> QED BY <1>1, <1>2, <1>3

LEMMA StepChangesPayments ==
    ASSUME IInv, Causes, [Next]_vars
    PROVE  AnnouncementsStay /\ \A p \in Payments : PaymentChanges(p)
<1>1. /\ payments \in [Payments -> Payment]
      /\ deliveries \in [Notifications -> Nat]
      /\ \A p \in Payments :
            DOMAIN extension[p] = {"pc", "version", "repeated", "added"}
      /\ DOMAIN extension = Payments
    BY BoundsAssumption DEF IInv, TypeOK, ExtensionCall
<1>2. CASE UNCHANGED <<payments, deliveries, extension>>
    BY <1>2 DEF AnnouncementsStay, PaymentChanges
<1>3. ASSUME NEW h \in Handlers, NEW n \in Notifications, Receive(h, n)
      PROVE  AnnouncementsStay /\ \A p \in Payments : PaymentChanges(p)
    <2>1. UNCHANGED <<payments, extension>>
        BY <1>3 DEF Receive
    <2>2. \A m \in Notifications : deliveries[m] > 0 => deliveries'[m] > 0
        BY <1>1, <1>3 DEF Receive
    <2>3. \A p \in Payments : PaymentChanges(p)
        BY <2>1 DEF PaymentChanges
    <2> QED BY <2>1, <2>2, <2>3 DEF AnnouncementsStay, PaymentChanges
<1>4. ASSUME NEW h \in Handlers, UpdateSucceeds(h) \/ AnswerIsLost(h)
      PROVE  AnnouncementsStay /\ \A p \in Payments : PaymentChanges(p)
    <2> DEFINE p == handlers[h].payment
               n == handlers[h].item
    <2>1. Sends(h) /\ Accepts(h) /\ Store(h) /\ UNCHANGED <<deliveries, extension>>
        BY <1>4 DEF UpdateSucceeds, AnswerIsLost
    <2>2. p \in Payments /\ n \in Notifications /\ Write(p, Updated(payments[p], n))
        BY <2>1, StoreKeepsResponse
    <2>3. deliveries[n] > 0
        BY <2>1 DEF Sends, Causes, Running
    <2>4. {"version", "transactions", "interactions"}
            \subseteq DOMAIN Updated(payments[p], n)
        BY DEF Updated, Apply
    <2> HIDE DEF p, n
    <2>5. /\ payments'[p].transactions = Updated(payments[p], n).transactions
          /\ payments'[p].interactions = Updated(payments[p], n).interactions
          /\ \A q \in Payments \ {p} : payments'[q] = payments[q]
        BY <2>2, <2>4, WrittenPayment
    <2> QED BY <2>1, <2>2, <2>3, <2>5 DEF AnnouncementsStay, PaymentChanges
<1>5. ASSUME NEW p \in Payments, ExtensionCommits(p)
      PROVE  AnnouncementsStay /\ \A q \in Payments : PaymentChanges(q)
    <2>1. PICK r \in MakePaymentResults[p] : Write(p, AfterMakePayment(payments[p], r))
        BY <1>5 DEF ExtensionCommits
    <2>2. /\ UNCHANGED deliveries
          /\ extension'[p].pc = "done"
          /\ \A q \in Payments \ {p} : extension'[q] = extension[q]
        BY <1>1, <1>5 DEF ExtensionCommits
    <2> DEFINE content == AfterMakePayment(payments[p], r)
    <2>3. /\ {"version", "transactions", "interactions"} \subseteq DOMAIN content
          /\ content.transactions = TransactionsAfterMakePayment(payments[p], r)
          /\ content.interactions = payments[p].interactions
        BY <1>1 DEF AfterMakePayment, Payment
    <2> HIDE DEF content
    <2>4. /\ payments'[p].transactions = content.transactions
          /\ payments'[p].interactions = content.interactions
          /\ \A q \in Payments \ {p} : payments'[q] = payments[q]
        BY <2>1, <2>3, WrittenPayment DEF content
    <2> QED BY <2>2, <2>3, <2>4 DEF AnnouncementsStay, PaymentChanges
<1>6. ASSUME NEW p \in Payments, ExtensionFails(p) \/ ExtensionRepeats(p)
      PROVE  AnnouncementsStay /\ \A q \in Payments : PaymentChanges(q)
    <2>1. UNCHANGED <<payments, deliveries>>
        BY <1>6 DEF ExtensionFails, ExtensionRepeats
    <2>2. \A q \in Payments : extension[q].pc = "done" => extension'[q] = extension[q]
        BY <1>1, <1>6 DEF ExtensionFails, ExtensionRepeats
    <2> QED BY <2>1, <2>2 DEF AnnouncementsStay, PaymentChanges
<1>7. ASSUME NEW p \in Payments, OtherWrite(p)
      PROVE  AnnouncementsStay /\ \A q \in Payments : PaymentChanges(q)
    <2>1. Write(p, payments[p]) /\ UNCHANGED <<deliveries, extension>>
        BY <1>7 DEF OtherWrite
    <2>2. {"version", "transactions", "interactions"} \subseteq DOMAIN payments[p]
        BY <1>1 DEF Payment
    <2> QED BY <2>1, <2>2, WrittenPayment DEF AnnouncementsStay, PaymentChanges
<1>8. \/ UNCHANGED <<payments, deliveries, extension>>
      \/ \E h \in Handlers, n \in Notifications : Receive(h, n)
      \/ \E h \in Handlers : UpdateSucceeds(h) \/ AnswerIsLost(h)
      \/ \E p \in Payments : \/ ExtensionCommits(p) \/ ExtensionFails(p)
                            \/ ExtensionRepeats(p) \/ OtherWrite(p)
    BY DEF Next, Step, Environment, FetchByKeys, FetchByCustomField, LookupFails,
           NothingToUpdate, VersionConflict, UpdateFails, Refetch, RefetchFails,
           Leave, Crash, Done, vars
<1> QED BY <1>2, <1>3, <1>4, <1>5, <1>6, <1>7, <1>8

LEMMA CausesHold == Spec => []Causes
<1>1. IInv /\ Causes /\ [Next]_vars => Causes'
    BY NextKeepsCauses
<1> QED BY <1>1, InitCauses, Invariance, PTL DEF Spec

----------------------------------------------------------------------------
(* Announced states *)

\* A transaction of a payment after an update is what it was, or what the
\* notification says of its reference.
LEMMA UpdateAnnounces ==
    ASSUME NEW payment \in Payment, NEW n \in Notification,
           NEW i \in DOMAIN Updated(payment, n).transactions
    PROVE  LET t == Updated(payment, n).transactions[i] IN
           \/ i \in DOMAIN payment.transactions /\ t = payment.transactions[i]
           \/ t.interactionId = n.pspReference /\ t.state = TransactionState(n)
<1> DEFINE old == payment.transactions
           new == Updated(payment, n).transactions
           o == OldTransaction(payment, n)
           a == AnnouncedTransaction(n)
<1>1. old \in Seq(Transaction)
    BY PaymentFields
<1>2. CASE IsNewTransaction(payment, n)
    <2>1. new = Append(old, a)
        BY <1>2, TransactionsApplied
    <2>2. a.interactionId = n.pspReference /\ a.state = TransactionState(n)
        BY DEF AnnouncedTransaction
    <2> HIDE DEF old, new, a
    <2>3. (i \in DOMAIN old /\ new[i] = old[i]) \/ new[i] = a
        BY <1>1, <2>1 DEF new
    <2> QED BY <2>2, <2>3 DEF old, new
<1>3. CASE IsNewState(payment, n)
    <2>1. /\ o \in DOMAIN old
          /\ new = [old EXCEPT ![o] = InState(old[o], TransactionState(n))]
        BY <1>3, TransactionsApplied
    <2>2. old[o].interactionId = n.pspReference
        BY <1>3, OldTransactionMatches DEF IsNewState
    <2>3. /\ InState(old[o], TransactionState(n)).interactionId = old[o].interactionId
          /\ InState(old[o], TransactionState(n)).state = TransactionState(n)
        BY DEF InState
    <2> HIDE DEF old, o
    <2>4. DOMAIN new = DOMAIN old
        BY <2>1
    <2> QED BY <2>1, <2>2, <2>3, <2>4 DEF old
<1>4. CASE ~IsNewTransaction(payment, n) /\ ~IsNewState(payment, n)
    BY <1>4, TransactionsApplied
<1> QED BY <1>2, <1>3, <1>4

\* Announced, in the state after a step.
AnnouncedThen(t, before) ==
    \/ \E i \in DOMAIN before : before[i] = t
    \/ \E n \in Notifications :
          /\ deliveries'[n] > 0
          /\ n.pspReference = t.interactionId
          /\ TransactionState(n) = t.state
    \/ \E p \in Payments : \E r \in MakePaymentResults[p] :
          extension'[p].pc = "done" /\ t = MakePaymentTransaction(r)

LEMMA NextAnnounces ==
    ASSUME IInv, Causes, [Next]_vars, StatesAreAnnounced
    PROVE  StatesAreAnnounced'
<1>1. PICK initial \in InitialPayments : \A p \in Payments :
        \A i \in DOMAIN payments[p].transactions :
            Announced(payments[p].transactions[i], initial[p].transactions)
    BY DEF StatesAreAnnounced
<1>2. AnnouncementsStay /\ \A p \in Payments : PaymentChanges(p)
    BY StepChangesPayments
<1>3. \A t, before : Announced(t, before) => AnnouncedThen(t, before)
    BY <1>2 DEF Announced, AnnouncedThen, AnnouncementsStay
<1>4. ASSUME NEW p \in Payments, NEW i \in DOMAIN payments'[p].transactions
      PROVE  AnnouncedThen(payments'[p].transactions[i], initial[p].transactions)
    <2> DEFINE old == payments[p].transactions
               new == payments'[p].transactions
    <2>1. payments[p] \in Payment
        BY DEF IInv, TypeOK
    <2>2. old \in Seq(Transaction)
        BY <2>1, PaymentFields
    <2>3. \A j \in DOMAIN old : AnnouncedThen(old[j], initial[p].transactions)
        BY <1>1, <1>3
    <2>4. CASE new = old
        BY <2>3, <2>4
    <2>5. ASSUME NEW n \in Notifications, deliveries[n] > 0,
                 new = Updated(payments[p], n).transactions
          PROVE  AnnouncedThen(new[i], initial[p].transactions)
        <3>1. \/ i \in DOMAIN old /\ new[i] = old[i]
              \/ new[i].interactionId = n.pspReference /\ new[i].state = TransactionState(n)
            BY <1>4, <2>1, <2>5, UpdateAnnounces, DataAssumption
        <3>2. deliveries'[n] > 0
            BY <1>2, <2>5 DEF AnnouncementsStay
        <3> HIDE DEF old, new
        <3> QED BY <2>3, <3>1, <3>2 DEF AnnouncedThen
    <2>6. ASSUME NEW r \in MakePaymentResults[p], extension'[p].pc = "done",
                 new = TransactionsAfterMakePayment(payments[p], r)
          PROVE  AnnouncedThen(new[i], initial[p].transactions)
        <3>1. new = old \/ new = Append(old, MakePaymentTransaction(r))
            BY <2>6 DEF TransactionsAfterMakePayment
        <3>2. i \in DOMAIN new
            BY <1>4
        <3> HIDE DEF old, new
        <3>3. (i \in DOMAIN old /\ new[i] = old[i]) \/ new[i] = MakePaymentTransaction(r)
            BY <2>2, <3>1, <3>2
        <3> QED BY <2>3, <2>6, <3>3 DEF AnnouncedThen
    <2> QED BY <1>2, <2>4, <2>5, <2>6 DEF PaymentChanges
<1> QED BY <1>4 DEF StatesAreAnnounced, Announced, AnnouncedThen

\* Every state of a transaction is one that Adyen announced for its reference, in
\* a notification or to the extension, or that it had from the start: no race
\* and no retry puts a state on the wrong transaction, or makes one up.
THEOREM NoInventedState == Spec => []StatesAreAnnounced
<1>1. Init => StatesAreAnnounced
    BY DEF Init, StatesAreAnnounced, Announced
<1>2. IInv /\ Causes /\ [Next]_vars /\ StatesAreAnnounced => StatesAreAnnounced'
    BY NextAnnounces
<1> QED BY <1>1, <1>2, CausesHold, Invariance, PTL DEF Spec

----------------------------------------------------------------------------
(* Texts *)

\* Texts are stored as they were delivered: nothing is removed, and no item has
\* recurring data.
TextsAreStored == \A n \in Notifications : StoredText(n) = RawText(n)

StartDistinct ==
    \A initial \in InitialPayments, p \in Payments :
        \A i, j \in DOMAIN initial[p].interactions :
            initial[p].interactions[i] = initial[p].interactions[j] => i = j

LEMMA NextKeepsTextsDistinct ==
    ASSUME IInv, Causes, [Next]_vars, TextsAreStored, InteractionsAreDistinct
    PROVE  InteractionsAreDistinct'
<1>1. \A p \in Payments : PaymentChanges(p)
    BY StepChangesPayments
<1>2. ASSUME NEW p \in Payments
      PROVE  \A i, j \in DOMAIN payments'[p].interactions :
                payments'[p].interactions[i] = payments'[p].interactions[j] => i = j
    <2> DEFINE old == payments[p].interactions
               new == payments'[p].interactions
    <2>1. payments[p] \in Payment /\ old \in Seq(Text)
        BY PaymentFields DEF IInv, TypeOK
    <2>2. \A i, j \in DOMAIN old : old[i] = old[j] => i = j
        BY DEF InteractionsAreDistinct
    <2>3. \/ new = old
          \/ \E n \in Notifications : new = Updated(payments[p], n).interactions
        BY <1>1 DEF PaymentChanges
    <2>4. CASE new = old
        BY <2>2, <2>4
    <2>5. ASSUME NEW n \in Notifications, new = Updated(payments[p], n).interactions
          PROVE  \A i, j \in DOMAIN new : new[i] = new[j] => i = j
        <3>1. CASE IsStored(payments[p], n)
            BY <2>1, <2>2, <2>5, <3>1, InteractionsApplied, DataAssumption
        <3>2. CASE ~IsStored(payments[p], n)
            <4>1. new = Append(old, RawText(n))
                BY <2>1, <2>5, <3>2, InteractionsApplied, DataAssumption DEF TextsAreStored
            <4>2. \A i \in DOMAIN old : old[i] # RawText(n)
                BY <3>2 DEF IsStored
            <4> HIDE DEF old, new
            <4> QED BY <2>1, <2>2, <4>1, <4>2
        <3> QED BY <3>1, <3>2
    <2> QED BY <2>3, <2>4, <2>5
<1> QED BY <1>2 DEF InteractionsAreDistinct

\* When texts are stored as they were delivered, a notification is stored on a
\* payment once, however often it is delivered and whatever conflicts, lost
\* answers and crashes there are ("check if the interfaceInteraction is already
\* on payment or not").
THEOREM StoredOnce ==
    TextsAreStored /\ StartDistinct => (Spec => []InteractionsAreDistinct)
<1> SUFFICES ASSUME TextsAreStored, StartDistinct
             PROVE  Spec => []InteractionsAreDistinct
    OBVIOUS
<1>1. Init => InteractionsAreDistinct
    BY DEF Init, InteractionsAreDistinct, StartDistinct
<1>2. IInv /\ Causes /\ [Next]_vars /\ InteractionsAreDistinct => InteractionsAreDistinct'
    BY NextKeepsTextsDistinct
<1> QED BY <1>1, <1>2, CausesHold, Invariance, PTL DEF Spec

----------------------------------------------------------------------------
(* Waiting for the response *)

\* An invocation that updates a payment has seen its response, unless its event is
\* not retried or its lookups are used up.
Waits(hr, store) ==
    /\ hr.pc \in {"update", "refetch"}
    /\ hr.item.eventCode \in RetriedEvents
    /\ hr.retryCount < MaxRetry
    => hr.current.hasResponse /\ store[hr.payment].hasResponse

AllWait == \A h \in Handlers : Waits(handlers[h], payments)

\* A response stays on its payment.
LEMMA ResponsesStay ==
    ASSUME IInv, [Next]_vars
    PROVE  \A p \in Payments : payments[p].hasResponse => payments'[p].hasResponse
<1>1. payments \in [Payments -> Payment]
    BY DEF IInv, TypeOK
<1>2. CASE UNCHANGED payments
    BY <1>2
<1>3. ASSUME NEW h \in Handlers, UpdateSucceeds(h) \/ AnswerIsLost(h)
      PROVE  \A p \in Payments : payments[p].hasResponse => payments'[p].hasResponse
    BY <1>3, StoreKeepsResponse DEF UpdateSucceeds, AnswerIsLost
<1>4. ASSUME NEW p \in Payments, ExtensionCommits(p)
      PROVE  \A q \in Payments : payments[q].hasResponse => payments'[q].hasResponse
    <2>1. PICK r \in MakePaymentResults[p] : Write(p, AfterMakePayment(payments[p], r))
        BY <1>4 DEF ExtensionCommits
    <2> DEFINE content == AfterMakePayment(payments[p], r)
    <2>2. content.hasResponse = TRUE /\ {"hasResponse", "version"} \subseteq DOMAIN content
        BY <1>1 DEF AfterMakePayment, Payment
    <2> HIDE DEF content
    <2>3. payments' = [payments EXCEPT ![p] = [content EXCEPT !.version = @ + 1]]
        BY <2>1 DEF Write, content
    <2>4. [content EXCEPT !.version = @ + 1].hasResponse
        BY <2>2
    <2> QED BY <1>1, <2>3, <2>4
<1>5. ASSUME NEW p \in Payments, OtherWrite(p)
      PROVE  \A q \in Payments : payments[q].hasResponse => payments'[q].hasResponse
    BY <1>1, <1>5 DEF OtherWrite, Write, Payment
<1>6. \/ UNCHANGED payments
      \/ \E h \in Handlers : UpdateSucceeds(h) \/ AnswerIsLost(h)
      \/ \E p \in Payments : ExtensionCommits(p) \/ OtherWrite(p)
    BY DEF Next, Step, Environment, Receive, FetchByKeys, FetchByCustomField,
           LookupFails, NothingToUpdate, VersionConflict, UpdateFails, Refetch,
           RefetchFails, Leave, Crash, ExtensionFails, ExtensionRepeats, vars
<1> QED BY <1>2, <1>3, <1>4, <1>5, <1>6

\* The last lookup is behind an invocation that updates after an error.
LEMMA CaughtWaits ==
    ASSUME NEW hr \in Handler, hr.retryCount < MaxRetry, NEW store
    PROVE  Waits(Caught(hr), store)
<1>1. hr.retryCount \in Nat /\ MaxRetry \in Nat
    BY BoundsAssumption DEF Handler
<1>2. DOMAIN hr = {"pc", "item", "payment", "fetched", "current", "retryCount",
                   "updateRetryCount", "final", "status"}
    BY DEF Handler
<1> QED BY <1>1, <1>2 DEF Caught, Waits, IdleHandler

LEMMA ThrownWaits ==
    ASSUME NEW hr, NEW store, Tracks(hr, store), hr.pc \in {"update", "refetch"},
           NEW status
    PROVE  Waits(Thrown(hr, status), store)
<1>1. hr \in Handler
    BY DEF Tracks
<1>2. CASE hr.final
    BY <1>1, <1>2 DEF Thrown, Waits, Handler
<1>3. CASE ~hr.final
    <2>1. hr.retryCount < MaxRetry
        BY <1>3 DEF Tracks, Running
    <2> QED BY <1>1, <1>3, <2>1, CaughtWaits DEF Thrown
<1> QED BY <1>2, <1>3

LEMMA FoundWaits ==
    ASSUME NEW hr, Tracks(hr, payments), payments \in [Payments -> Payment],
           hr.pc \in {"fetchByKeys", "fetchByCustomField"}, NEW p \in Payments
    PROVE  Waits(Found(hr, p), payments)
<1> DEFINE found == [hr EXCEPT !.payment = p, !.fetched = payments[p],
                               !.current = payments[p]]
<1>1. hr \in Handler /\ hr.retryCount < MaxRetry
    BY DEF Tracks, Running
<1>2. /\ found \in Handler /\ found.payment = p /\ found.current = payments[p]
      /\ found.retryCount = hr.retryCount
    BY <1>1 DEF Handler
<1>3. CASE payments[p].hasResponse
    <2> DEFINE next == [found EXCEPT !.pc = "update", !.updateRetryCount = 0]
    <2>1. Found(hr, p) = next
        BY <1>3 DEF Found
    <2> HIDE DEF found
    <2>2. next.payment = p /\ next.current = payments[p]
        BY <1>2 DEF Handler
    <2> QED BY <1>3, <2>1, <2>2 DEF Waits
<1>4. CASE ~payments[p].hasResponse
    <2>1. Found(hr, p) = Caught(found)
        BY <1>4 DEF Found
    <2> HIDE DEF found
    <2> QED BY <1>1, <1>2, <2>1, CaughtWaits
<1> QED BY <1>3, <1>4

\* The step of one invocation, up to what others have written.
LEMMA StepWaits ==
    ASSUME IInv, AllWait, NEW h \in Handlers, Step(h) \/ Leave(h) \/ Crash(h)
    PROVE  /\ \A g \in Handlers \ {h} : handlers'[g] = handlers[g]
           /\ Waits(handlers'[h], payments)
<1> DEFINE hr == handlers[h]
<1>1. /\ hr \in Handler /\ Tracks(hr, payments) /\ Waits(hr, payments)
      /\ handlers \in [Handlers -> Handler] /\ payments \in [Payments -> Payment]
    BY HandlerFacts DEF AllWait
<1>2. \A g \in Handlers \ {h} : handlers'[g] = handlers[g]
    BY <1>1 DEF Step, FetchByKeys, FetchByCustomField, LookupFails, NothingToUpdate,
                UpdateSucceeds, AnswerIsLost, VersionConflict, UpdateFails, Refetch,
                RefetchFails, Leave, Crash, Done
<1>3. CASE FetchByKeys(h)
    <2>1. \/ handlers' = [handlers EXCEPT ![h] = [hr EXCEPT !.pc = "fetchByCustomField"]]
          \/ \E p \in Payments : handlers' = [handlers EXCEPT ![h] = Found(hr, p)]
        BY <1>1, <1>3 DEF FetchByKeys
    <2>2. [hr EXCEPT !.pc = "fetchByCustomField"].pc = "fetchByCustomField"
        BY <1>1 DEF Handler
    <2>3. \A p \in Payments : Waits(Found(hr, p), payments)
        BY <1>1, <1>3, FoundWaits DEF FetchByKeys
    <2>4. Waits([hr EXCEPT !.pc = "fetchByCustomField"], payments)
        BY <2>2 DEF Waits
    <2> QED BY <1>1, <1>2, <2>1, <2>3, <2>4
<1>4. CASE FetchByCustomField(h)
    <2>1. \/ handlers' = [handlers EXCEPT ![h] = Caught(hr)]
          \/ \E p \in Payments : handlers' = [handlers EXCEPT ![h] = Found(hr, p)]
        BY <1>1, <1>4 DEF FetchByCustomField
    <2>2. \A p \in Payments : Waits(Found(hr, p), payments)
        BY <1>1, <1>4, FoundWaits DEF FetchByCustomField
    <2>3. Waits(Caught(hr), payments)
        BY <1>1, <1>4, CaughtWaits DEF FetchByCustomField, Tracks, Running
    <2> QED BY <1>1, <1>2, <2>1, <2>2, <2>3
<1>5. CASE LookupFails(h)
    <2>1. \/ handlers' = [handlers EXCEPT ![h] = Caught([hr EXCEPT !.status = "404"])]
          \/ handlers'[h].pc = "threw"
        BY <1>1, <1>5 DEF LookupFails, Handler
    <2> DEFINE failed == [hr EXCEPT !.status = "404"]
    <2>2. failed \in Handler /\ failed.retryCount = hr.retryCount
        BY <1>1 DEF Handler, Statuses
    <2>3. hr.retryCount < MaxRetry
        BY <1>1, <1>5 DEF LookupFails, Tracks, Running
    <2> HIDE DEF failed
    <2>4. Waits(Caught(failed), payments)
        BY <2>2, <2>3, CaughtWaits
    <2> QED BY <1>1, <1>2, <2>1, <2>4 DEF Waits, failed
<1>6. CASE NothingToUpdate(h) \/ UpdateSucceeds(h)
    <2>1. handlers'[h].pc = "returned"
        BY <1>1, <1>6 DEF NothingToUpdate, UpdateSucceeds, Done, Handler
    <2> QED BY <1>2, <2>1 DEF Waits
<1>7. CASE AnswerIsLost(h) \/ UpdateFails(h) \/ RefetchFails(h)
    <2>1. /\ hr.pc \in {"update", "refetch"}
          /\ handlers'[h] = hr \/ \E status : handlers'[h] = Thrown(hr, status)
        BY <1>1, <1>7 DEF AnswerIsLost, UpdateFails, RefetchFails, Sends
    <2> QED BY <1>1, <1>2, <2>1, ThrownWaits
<1>8. CASE VersionConflict(h)
    <2> DEFINE again == [hr EXCEPT !.pc = "refetch",
                                   !.updateRetryCount = hr.updateRetryCount + 1]
    <2>1. hr.pc = "update" /\ handlers'[h] \in {Thrown(hr, "409"), again}
        BY <1>1, <1>8 DEF VersionConflict, Sends
    <2>2. /\ again.item = hr.item /\ again.current = hr.current
          /\ again.payment = hr.payment /\ again.retryCount = hr.retryCount
        BY <1>1 DEF Handler
    <2> HIDE DEF again
    <2>3. Waits(again, payments)
        BY <1>1, <2>1, <2>2 DEF Waits
    <2> QED BY <1>1, <1>2, <2>1, <2>3, ThrownWaits
<1>9. CASE Refetch(h)
    <2> DEFINE next == [hr EXCEPT !.pc = "update", !.current = payments[hr.payment]]
    <2>1. hr.pc = "refetch" /\ handlers'[h] = next
        BY <1>1, <1>9 DEF Refetch
    <2>2. /\ next.item = hr.item /\ next.current = payments[hr.payment]
          /\ next.payment = hr.payment /\ next.retryCount = hr.retryCount
        BY <1>1 DEF Handler
    <2> HIDE DEF next
    <2>3. Waits(next, payments)
        BY <1>1, <2>1, <2>2 DEF Waits
    <2> QED BY <1>2, <2>1, <2>3
<1>10. CASE Leave(h) \/ Crash(h)
    <2>1. handlers'[h].pc = "idle"
        BY <1>1, <1>10 DEF Leave, Crash, IdleHandler
    <2> QED BY <1>2, <2>1 DEF Waits
<1> QED BY <1>3, <1>4, <1>5, <1>6, <1>7, <1>8, <1>9, <1>10 DEF Step

LEMMA NextWaits ==
    ASSUME IInv, AllWait, [Next]_vars
    PROVE  AllWait'
<1>1. \A hr \in Handler : Tracks(hr, payments) /\ Waits(hr, payments) => Waits(hr, payments')
    BY ResponsesStay DEF Waits, Tracks
<1>2. /\ handlers \in [Handlers -> Handler]
      /\ \A g \in Handlers : Tracks(handlers[g], payments) /\ Waits(handlers[g], payments)
    BY DEF AllWait, IInv, TypeOK
<1>3. ASSUME NEW h \in Handlers, Step(h) \/ Leave(h) \/ Crash(h)
      PROVE  AllWait'
    <2>1. /\ \A g \in Handlers \ {h} : handlers'[g] = handlers[g]
          /\ Waits(handlers'[h], payments)
        BY <1>3, StepWaits
    <2>2. Waits(handlers'[h], payments')
        <3>1. IInv'
            BY NextKeepsIInv
        <3>2. Tracks(handlers'[h], payments')
            BY <3>1 DEF IInv
        <3>3. handlers'[h].pc \in {"update", "refetch"} => handlers'[h].payment \in Payments
            BY <3>2 DEF Tracks, Running
        <3> QED BY <2>1, <3>3, ResponsesStay DEF Waits
    <2> QED BY <1>1, <1>2, <2>1, <2>2 DEF AllWait
<1>4. ASSUME NEW h \in Handlers, NEW n \in Notifications, Receive(h, n)
      PROVE  AllWait'
    <2>1. /\ handlers'[h].pc = "fetchByKeys"
          /\ \A g \in Handlers \ {h} : handlers'[g] = handlers[g]
        BY <1>2, <1>4 DEF Receive, IdleHandler
    <2> QED BY <1>1, <1>2, <2>1 DEF AllWait, Waits
<1>5. CASE UNCHANGED handlers
    BY <1>1, <1>2, <1>5 DEF AllWait
<1>6. \/ UNCHANGED handlers
      \/ \E h \in Handlers : Step(h) \/ Leave(h) \/ Crash(h)
      \/ \E h \in Handlers, n \in Notifications : Receive(h, n)
    BY DEF Next, Environment, ExtensionCommits, ExtensionFails, ExtensionRepeats,
           OtherWrite, vars
<1> QED BY <1>3, <1>4, <1>5, <1>6

\* A notification that the code retries does not touch a payment that lacks the
\* extension's response before all lookups are used up, whatever fails and
\* conflicts in between (the check of the response in processNotification).
THEOREM ResponseIsAwaited == Spec => WaitsForResponse
<1>1. Init => AllWait
    BY DEF Init, AllWait, Waits, IdleHandler
<1>2. IInv /\ AllWait /\ [Next]_vars => AllWait'
    BY NextWaits
<1>3. ASSUME IInv, AllWait, [Next]_vars, NEW h \in Handlers,
             handlers[h].pc = "update", handlers'[h] # handlers[h],
             payments' # payments, ~payments[handlers[h].payment].hasResponse,
             handlers[h].item.eventCode \in RetriedEvents
      PROVE  handlers[h].retryCount = MaxRetry
    <2>1. handlers[h].retryCount \in 0 .. MaxRetry
        BY <1>3, HandlerFacts DEF Handler
    <2>2. ~(handlers[h].retryCount < MaxRetry)
        BY <1>3 DEF AllWait, Waits
    <2> QED BY <2>1, <2>2, BoundsAssumption
<1>4. IInv /\ AllWait /\ [Next]_vars =>
        [\A h \in Handlers :
            LET hr == handlers[h]
            IN  /\ hr.pc = "update"
                /\ handlers'[h] # hr
                /\ payments' # payments
                /\ ~payments[hr.payment].hasResponse
                /\ hr.item.eventCode \in RetriedEvents
                => hr.retryCount = MaxRetry]_vars
    BY <1>3
<1> QED BY <1>1, <1>2, <1>4, Invariance, PTL DEF Spec, WaitsForResponse

----------------------------------------------------------------------------
(* The number of calls *)

\* Each error leads to a greater number, or to no further call.
LEMMA ThrownIsLater ==
    ASSUME NEW hr \in Handler, NEW status,
           Thrown(hr, status).pc \in {"update", "refetch", "fetchByKeys"}
    PROVE  CallNumber(Thrown(hr, status)) > CallNumber(hr)
<1> DEFINE r == hr.retryCount
           u == hr.updateRetryCount
           M == MaxUpdateRetry + 1
           next == Caught(hr)
<1>1. r \in Nat /\ u \in Nat /\ u < M /\ M \in Nat
    BY BoundsAssumption DEF Handler
<1>2. Thrown(hr, status) = next
    BY DEF Thrown, Handler
<1>3. next.retryCount = r + 1 /\ next.updateRetryCount = 0
    <2>1. next.pc # "returned"
        BY <1>2
    <2>2. \/ next = [IdleHandler EXCEPT !.pc = "fetchByKeys", !.item = hr.item,
                                        !.retryCount = r + 1]
          \/ next = [hr EXCEPT !.pc = "update", !.current = hr.fetched,
                               !.retryCount = r + 1, !.updateRetryCount = 0,
                               !.final = TRUE]
          \/ next = [hr EXCEPT !.pc = "returned", !.retryCount = r + 1]
        BY DEF Caught
    <2> HIDE DEF next
    <2> QED BY <2>1, <2>2 DEF IdleHandler, Handler
<1>4. CallNumber(hr) = r * M + u /\ CallNumber(next) = (r + 1) * M + 0
    BY <1>3 DEF CallNumber
<1>5. r * M \in Nat /\ (r + 1) * M = r * M + M
    BY <1>1
<1> HIDE DEF r, u, M, next
<1> QED BY <1>1, <1>2, <1>4, <1>5

\* The calls of update in one invocation are numbered upwards, so their number is
\* bounded by the limits of both loops, whatever others write and whichever calls
\* fail (maxRetry of both).
THEOREM CallsAreBounded == Spec => UpdateCallsAreBounded
<1>1. ASSUME IInv, [Next]_vars, NEW h \in Handlers,
             handlers[h].pc = "update",
             handlers'[h].pc \in {"update", "refetch", "fetchByKeys"},
             handlers'[h] # handlers[h]
      PROVE  CallNumber(handlers'[h]) > CallNumber(handlers[h])
    <2> DEFINE hr == handlers[h]
    <2>1. hr \in Handler /\ handlers \in [Handlers -> Handler]
        BY <1>1, HandlerFacts
    <2>2. \/ \E status : handlers'[h] = Thrown(hr, status)
          \/ handlers'[h] = [hr EXCEPT !.pc = "refetch",
                                       !.updateRetryCount = hr.updateRetryCount + 1]
        <3>1. \A g \in Handlers, n \in Notifications : ~Receive(g, n) \/ g # h
            BY <1>1 DEF Receive
        <3>2. \A g \in Handlers : Step(g) \/ Leave(g) \/ Crash(g) =>
                    g = h \/ handlers'[h] = handlers[h]
            BY <2>1 DEF Step, FetchByKeys, FetchByCustomField, LookupFails,
                NothingToUpdate, UpdateSucceeds, AnswerIsLost, VersionConflict,
                UpdateFails, Refetch, RefetchFails, Leave, Crash, Done
        <3>3. \A g \in Handlers, n \in Notifications : Receive(g, n) =>
                    g = h \/ handlers'[h] = handlers[h]
            BY <2>1 DEF Receive
        <3>4. Step(h) \/ Leave(h) \/ Crash(h)
            BY <1>1, <3>1, <3>2, <3>3 DEF Next, Environment, ExtensionCommits,
                ExtensionFails, ExtensionRepeats, OtherWrite, vars
        <3>5. ~(Leave(h) \/ Crash(h) \/ NothingToUpdate(h) \/ UpdateSucceeds(h))
            BY <1>1, <2>1 DEF Leave, Crash, NothingToUpdate, UpdateSucceeds, Done,
                              IdleHandler, Handler
        <3>6. AnswerIsLost(h) \/ UpdateFails(h) \/ VersionConflict(h)
            BY <1>1, <3>4, <3>5 DEF Step, FetchByKeys, FetchByCustomField, LookupFails,
                                    Refetch, RefetchFails
        <3>7. CASE AnswerIsLost(h) \/ UpdateFails(h)
            BY <1>1, <2>1, <3>7 DEF AnswerIsLost, UpdateFails
        <3>8. CASE VersionConflict(h)
            BY <2>1, <3>8 DEF VersionConflict
        <3> QED BY <3>6, <3>7, <3>8
    <2>3. CASE \E status : handlers'[h] = Thrown(hr, status)
        BY <1>1, <2>1, <2>3, ThrownIsLater
    <2>4. CASE handlers'[h] = [hr EXCEPT !.pc = "refetch",
                                         !.updateRetryCount = hr.updateRetryCount + 1]
        <3> DEFINE M == MaxUpdateRetry + 1
        <3>1. hr.retryCount \in Nat /\ hr.updateRetryCount \in Nat /\ M \in Nat
            BY <2>1, BoundsAssumption DEF Handler
        <3>2. /\ handlers'[h].retryCount = hr.retryCount
              /\ handlers'[h].updateRetryCount = hr.updateRetryCount + 1
            BY <2>1, <2>4 DEF Handler
        <3>3. hr.retryCount * M \in Nat
            BY <3>1
        <3>4. /\ CallNumber(hr) = hr.retryCount * M + hr.updateRetryCount
              /\ CallNumber(handlers'[h]) = hr.retryCount * M + (hr.updateRetryCount + 1)
            BY <3>2 DEF CallNumber
        <3> HIDE DEF hr, M
        <3> QED BY <3>1, <3>3, <3>4 DEF hr
    <2> QED BY <2>2, <2>3, <2>4
<1>2. IInv /\ [Next]_vars =>
        [\A h \in Handlers :
            /\ handlers[h].pc = "update"
            /\ handlers'[h].pc \in {"update", "refetch", "fetchByKeys"}
            /\ handlers'[h] # handlers[h]
            => CallNumber(handlers[h])' > CallNumber(handlers[h])]_vars
    BY <1>1 DEF CallNumber
<1> QED BY <1>2, Invariance, PTL DEF Spec, UpdateCallsAreBounded
----------------------------------------------------------------------------
(* Modifications find their payment *)

\* The payments that modifications are about, by their references.
Originals == {n.originalReference : n \in Notifications} \ {NoValue}

\* What a payment is called before its attempt has a reference.
InitialNames(p) ==
    UNION {{initial[p].key, initial[p].merchantReference} : initial \in InitialPayments}
ResultNames(p) == {r.reference : r \in MakePaymentResults[p]}
Names(p) == InitialNames(p) \cup ResultNames(p)

\* Whatever is announced of payment p is about one attempt to pay it.
IsOnlyAttempt(attempt) ==
    /\ \A n \in Notifications, p \in Payments :
          \/ n.merchantReference \in Names(p) \cup {attempt[p]}
          \/ PaymentReference(n) \in Names(p) \cup {attempt[p]}
          => PaymentReference(n) = attempt[p]
    /\ \A p \in Payments : \A r \in MakePaymentResults[p] :
          r.pspReference \in {attempt[p], NoValue}

\* Modifications modify attempts, not each other, and those whose reference
\* is the key of their payment.
IsModifiedLater(attempt) ==
    /\ \A n \in Notifications :
          n.pspReference \in Originals => n.originalReference = NoValue
    /\ \A initial \in InitialPayments, p \in Payments :
          /\ References(initial[p].transactions) \cap Originals \subseteq {attempt[p]}
          /\ attempt[p] \in Originals =>
                initial[p].version > 0 /\ initial[p].key = attempt[p]

OneAttemptEach ==
    \E attempt \in [Payments -> STRING] :
        IsOnlyAttempt(attempt) /\ IsModifiedLater(attempt)

\* A payment that can be looked up by its attempt once that is modified.
KeepsAttempt(payment, p, attempt) ==
    /\ payment.key \in Names(p) \cup {attempt[p]}
    /\ payment.merchantReference \in Names(p)
    /\ References(payment.transactions) \cap Originals \subseteq {attempt[p]}
    /\ attempt[p] \in Originals => payment.version > 0 /\ payment.key = attempt[p]

\* An invocation works on the payment of its attempt, and finds one.
Finds(hr, attempt) ==
    /\ hr.pc = "returned" => hr.item \in Notifications
    /\ hr.pc \in {"update", "refetch"} => PaymentReference(hr.item) = attempt[hr.payment]
    /\ /\ hr.pc \in Running \cup {"returned"}
       /\ hr.item.originalReference # NoValue
       /\ \E p \in Payments : attempt[p] = hr.item.originalReference
       => /\ hr.pc # "fetchByCustomField"
          /\ hr.pc = "returned" /\ hr.payment = NoValue => hr.status = "404"

AttemptInv(attempt) ==
    /\ \A p \in Payments : KeepsAttempt(payments[p], p, attempt)
    /\ \A h \in Handlers : Finds(handlers[h], attempt)

\* The references of a sequence that is longer by one.
LEMMA ReferencesAfterAppend ==
    ASSUME NEW old \in Seq(Transaction), NEW t
    PROVE  References(Append(old, t)) \subseteq References(old) \cup {t.interactionId}
<1> DEFINE new == Append(old, t)
<1>1. ASSUME NEW i \in DOMAIN new
      PROVE  (i \in DOMAIN old /\ new[i] = old[i]) \/ new[i] = t
    OBVIOUS
<1> HIDE DEF new
<1> QED BY <1>1 DEF References, new

LEMMA UpdateKeepsAttempt ==
    ASSUME NEW attempt, IsModifiedLater(attempt), NEW p \in Payments,
           NEW payment \in Payment, KeepsAttempt(payment, p, attempt),
           NEW n \in Notifications, PaymentReference(n) = attempt[p]
    PROVE  KeepsAttempt(Updated(payment, n), p, attempt)
<1> DEFINE old == payment.transactions
           new == Updated(payment, n).transactions
<1>1. /\ Updated(payment, n).version = payment.version
      /\ Updated(payment, n).merchantReference = payment.merchantReference
      /\ Updated(payment, n).key \in {payment.key, PaymentReference(n)}
    BY DEF Updated, Apply, UpdateActions
<1>2. References(new) \subseteq References(old) \cup {n.pspReference}
    <2>1. ASSUME NEW i \in DOMAIN new
          PROVE  \/ i \in DOMAIN old /\ new[i] = old[i]
                 \/ new[i].interactionId = n.pspReference
        BY <2>1, UpdateAnnounces, DataAssumption
    <2> HIDE DEF old, new
    <2> QED BY <2>1 DEF References
<1>3. n.pspReference \in Originals => n.pspReference = attempt[p]
    BY DEF IsModifiedLater, PaymentReference
<1> HIDE DEF old, new
<1>4. References(new) \cap Originals \subseteq {attempt[p]}
    BY <1>2, <1>3 DEF KeepsAttempt, old
<1> QED BY <1>1, <1>4 DEF KeepsAttempt, new

LEMMA MakePaymentKeepsAttempt ==
    ASSUME NEW attempt, IsOnlyAttempt(attempt), NEW p \in Payments,
           NEW payment \in Payment, KeepsAttempt(payment, p, attempt),
           NEW r \in MakePaymentResults[p]
    PROVE  KeepsAttempt(AfterMakePayment(payment, r), p, attempt)
<1> DEFINE content == AfterMakePayment(payment, r)
<1>1. /\ content.version = payment.version
      /\ content.key = KeyAfterMakePayment(payment, r)
      /\ content.merchantReference \in {payment.merchantReference, r.reference}
      /\ content.transactions = TransactionsAfterMakePayment(payment, r)
    BY DEF AfterMakePayment, Payment
<1>2. r.pspReference \in {attempt[p], NoValue}
    BY DEF IsOnlyAttempt
<1>3. content.key \in {payment.key, attempt[p]}
    BY <1>1, <1>2 DEF KeyAfterMakePayment
<1>4. r.reference \in Names(p)
    BY DEF Names, ResultNames
<1>5. References(content.transactions)
        \subseteq References(payment.transactions) \cup {r.pspReference}
    <2>1. MakePaymentTransaction(r).interactionId = r.pspReference
        BY DEF MakePaymentTransaction
    <2>2. \/ content.transactions = payment.transactions
          \/ content.transactions = Append(payment.transactions, MakePaymentTransaction(r))
        BY <1>1 DEF TransactionsAfterMakePayment
    <2>3. payment.transactions \in Seq(Transaction)
        BY PaymentFields
    <2> HIDE DEF content
    <2> QED BY <2>1, <2>2, <2>3, ReferencesAfterAppend
<1>6. NoValue \notin Originals
    BY DEF Originals
<1> HIDE DEF content
<1>7. References(content.transactions) \cap Originals \subseteq {attempt[p]}
    BY <1>2, <1>5, <1>6 DEF KeepsAttempt
<1> QED BY <1>1, <1>3, <1>4, <1>7 DEF KeepsAttempt, content

LEMMA WriteKeepsAttempt ==
    ASSUME NEW attempt, payments \in [Payments -> Payment],
           \A q \in Payments : KeepsAttempt(payments[q], q, attempt),
           NEW p \in Payments, NEW content, Write(p, content),
           content.version \in Nat,
           {"version", "key", "merchantReference", "transactions"} \subseteq DOMAIN content,
           KeepsAttempt(content, p, attempt)
    PROVE  \A q \in Payments : KeepsAttempt(payments'[q], q, attempt)
<1> DEFINE next == [content EXCEPT !.version = @ + 1]
<1>1. /\ payments'[p] = next
      /\ \A q \in Payments \ {p} : payments'[q] = payments[q]
    BY DEF Write
<1>2. /\ next.version = content.version + 1
      /\ next.key = content.key
      /\ next.merchantReference = content.merchantReference
      /\ next.transactions = content.transactions
    OBVIOUS
<1> HIDE DEF next
<1>3. KeepsAttempt(next, p, attempt)
    BY <1>2 DEF KeepsAttempt
<1> QED BY <1>1, <1>3

\* Payments keep their attempt, as invocations work on the payments of theirs.
LEMMA PaymentsKeepAttempt ==
    ASSUME IInv, NEW attempt, IsOnlyAttempt(attempt), IsModifiedLater(attempt),
           AttemptInv(attempt), [Next]_vars
    PROVE  \A p \in Payments : KeepsAttempt(payments'[p], p, attempt)
<1>1. /\ payments \in [Payments -> Payment]
      /\ \A p \in Payments : KeepsAttempt(payments[p], p, attempt)
    BY DEF IInv, TypeOK, AttemptInv
<1> DEFINE fields == {"version", "key", "merchantReference", "transactions"}
<1>2. CASE UNCHANGED payments
    BY <1>1, <1>2
<1>3. ASSUME NEW h \in Handlers, UpdateSucceeds(h) \/ AnswerIsLost(h)
      PROVE  \A p \in Payments : KeepsAttempt(payments'[p], p, attempt)
    <2> DEFINE p == handlers[h].payment
               n == handlers[h].item
               content == Updated(payments[p], n)
    <2>1. Sends(h) /\ Accepts(h) /\ Store(h)
        BY <1>3 DEF UpdateSucceeds, AnswerIsLost
    <2>2. p \in Payments /\ n \in Notifications /\ Write(p, content)
        BY <2>1, StoreKeepsResponse
    <2>3. PaymentReference(n) = attempt[p]
        BY <2>1 DEF AttemptInv, Finds, Sends
    <2>4. fields \subseteq DOMAIN content /\ content.version = payments[p].version
        BY DEF Updated, Apply
    <2> HIDE DEF p, n
    <2>5. payments[p] \in Payment /\ KeepsAttempt(content, p, attempt)
        BY <1>1, <2>2, <2>3, UpdateKeepsAttempt
    <2>6. content.version \in Nat
        BY <2>4, <2>5, PaymentFields
    <2> HIDE DEF content
    <2> QED BY <1>1, <2>2, <2>4, <2>5, <2>6, WriteKeepsAttempt
<1>4. ASSUME NEW p \in Payments, ExtensionCommits(p)
      PROVE  \A q \in Payments : KeepsAttempt(payments'[q], q, attempt)
    <2>1. PICK r \in MakePaymentResults[p] : Write(p, AfterMakePayment(payments[p], r))
        BY <1>4 DEF ExtensionCommits
    <2> DEFINE content == AfterMakePayment(payments[p], r)
    <2>2. fields \subseteq DOMAIN content /\ content.version = payments[p].version
        BY <1>1 DEF AfterMakePayment, Payment
    <2>3. payments[p] \in Payment /\ KeepsAttempt(content, p, attempt)
        BY <1>1, MakePaymentKeepsAttempt
    <2>4. content.version \in Nat
        BY <2>2, <2>3, PaymentFields
    <2>5. Write(p, content)
        BY <2>1
    <2> HIDE DEF content
    <2> QED BY <1>1, <2>2, <2>3, <2>4, <2>5, WriteKeepsAttempt
<1>5. ASSUME NEW p \in Payments, OtherWrite(p)
      PROVE  \A q \in Payments : KeepsAttempt(payments'[q], q, attempt)
    <2>1. Write(p, payments[p]) /\ payments[p] \in Payment
        BY <1>1, <1>5 DEF OtherWrite
    <2>2. fields \subseteq DOMAIN payments[p] /\ payments[p].version \in Nat
        BY <2>1 DEF Payment
    <2> QED BY <1>1, <2>1, <2>2, WriteKeepsAttempt
<1>6. \/ UNCHANGED payments
      \/ \E h \in Handlers : UpdateSucceeds(h) \/ AnswerIsLost(h)
      \/ \E p \in Payments : ExtensionCommits(p) \/ OtherWrite(p)
    BY DEF Next, Step, Environment, Receive, FetchByKeys, FetchByCustomField,
           LookupFails, NothingToUpdate, VersionConflict, UpdateFails, Refetch,
           RefetchFails, Leave, Crash, ExtensionFails, ExtensionRepeats, vars
<1> QED BY <1>2, <1>3, <1>4, <1>5, <1>6

\* An error leads to another attempt, to an update of the payment that was found,
\* or to the end without one, if there was none.
LEMMA CaughtFinds ==
    ASSUME NEW attempt, NEW hr \in Handler, hr.item \in Notifications,
           hr.fetched # NoValue => PaymentReference(hr.item) = attempt[hr.payment],
           hr.fetched = NoValue =>
                \/ hr.item.originalReference = NoValue
                \/ \A p \in Payments : attempt[p] # hr.item.originalReference
                \/ hr.status = "404" \/ hr.payment # NoValue
    PROVE  Finds(Caught(hr), attempt)
<1> DEFINE next == Caught(hr)
<1>1. \/ next.pc = "fetchByKeys"
      \/ /\ hr.fetched # NoValue /\ next.pc = "update"
         /\ next.item = hr.item /\ next.payment = hr.payment
      \/ /\ hr.fetched = NoValue /\ next.pc = "returned"
         /\ next.item = hr.item /\ next.status = hr.status /\ next.payment = hr.payment
    <2>1. DOMAIN hr = {"pc", "item", "payment", "fetched", "current", "retryCount",
                       "updateRetryCount", "final", "status"}
        BY DEF Handler
    <2> QED BY <2>1 DEF Caught, IdleHandler
<1> HIDE DEF next
<1>2. CASE next.pc = "fetchByKeys"
    BY <1>2 DEF Finds, next
<1>3. CASE next.pc = "update"
    BY <1>1, <1>3 DEF Finds, next
<1>4. CASE next.pc = "returned"
    BY <1>1, <1>4 DEF Finds, next
<1> QED BY <1>1, <1>2, <1>3, <1>4

LEMMA FoundFinds ==
    ASSUME NEW attempt, NEW hr \in Handler, payments \in [Payments -> Payment],
           NEW p \in Payments, hr.item \in Notifications,
           PaymentReference(hr.item) = attempt[p]
    PROVE  Finds(Found(hr, p), attempt)
<1> DEFINE found == [hr EXCEPT !.payment = p, !.fetched = payments[p],
                               !.current = payments[p]]
<1>1. /\ found \in Handler /\ found.payment = p /\ found.item = hr.item
      /\ found.fetched = payments[p]
    BY DEF Handler
<1>2. CASE payments[p].hasResponse
    <2> DEFINE next == [found EXCEPT !.pc = "update", !.updateRetryCount = 0]
    <2>1. Found(hr, p) = next
        BY <1>2 DEF Found
    <2> HIDE DEF found
    <2>2. next.payment = p /\ next.item = hr.item /\ next.pc = "update"
        BY <1>1 DEF Handler
    <2> HIDE DEF next
    <2> QED BY <2>1, <2>2 DEF Finds
<1>3. CASE ~payments[p].hasResponse
    <2>1. Found(hr, p) = Caught(found)
        BY <1>3 DEF Found
    <2> HIDE DEF found
    <2> QED BY <1>1, <2>1, CaughtFinds, PaymentsAssumption
<1> QED BY <1>2, <1>3

LEMMA ThrownFinds ==
    ASSUME NEW attempt, NEW hr, NEW store, Tracks(hr, store),
           hr.pc \in {"update", "refetch"}, Finds(hr, attempt), NEW status
    PROVE  Finds(Thrown(hr, status), attempt)
<1>1. hr \in Handler /\ hr.payment \in Payments /\ hr.item \in Notifications
    BY DEF Tracks, Running
<1>2. CASE hr.final
    BY <1>1, <1>2 DEF Thrown, Finds, Handler, Running
<1>3. CASE ~hr.final
    <2>1. hr.payment # NoValue
        BY <1>1, PaymentsAssumption
    <2> QED BY <1>1, <1>3, <2>1, CaughtFinds DEF Thrown, Finds
<1> QED BY <1>2, <1>3

\* The step of one invocation.
LEMMA StepFinds ==
    ASSUME IInv, NEW attempt, IsOnlyAttempt(attempt), AttemptInv(attempt),
           NEW h \in Handlers, Step(h) \/ Leave(h) \/ Crash(h)
    PROVE  /\ \A g \in Handlers \ {h} : handlers'[g] = handlers[g]
           /\ Finds(handlers'[h], attempt)
<1> DEFINE hr == handlers[h]
           n == hr.item
           IsModification == /\ n.originalReference # NoValue
                             /\ \E p \in Payments : attempt[p] = n.originalReference
<1>1. /\ hr \in Handler /\ Tracks(hr, payments) /\ Finds(hr, attempt)
      /\ handlers \in [Handlers -> Handler] /\ payments \in [Payments -> Payment]
      /\ \A p \in Payments : KeepsAttempt(payments[p], p, attempt)
    BY HandlerFacts DEF AttemptInv
<1>2. \A g \in Handlers \ {h} : handlers'[g] = handlers[g]
    BY <1>1 DEF Step, FetchByKeys, FetchByCustomField, LookupFails, NothingToUpdate,
                UpdateSucceeds, AnswerIsLost, VersionConflict, UpdateFails, Refetch,
                RefetchFails, Leave, Crash, Done
<1>3. hr.pc \in Running => n \in Notifications
    BY <1>1 DEF Tracks
<1>4. CASE FetchByKeys(h)
    <2>1. hr.pc = "fetchByKeys" /\ n \in Notifications
        BY <1>3, <1>4 DEF FetchByKeys, Running
    <2>2. \/ /\ handlers' = [handlers EXCEPT ![h] = [hr EXCEPT !.pc = "fetchByCustomField"]]
             /\ \A p \in Payments : Exists(p) => payments[p].key # PaymentReference(n)
          \/ \E p \in Payments :
             /\ payments[p].key \in {n.merchantReference, PaymentReference(n)}
             /\ handlers' = [handlers EXCEPT ![h] = Found(hr, p)]
        BY <1>1, <1>4 DEF FetchByKeys
    <2>3. ASSUME NEW p \in Payments,
                 payments[p].key \in {n.merchantReference, PaymentReference(n)}
          PROVE  Finds(Found(hr, p), attempt)
        <3>1. payments[p].key \in Names(p) \cup {attempt[p]}
            BY <1>1 DEF KeepsAttempt
        <3>2. PaymentReference(n) = attempt[p]
            BY <2>1, <2>3, <3>1 DEF IsOnlyAttempt
        <3> QED BY <1>1, <2>1, <3>2, FoundFinds
    <2>4. ASSUME \A p \in Payments : Exists(p) => payments[p].key # PaymentReference(n)
          PROVE  ~IsModification
        <3>1. SUFFICES ASSUME NEW p \in Payments, n.originalReference # NoValue,
                              attempt[p] = n.originalReference
                       PROVE  FALSE
            OBVIOUS
        <3>2. attempt[p] \in Originals
            BY <2>1, <3>1 DEF Originals
        <3>3. Exists(p) /\ payments[p].key = PaymentReference(n)
            BY <1>1, <3>1, <3>2 DEF KeepsAttempt, Exists, PaymentReference
        <3> QED BY <2>4, <3>3
    <2> DEFINE next == [hr EXCEPT !.pc = "fetchByCustomField"]
    <2>5. next.pc = "fetchByCustomField" /\ next.item = n
        BY <1>1 DEF Handler
    <2>6. ~IsModification => Finds(next, attempt)
        <3> HIDE DEF next
        <3> QED BY <2>5 DEF Finds
    <2> HIDE DEF IsModification, next
    <2> QED BY <1>1, <1>2, <2>2, <2>3, <2>4, <2>6 DEF next
<1>5. CASE FetchByCustomField(h)
    <2>1. hr.pc = "fetchByCustomField" /\ n \in Notifications /\ hr.fetched = NoValue
        BY <1>1, <1>3, <1>5 DEF FetchByCustomField, Running, Tracks
    <2>2. ~IsModification
        BY <1>1, <2>1 DEF Finds, Running
    <2>3. \/ handlers' = [handlers EXCEPT ![h] = Caught(hr)]
          \/ \E p \in Payments :
             /\ payments[p].merchantReference = n.merchantReference
             /\ handlers' = [handlers EXCEPT ![h] = Found(hr, p)]
        BY <1>1, <1>5 DEF FetchByCustomField
    <2>4. ASSUME NEW p \in Payments, payments[p].merchantReference = n.merchantReference
          PROVE  Finds(Found(hr, p), attempt)
        <3>1. payments[p].merchantReference \in Names(p)
            BY <1>1 DEF KeepsAttempt
        <3>2. PaymentReference(n) = attempt[p]
            BY <2>1, <2>4, <3>1 DEF IsOnlyAttempt
        <3> QED BY <1>1, <2>1, <3>2, FoundFinds
    <2>5. Finds(Caught(hr), attempt)
        BY <1>1, <2>1, <2>2, CaughtFinds
    <2> QED BY <1>1, <1>2, <2>3, <2>4, <2>5
<1>6. CASE LookupFails(h)
    <2> DEFINE failed == [hr EXCEPT !.status = "404"]
    <2>1. \/ handlers' = [handlers EXCEPT ![h] = Caught(failed)]
          \/ handlers'[h].pc = "threw"
        BY <1>1, <1>6 DEF LookupFails, Handler
    <2>2. /\ failed \in Handler /\ failed.status = "404"
          /\ failed.fetched = hr.fetched /\ failed.item = n
        BY <1>1 DEF Handler, Statuses
    <2>3. hr.fetched = NoValue /\ n \in Notifications
        BY <1>1, <1>3, <1>6 DEF LookupFails, Tracks, Running
    <2> HIDE DEF failed
    <2>4. Finds(Caught(failed), attempt)
        BY <2>2, <2>3, CaughtFinds
    <2>5. handlers'[h].pc = "threw" => Finds(handlers'[h], attempt)
        BY DEF Finds, Running
    <2> QED BY <1>1, <1>2, <2>1, <2>4, <2>5
<1>7. CASE NothingToUpdate(h) \/ UpdateSucceeds(h)
    <2>1. hr.pc = "update" /\ handlers' = [handlers EXCEPT ![h].pc = "returned"]
        BY <1>7 DEF NothingToUpdate, UpdateSucceeds, Done, Sends
    <2>2. hr.payment # NoValue /\ n \in Notifications
        BY <1>1, <1>3, <2>1, PaymentsAssumption DEF Tracks, Running
    <2>3. /\ handlers'[h].pc = "returned"
          /\ handlers'[h].payment = hr.payment /\ handlers'[h].item = n
        BY <1>1, <2>1 DEF Handler
    <2> QED BY <1>2, <2>2, <2>3 DEF Finds
<1>8. CASE AnswerIsLost(h) \/ UpdateFails(h) \/ RefetchFails(h)
    <2>1. /\ hr.pc \in {"update", "refetch"}
          /\ handlers'[h] = hr \/ \E status : handlers'[h] = Thrown(hr, status)
        BY <1>1, <1>8 DEF AnswerIsLost, UpdateFails, RefetchFails, Sends
    <2> QED BY <1>1, <1>2, <2>1, ThrownFinds
<1>9. CASE VersionConflict(h) \/ Refetch(h)
    <2> DEFINE again == [hr EXCEPT !.pc = "refetch",
                                   !.updateRetryCount = hr.updateRetryCount + 1]
               next == [hr EXCEPT !.pc = "update", !.current = payments[hr.payment]]
    <2>1. /\ hr.pc \in {"update", "refetch"}
          /\ handlers'[h] \in {Thrown(hr, "409"), again, next}
        BY <1>1, <1>9 DEF VersionConflict, Refetch, Sends
    <2>2. /\ again.pc = "refetch" /\ again.item = n /\ again.payment = hr.payment
          /\ next.pc = "update" /\ next.item = n /\ next.payment = hr.payment
        BY <1>1 DEF Handler
    <2> HIDE DEF again, next
    <2>3. PaymentReference(n) = attempt[hr.payment]
        BY <1>1, <2>1 DEF Finds
    <2>4. Finds(again, attempt) /\ Finds(next, attempt)
        BY <2>2, <2>3 DEF Finds
    <2> QED BY <1>1, <1>2, <2>1, <2>4, ThrownFinds
<1>10. CASE Leave(h) \/ Crash(h)
    <2>1. handlers'[h].pc = "idle"
        BY <1>1, <1>10 DEF Leave, Crash, IdleHandler
    <2> QED BY <1>2, <2>1 DEF Finds, Running
<1> QED BY <1>4, <1>5, <1>6, <1>7, <1>8, <1>9, <1>10 DEF Step

LEMMA NextKeepsAttempt ==
    ASSUME IInv, NEW attempt, IsOnlyAttempt(attempt), IsModifiedLater(attempt),
           AttemptInv(attempt), [Next]_vars
    PROVE  AttemptInv(attempt)'
<1>1. \A p \in Payments : KeepsAttempt(payments'[p], p, attempt)
    BY PaymentsKeepAttempt
<1>2. /\ handlers \in [Handlers -> Handler]
      /\ \A g \in Handlers : Finds(handlers[g], attempt)
    BY DEF AttemptInv, IInv, TypeOK
<1>3. ASSUME NEW h \in Handlers, Step(h) \/ Leave(h) \/ Crash(h)
      PROVE  \A g \in Handlers : Finds(handlers'[g], attempt)
    BY <1>2, <1>3, StepFinds
<1>4. ASSUME NEW h \in Handlers, NEW n \in Notifications, Receive(h, n)
      PROVE  \A g \in Handlers : Finds(handlers'[g], attempt)
    <2>1. /\ handlers'[h].pc = "fetchByKeys"
          /\ \A g \in Handlers \ {h} : handlers'[g] = handlers[g]
        BY <1>2, <1>4 DEF Receive, IdleHandler
    <2> QED BY <1>2, <2>1 DEF Finds
<1>5. ASSUME UNCHANGED handlers
      PROVE  \A g \in Handlers : Finds(handlers'[g], attempt)
    BY <1>2, <1>5
<1>6. \/ UNCHANGED handlers
      \/ \E h \in Handlers : Step(h) \/ Leave(h) \/ Crash(h)
      \/ \E h \in Handlers, n \in Notifications : Receive(h, n)
    BY DEF Next, Environment, ExtensionCommits, ExtensionFails, ExtensionRepeats,
           OtherWrite, vars
<1>7. \A g \in Handlers : Finds(handlers'[g], attempt)
    BY <1>3, <1>4, <1>5, <1>6
<1> QED BY <1>1, <1>7 DEF AttemptInv, KeepsAttempt, Finds, Running

LEMMA InitKeepsAttempt ==
    ASSUME NEW attempt, IsModifiedLater(attempt), Init
    PROVE  AttemptInv(attempt)
<1>1. \A h \in Handlers : Finds(handlers[h], attempt)
    BY DEF Init, IdleHandler, Finds, Running
<1>2. ASSUME NEW p \in Payments
      PROVE  KeepsAttempt(payments[p], p, attempt)
    <2>1. PICK initial \in InitialPayments : initial = payments
        BY DEF Init
    <2>2. /\ initial[p].key \in InitialNames(p)
          /\ initial[p].merchantReference \in InitialNames(p)
        BY DEF InitialNames
    <2> QED BY <2>1, <2>2 DEF Names, KeepsAttempt, IsModifiedLater
<1> QED BY <1>1, <1>2 DEF AttemptInv

\* If all that is announced of a payment is about one attempt to pay it, whose
\* reference is its key when it is modified, no race, crash or redelivery makes a
\* modification miss it: the key stays.  A second attempt, even a failed one,
\* takes the key (Truthy).
THEOREM ModificationsFindPayments ==
    OneAttemptEach => (Spec => []ModificationFindsPayment)
<1> SUFFICES ASSUME OneAttemptEach
             PROVE  Spec => []ModificationFindsPayment
    OBVIOUS
<1>1. PICK attempt \in [Payments -> STRING] :
        IsOnlyAttempt(attempt) /\ IsModifiedLater(attempt)
    BY DEF OneAttemptEach
<1>2. Init => AttemptInv(attempt)
    BY <1>1, InitKeepsAttempt
<1>3. IInv /\ AttemptInv(attempt) /\ [Next]_vars => AttemptInv(attempt)'
    BY <1>1, NextKeepsAttempt
<1>4. IInv /\ AttemptInv(attempt) => ModificationFindsPayment
    <2> SUFFICES ASSUME IInv, AttemptInv(attempt), NEW h \in Handlers, NEW p \in Payments,
                        handlers[h].pc = "returned", handlers[h].payment = NoValue,
                        handlers[h].item.originalReference
                            \in References(payments[p].transactions)
                 PROVE  handlers[h].status = "404"
        BY DEF ModificationFindsPayment
    <2> DEFINE o == handlers[h].item.originalReference
    <2>1. o # NoValue
        BY DEF References
    <2>2. o \in Originals
        BY <2>1 DEF Originals, AttemptInv, Finds
    <2>3. attempt[p] = o
        BY <2>2 DEF AttemptInv, KeepsAttempt
    <2> QED BY <2>1, <2>3 DEF AttemptInv, Finds
<1> QED BY <1>2, <1>3, <1>4, Invariance, PTL DEF Spec

============================================================================
