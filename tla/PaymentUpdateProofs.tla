------------------------ MODULE PaymentUpdateProofs ------------------------
(***************************************************************************)
(* Facts about one update of one payment: its type, how it changes the     *)
(* transactions, and that it makes the payment reflect the notification.   *)
(***************************************************************************)
EXTENDS PaymentUpdate, WellFoundedInduction, TLAPS

\* The states and their order, without the record they are read from.
LEMMA StateFlow ==
    /\ TransactionStates = {"Initial", "Pending", "Success", "Failure"}
    /\ TransactionStateFlow["Initial"] = 0
    /\ TransactionStateFlow["Pending"] = 1
    /\ TransactionStateFlow["Success"] = 2
    /\ TransactionStateFlow["Failure"] = 3
BY DEF TransactionStates, TransactionStateFlow

\* Every row of the event table has a state, and a type or null.
LEMMA EventRows ==
    ASSUME NEW e \in AdyenEvents
    PROVE  /\ e.transactionState \in TransactionStates
           /\ e.transactionType \in TransactionTypes \cup {NoValue}
BY StateFlow DEF AdyenEvents, Rows, Both, TransactionTypes

\* An event that stands for a transaction has a type and a state
\* (getTransactionTypeAndStateOrNull).
LEMMA EventOfTransaction ==
    ASSUME NEW n, TransactionType(n) # NoValue
    PROVE  /\ TransactionType(n) \in TransactionTypes
           /\ TransactionState(n) \in TransactionStates
<1> DEFINE rows == {e \in AdyenEvents :
                        e.eventCode = n.eventCode /\ e.success = n.success}
<1>1. rows # {}
    BY DEF TransactionType
<1>2. (CHOOSE e \in rows : TRUE) \in AdyenEvents
    BY <1>1
<1>3. TransactionState(n) = (CHOOSE e \in rows : TRUE).transactionState
    BY <1>1 DEF TransactionState
<1>4. TransactionType(n) \in TransactionTypes
    BY <1>1, <1>2, EventRows
    DEF TransactionType, ModificationType, TransactionTypes
<1> QED BY <1>2, <1>3, <1>4, EventRows

\* A nonempty set of positions has a first one.
LEMMA FirstExists ==
    ASSUME NEW M, M \subseteq Nat, M # {}
    PROVE  First(M) \in M
<1>1. \E i \in M : \A j \in M : ~(<<j, i>> \in OpToRel(<, Nat))
    BY NatLessThanWellFounded, WFMin
<1>2. PICK i \in M : \A j \in M : ~(<<j, i>> \in OpToRel(<, Nat))
    BY <1>1
<1>3. ASSUME NEW j \in M PROVE i <= j
    <2>1. i \in Nat /\ j \in Nat BY <1>3
    <2>2. <<j, i>> \notin OpToRel(<, Nat) BY <1>2
    <2>3. ~(j < i) BY <2>1, <2>2 DEF OpToRel
    <2> QED BY <2>1, <2>3
<1> QED BY <1>3 DEF First

\* The transaction that an update changes is one with the notification's
\* pspReference (_.find in calculateUpdateActionsForPayment).
LEMMA OldTransactionMatches ==
    ASSUME NEW payment \in Payment, NEW n,
           Matching(payment.transactions, n.pspReference) # {}
    PROVE  /\ OldTransaction(payment, n) \in DOMAIN payment.transactions
           /\ payment.transactions[OldTransaction(payment, n)].interactionId
                = n.pspReference
<1>1. Matching(payment.transactions, n.pspReference) \subseteq Nat
    BY DEF Matching, Payment
<1>2. OldTransaction(payment, n)
            \in Matching(payment.transactions, n.pspReference)
    BY <1>1, FirstExists DEF OldTransaction
<1> QED BY <1>2 DEF Matching

LEMMA TextType ==
    ASSUME NEW n \in Notification
    PROVE  RawText(n) \in Text /\ StoredText(n) \in Text
BY DEF Notification, RawText, StoredText, Text

\* What the actions carry, if they are there.
LEMMA ActionTypes ==
    ASSUME NEW payment \in Payment, NEW n \in Notification
    PROVE  LET a == UpdateActions(payment, n)
           IN  /\ a.addInterfaceInteraction \in Text \cup {NoValue}
               /\ a.addTransaction \in Transaction \cup {NoValue}
               /\ a.changeTransactionState # NoValue =>
                    /\ a.changeTransactionState.transaction
                            \in DOMAIN payment.transactions
                    /\ a.changeTransactionState.state \in TransactionStates
               /\ a.setKey \in STRING \cup {NoValue}
               /\ a.setMethodInfoMethod \in STRING \cup {NoValue}
               /\ a.setPaymentMethodVariant \in STRING \cup {NoValue}
<1> DEFINE a == UpdateActions(payment, n)
<1>1. a.addInterfaceInteraction \in Text \cup {NoValue}
    BY TextType DEF UpdateActions
<1>2. a.addTransaction \in Transaction \cup {NoValue}
    <2>1. CASE IsNewTransaction(payment, n)
        <3>1. /\ TransactionType(n) \in TransactionTypes
              /\ TransactionState(n) \in TransactionStates
            BY <2>1, EventOfTransaction DEF IsNewTransaction
        <3> QED BY <2>1, <3>1 DEF UpdateActions, Transaction, Notification
    <2>2. CASE ~IsNewTransaction(payment, n)
        BY <2>2 DEF UpdateActions
    <2> QED BY <2>1, <2>2
<1>3. ASSUME a.changeTransactionState # NoValue
      PROVE  /\ a.changeTransactionState.transaction
                    \in DOMAIN payment.transactions
             /\ a.changeTransactionState.state \in TransactionStates
    <2>1. IsNewState(payment, n)
        BY <1>3 DEF UpdateActions
    <2>2. /\ OldTransaction(payment, n) \in DOMAIN payment.transactions
          /\ TransactionState(n) \in TransactionStates
        BY <2>1, OldTransactionMatches, EventOfTransaction DEF IsNewState
    <2> QED BY <2>1, <2>2 DEF UpdateActions
<1>4. /\ a.setKey \in STRING \cup {NoValue}
      /\ a.setMethodInfoMethod \in STRING \cup {NoValue}
      /\ a.setPaymentMethodVariant \in STRING \cup {NoValue}
    BY DEF UpdateActions, PaymentReference, Notification
<1> HIDE DEF a
<1> QED BY <1>1, <1>2, <1>3, <1>4 DEF a

\* The order of states is reflexive and, with its exception for a recovered
\* Authorization, what calculateUpdateActionsForPayment tests.
LEMMA SameState ==
    ASSUME NEW s \in TransactionStates
    PROVE  CompareTransactionStates(s, s) = 0
BY StateFlow DEF CompareTransactionStates

AnnouncedTransaction(n) ==
    [type |-> TransactionType(n), state |-> TransactionState(n),
     interactionId |-> n.pspReference]

\* The transactions after an update: one more, or one in another state.
LEMMA TransactionsApplied ==
    ASSUME NEW payment \in Payment, NEW n \in Notification
    PROVE  LET old == payment.transactions
               new == Updated(payment, n).transactions
               o == OldTransaction(payment, n)
               t == AnnouncedTransaction(n)
           IN  /\ IsNewTransaction(payment, n) =>
                    t \in Transaction /\ new = Append(old, t)
               /\ IsNewState(payment, n) =>
                    /\ o \in DOMAIN old
                    /\ TransactionState(n) \in TransactionStates
                    /\ new = [old EXCEPT
                                ![o] = InState(old[o], TransactionState(n))]
               /\ ~IsNewTransaction(payment, n) /\ ~IsNewState(payment, n) =>
                    new = old
<1> DEFINE old == payment.transactions
           new == Updated(payment, n).transactions
           o == OldTransaction(payment, n)
           t == AnnouncedTransaction(n)
           a == UpdateActions(payment, n)
<1>1. new = ApplyToTransactions(old, a)
    BY DEF Apply, Updated
<1>2. ASSUME IsNewTransaction(payment, n)
      PROVE  t \in Transaction /\ new = Append(old, t)
    <2>1. a.addTransaction = t
        BY <1>2 DEF UpdateActions, AnnouncedTransaction
    <2>2. t \in Transaction
        BY <1>2, EventOfTransaction
        DEF IsNewTransaction, AnnouncedTransaction, Transaction, Notification
    <2> HIDE DEF a, t, old, new
    <2> QED BY <1>1, <2>1, <2>2, NoValueAssumption DEF ApplyToTransactions
<1>3. ASSUME IsNewState(payment, n)
      PROVE  /\ o \in DOMAIN old
             /\ TransactionState(n) \in TransactionStates
             /\ new = [old EXCEPT ![o] = InState(old[o], TransactionState(n))]
    <2> DEFINE c == [transaction |-> o, state |-> TransactionState(n)]
    <2>1. ~IsNewTransaction(payment, n)
        BY <1>3 DEF IsNewTransaction, IsNewState
    <2>2. a.addTransaction = NoValue /\ a.changeTransactionState = c
        BY <1>3, <2>1 DEF UpdateActions
    <2>3. o \in DOMAIN old /\ TransactionState(n) \in TransactionStates
        BY <1>3, OldTransactionMatches, EventOfTransaction DEF IsNewState
    <2>4. old \in Seq(Transaction)
        BY DEF Payment
    <2>5. c # NoValue
        <3> HIDE DEF old, o
        <3> QED BY <2>3, <2>4, NoValueAssumption
    <2>6. c.transaction = o /\ c.state = TransactionState(n)
        OBVIOUS
    <2> HIDE DEF a, c, old, new, o
    <2>7. new = [old EXCEPT ![o] = InState(old[o], TransactionState(n))]
        BY <1>1, <2>2, <2>5, <2>6 DEF ApplyToTransactions
    <2> QED BY <2>3, <2>7
<1>4. ASSUME ~IsNewTransaction(payment, n), ~IsNewState(payment, n)
      PROVE  new = old
    <2>1. a.addTransaction = NoValue /\ a.changeTransactionState = NoValue
        BY <1>4 DEF UpdateActions
    <2> HIDE DEF a, old, new
    <2> QED BY <1>1, <2>1 DEF ApplyToTransactions
<1> HIDE DEF old, new, o, t
<1> QED BY <1>2, <1>3, <1>4 DEF old, new, o, t

LEMMA TransactionFields ==
    ASSUME NEW old \in Seq(Transaction), NEW i \in DOMAIN old
    PROVE  /\ old[i] \in Transaction
           /\ old[i].type \in TransactionTypes
           /\ old[i].state \in TransactionStates
<1>1. old[i] \in Transaction
    OBVIOUS
<1> QED BY <1>1 DEF Transaction

\* A transaction in another state is the same transaction, and the others
\* are what they were.
LEMMA OneTransactionChanged ==
    ASSUME NEW old \in Seq(Transaction), NEW o \in DOMAIN old,
           NEW s \in TransactionStates,
           NEW new, new = [old EXCEPT ![o] = InState(old[o], s)]
    PROVE  /\ new \in Seq(Transaction)
           /\ Len(new) = Len(old) /\ DOMAIN new = DOMAIN old
           /\ \A i \in DOMAIN old : /\ new[i].type = old[i].type
                                    /\ new[i].interactionId = old[i].interactionId
                                    /\ i # o => new[i] = old[i]
           /\ new[o].state = s
<1> DEFINE t == InState(old[o], s)
<1>1. /\ t \in Transaction
      /\ t.type = old[o].type /\ t.interactionId = old[o].interactionId
      /\ t.state = s
    <2>1. old[o] \in Transaction
        OBVIOUS
    <2> QED BY <2>1 DEF InState, Transaction
<1>2. new = [old EXCEPT ![o] = t]
    OBVIOUS
<1> HIDE DEF t
<1>3. new \in Seq(Transaction) /\ Len(new) = Len(old) /\ DOMAIN new = DOMAIN old
    BY <1>1, <1>2
<1>4. \A i \in DOMAIN old : i # o => new[i] = old[i]
    BY <1>2
<1>5. new[o] = t
    BY <1>2
<1> QED BY <1>1, <1>3, <1>4, <1>5

\* An update only moves transactions forward (compareTransactionStates and
\* isAuthorisationRecoveredFromFailure).
LEMMA UpdateMovesForward ==
    ASSUME NEW payment \in Payment, NEW n \in Notification,
           NEW old, old = payment.transactions,
           NEW new, new = Updated(payment, n).transactions
    PROVE  MovesForward(old, new)
<1>1. old \in Seq(Transaction)
    BY DEF Payment
<1>2. \A i \in DOMAIN old : CompareTransactionStates(old[i].state, old[i].state) = 0
    <2>1. \A i \in DOMAIN old : old[i].state \in TransactionStates
        BY <1>1, TransactionFields
    <2> QED BY <2>1, SameState
<1>3. CASE IsNewTransaction(payment, n)
    <2>1. PICK t \in Transaction : new = Append(old, t)
        BY <1>3, TransactionsApplied
    <2>2. Len(old) <= Len(new) /\ \A i \in DOMAIN old : new[i] = old[i]
        BY <1>1, <2>1
    <2> QED BY <1>2, <2>2 DEF MovesForward
<1>4. CASE IsNewState(payment, n)
    <2> DEFINE o == OldTransaction(payment, n)
               s == TransactionState(n)
    <2>1. /\ o \in DOMAIN old /\ s \in TransactionStates
          /\ new = [old EXCEPT ![o] = InState(old[o], s)]
        BY <1>4, TransactionsApplied
    <2>2. \/ CompareTransactionStates(old[o].state, s) > 0
          \/ /\ old[o].type = "Authorization"
             /\ old[o].state = "Failure"
             /\ s = "Success"
        BY <1>4 DEF IsNewState, Supersedes, IsAuthorisationRecoveredFromFailure
    <2> HIDE DEF o, s
    <2>3. /\ Len(new) = Len(old)
          /\ \A i \in DOMAIN old : /\ new[i].type = old[i].type
                                   /\ new[i].interactionId = old[i].interactionId
                                   /\ i # o => new[i] = old[i]
          /\ new[o].state = s
        BY <1>1, <2>1, OneTransactionChanged
    <2>4. CompareTransactionStates(old[o].state, s) \in Int
        <3>1. old[o].state \in TransactionStates
            BY <1>1, <2>1, TransactionFields
        <3> QED BY <2>1, <3>1, StateFlow DEF CompareTransactionStates
    <2>5. Len(old) <= Len(new)
        BY <1>1, <2>3
    <2>6. ASSUME NEW i \in DOMAIN old
          PROVE  \/ CompareTransactionStates(old[i].state, new[i].state) >= 0
                 \/ /\ old[i].type = "Authorization"
                    /\ old[i].state = "Failure"
                    /\ new[i].state = "Success"
        <3>1. CASE i = o BY <3>1, <2>2, <2>3, <2>4
        <3>2. CASE i # o BY <3>2, <1>2, <2>3
        <3> QED BY <3>1, <3>2
    <2> QED BY <2>3, <2>5, <2>6 DEF MovesForward
<1>5. CASE ~IsNewTransaction(payment, n) /\ ~IsNewState(payment, n)
    <2>1. new = old
        BY <1>5, TransactionsApplied
    <2>2. Len(old) <= Len(old)
        BY <1>1
    <2> QED BY <1>2, <2>1, <2>2 DEF MovesForward
<1> QED BY <1>3, <1>4, <1>5

\* An update never gives a payment a second transaction for a pspReference, a
\* transaction that shares one already being left aside.
LEMMA UpdateKeepsReferencesDistinct ==
    ASSUME NEW payment \in Payment, NEW n \in Notification,
           NEW k, DistinctReferencesBut(payment.transactions, k),
           NEW new, new = Updated(payment, n).transactions
    PROVE  DistinctReferencesBut(new, k)
<1>1. PICK old : old = payment.transactions
    OBVIOUS
<1>2. old \in Seq(Transaction) /\ DistinctReferencesBut(old, k)
    BY <1>1 DEF Payment
<1>3. CASE IsNewTransaction(payment, n)
    <2>1. PICK t \in Transaction : /\ new = Append(old, t)
                                   /\ t.interactionId = n.pspReference
        BY <1>1, <1>3, TransactionsApplied DEF AnnouncedTransaction
    <2>2. \A i \in DOMAIN old : old[i].interactionId # n.pspReference
        BY <1>1, <1>3 DEF IsNewTransaction, Matching
    <2>3. \A i \in DOMAIN new : \/ i \in DOMAIN old /\ new[i] = old[i]
                                \/ i = Len(old) + 1 /\ new[i] = t
        BY <1>2, <2>1
    <2> QED BY <1>2, <2>1, <2>2, <2>3 DEF DistinctReferencesBut
<1>4. CASE IsNewState(payment, n)
    <2> DEFINE o == OldTransaction(payment, n)
               s == TransactionState(n)
    <2>1. /\ o \in DOMAIN old /\ s \in TransactionStates
          /\ new = [old EXCEPT ![o] = InState(old[o], s)]
        BY <1>1, <1>4, TransactionsApplied
    <2> HIDE DEF o, s
    <2>2. /\ DOMAIN new = DOMAIN old
          /\ \A i \in DOMAIN old : new[i].interactionId = old[i].interactionId
        BY <1>2, <2>1, OneTransactionChanged
    <2> QED BY <1>2, <2>2 DEF DistinctReferencesBut
<1>5. CASE ~IsNewTransaction(payment, n) /\ ~IsNewState(payment, n)
    BY <1>1, <1>2, <1>5, TransactionsApplied
<1> QED BY <1>3, <1>4, <1>5

\* An update has a value for every field it changes.
LEMMA UpdatedType ==
    ASSUME NEW payment \in Payment, NEW n \in Notification
    PROVE  Updated(payment, n) \in Payment
<1> DEFINE a == UpdateActions(payment, n)
           setTo(action, field) == IF action = NoValue THEN field ELSE action
<1>1. /\ payment.version \in Nat
      /\ payment.key \in STRING \cup {NoValue}
      /\ payment.merchantReference \in STRING \cup {NoValue}
      /\ payment.hasResponse \in BOOLEAN
      /\ payment.method \in STRING \cup {NoValue}
      /\ payment.paymentMethodVariant \in STRING \cup {NoValue}
      /\ payment.transactions \in Seq(Transaction)
      /\ payment.interactions \in Seq(Text)
    BY DEF Payment
<1>2. /\ setTo(a.setKey, payment.key) \in STRING \cup {NoValue}
      /\ setTo(a.setMethodInfoMethod, payment.method) \in STRING \cup {NoValue}
      /\ setTo(a.setPaymentMethodVariant, payment.paymentMethodVariant)
            \in STRING \cup {NoValue}
    <2>1. /\ a.setKey \in STRING \cup {NoValue}
          /\ a.setMethodInfoMethod \in STRING \cup {NoValue}
          /\ a.setPaymentMethodVariant \in STRING \cup {NoValue}
        BY ActionTypes
    <2> HIDE DEF a
    <2> QED BY <1>1, <2>1
<1>3. Updated(payment, n).transactions \in Seq(Transaction)
    <2> DEFINE old == payment.transactions
               new == Updated(payment, n).transactions
               o == OldTransaction(payment, n)
               t == AnnouncedTransaction(n)
               s == TransactionState(n)
    <2>1. /\ IsNewTransaction(payment, n) => t \in Transaction /\ new = Append(old, t)
          /\ IsNewState(payment, n) =>
                /\ o \in DOMAIN old
                /\ s \in TransactionStates
                /\ new = [old EXCEPT ![o] = InState(old[o], s)]
          /\ ~IsNewTransaction(payment, n) /\ ~IsNewState(payment, n) => new = old
        BY TransactionsApplied
    <2>2. old \in Seq(Transaction)
        BY <1>1
    <2> HIDE DEF old, new, o, t, s
    <2>3. new \in Seq(Transaction)
        BY <2>1, <2>2, OneTransactionChanged
    <2> QED BY <2>3 DEF new
<1>4. (IF a.addInterfaceInteraction = NoValue THEN payment.interactions
       ELSE Append(payment.interactions, a.addInterfaceInteraction)) \in Seq(Text)
    <2>1. a.addInterfaceInteraction \in Text \cup {NoValue}
        BY ActionTypes
    <2> HIDE DEF a
    <2> QED BY <1>1, <2>1
<1>5. Updated(payment, n).transactions = ApplyToTransactions(payment.transactions, a)
    BY DEF Updated, Apply
<1> HIDE DEF a
<1> QED BY <1>1, <1>2, <1>3, <1>4, <1>5 DEF Updated, Apply, Payment, a

\* The texts of a payment after an update: what they were and, unless the
\* payment has it already, the notification's.
LEMMA InteractionsApplied ==
    ASSUME NEW payment \in Payment, NEW n \in Notification
    PROVE  LET old == payment.interactions
               new == Updated(payment, n).interactions
           IN  /\ IsStored(payment, n) => new = old
               /\ ~IsStored(payment, n) => new = Append(old, StoredText(n))
<1>1. StoredText(n) # NoValue
    BY TextType, NoValueAssumption
<1> QED BY <1>1 DEF Updated, Apply, UpdateActions

\* What a later payment still shows: its transactions have only moved forward
\* and its texts are all still there.
Extends(new, old) ==
    /\ MovesForward(old.transactions, new.transactions)
    /\ \A i \in DOMAIN old.interactions :
            /\ i \in DOMAIN new.interactions
            /\ new.interactions[i] = old.interactions[i]

LEMMA UpdateExtends ==
    ASSUME NEW payment \in Payment, NEW n \in Notification
    PROVE  Extends(Updated(payment, n), payment)
<1>1. MovesForward(payment.transactions, Updated(payment, n).transactions)
    BY UpdateMovesForward
<1> DEFINE old == payment.interactions
           new == Updated(payment, n).interactions
<1>2. \A i \in DOMAIN old : i \in DOMAIN new /\ new[i] = old[i]
    <2>1. old \in Seq(Text)
        BY DEF Payment
    <2>2. StoredText(n) \in Text
        BY TextType
    <2>3. new = old \/ new = Append(old, StoredText(n))
        BY InteractionsApplied
    <2> HIDE DEF old, new
    <2> QED BY <2>1, <2>2, <2>3
<1> QED BY <1>1, <1>2 DEF Extends

\* After the update the payment reflects the notification.
LEMMA UpdateReflects ==
    ASSUME NEW payment \in Payment, NEW n \in Notification
    PROVE  Reflects(Updated(payment, n), n)
<1> DEFINE texts == payment.interactions
           newTexts == Updated(payment, n).interactions
           old == payment.transactions
           new == Updated(payment, n).transactions
           o == OldTransaction(payment, n)
           s == TransactionState(n)
<1>1. \E i \in DOMAIN newTexts : newTexts[i] \in {RawText(n), StoredText(n)}
    <2>1. texts \in Seq(Text)
        BY DEF Payment
    <2>2. StoredText(n) \in Text
        BY TextType
    <2>3. CASE IsStored(payment, n)
        BY <2>3, InteractionsApplied DEF IsStored
    <2>4. CASE ~IsStored(payment, n)
        <3>1. newTexts = Append(texts, StoredText(n))
            BY <2>4, InteractionsApplied
        <3> HIDE DEF texts, newTexts
        <3>2. /\ Len(texts) + 1 \in DOMAIN newTexts
              /\ newTexts[Len(texts) + 1] = StoredText(n)
            BY <2>1, <2>2, <3>1
        <3> QED BY <3>2
    <2> QED BY <2>3, <2>4
<1>2. ASSUME TransactionType(n) # NoValue
      PROVE  \E i \in DOMAIN new :
                /\ new[i].interactionId = n.pspReference
                /\ CompareTransactionStates(s, new[i].state) >= 0
    <2>1. old \in Seq(Transaction)
        BY DEF Payment
    <2>2. s \in TransactionStates
        BY <1>2, EventOfTransaction
    <2>3. CASE IsNewTransaction(payment, n)
        <3> DEFINE t == AnnouncedTransaction(n)
        <3>1. t \in Transaction /\ new = Append(old, t)
            BY <2>3, TransactionsApplied
        <3>2. t.interactionId = n.pspReference /\ t.state = s
            BY DEF AnnouncedTransaction
        <3>3. CompareTransactionStates(s, s) >= 0
            BY <2>2, SameState
        <3> HIDE DEF old, new, t, s
        <3>4. Len(old) + 1 \in DOMAIN new /\ new[Len(old) + 1] = t
            BY <2>1, <3>1
        <3> QED BY <3>2, <3>3, <3>4
    <2>4. CASE IsNewState(payment, n)
        <3>1. /\ o \in DOMAIN old
              /\ new = [old EXCEPT ![o] = InState(old[o], s)]
            BY <2>4, TransactionsApplied
        <3>2. old[o].interactionId = n.pspReference
            BY <2>4, OldTransactionMatches DEF IsNewState
        <3>3. CompareTransactionStates(s, s) >= 0
            BY <2>2, SameState
        <3> HIDE DEF old, new, o, s
        <3>4. /\ o \in DOMAIN new
              /\ new[o].state = s /\ new[o].interactionId = n.pspReference
            BY <2>1, <2>2, <3>1, <3>2, OneTransactionChanged
        <3> QED BY <3>3, <3>4
    <2>5. CASE ~IsNewTransaction(payment, n) /\ ~IsNewState(payment, n)
        <3>1. new = old
            BY <2>5, TransactionsApplied
        <3>2. Matching(old, n.pspReference) # {}
            BY <1>2, <2>5 DEF IsNewTransaction
        <3>3. o \in DOMAIN old /\ old[o].interactionId = n.pspReference
            BY <3>2, OldTransactionMatches
        <3>4. ~(CompareTransactionStates(old[o].state, s) > 0)
            BY <1>2, <2>5, <3>2 DEF IsNewState, Supersedes
        <3>5. old[o].state \in TransactionStates
            BY <2>1, <3>3, TransactionFields
        <3> HIDE DEF old, new, o, s
        <3>6. CompareTransactionStates(s, old[o].state) >= 0
            BY <2>2, <3>4, <3>5, StateFlow DEF CompareTransactionStates
        <3> QED BY <3>1, <3>3, <3>6
    <2> QED BY <2>3, <2>4, <2>5
<1> HIDE DEF texts, newTexts, old, new, o, s
<1> QED BY <1>1, <1>2 DEF Reflects, Matching, newTexts, new, s

\* With nothing to update the payment reflects the notification already.
LEMMA NothingToUpdateReflects ==
    ASSUME NEW payment \in Payment, NEW n \in Notification,
           IsEmpty(UpdateActions(payment, n))
    PROVE  Reflects(payment, n)
<1>1. /\ UpdateActions(payment, n).addInterfaceInteraction = NoValue
      /\ UpdateActions(payment, n).addTransaction = NoValue
      /\ UpdateActions(payment, n).changeTransactionState = NoValue
    BY DEF IsEmpty, UpdateActions
<1>2. Updated(payment, n).transactions = payment.transactions
    BY <1>1 DEF Updated, Apply, ApplyToTransactions
<1>3. Updated(payment, n).interactions = payment.interactions
    BY <1>1 DEF Updated, Apply
<1>4. Reflects(Updated(payment, n), n)
    BY UpdateReflects
<1> QED BY <1>2, <1>3, <1>4 DEF Reflects

\* A payment goes on reflecting a notification while its transactions move
\* forward and its texts stay.
LEMMA ExtendsReflects ==
    ASSUME NEW old \in Payment, NEW new \in Payment, Extends(new, old),
           NEW n \in Notification, Reflects(old, n)
    PROVE  Reflects(new, n)
<1>1. \E i \in DOMAIN new.interactions :
            new.interactions[i] \in {RawText(n), StoredText(n)}
    BY DEF Extends, Reflects
<1>2. ASSUME TransactionType(n) # NoValue
      PROVE  \E i \in Matching(new.transactions, n.pspReference) :
                LET t == new.transactions[i]
                IN  \/ CompareTransactionStates(TransactionState(n), t.state) >= 0
                    \/ t.type = "Authorization" /\ t.state = "Success"
    <2> DEFINE before == old.transactions
               after == new.transactions
               s == TransactionState(n)
    <2>1. before \in Seq(Transaction) /\ after \in Seq(Transaction)
        BY DEF Payment
    <2>2. PICK i \in DOMAIN before :
             /\ before[i].interactionId = n.pspReference
             /\ \/ CompareTransactionStates(s, before[i].state) >= 0
                \/ before[i].type = "Authorization" /\ before[i].state = "Success"
        BY <1>2 DEF Reflects, Matching
    <2>3. MovesForward(before, after)
        BY DEF Extends
    <2>4. s \in TransactionStates
        BY <1>2, EventOfTransaction
    <2> HIDE DEF before, after, s
    <2>5. i \in DOMAIN after
        BY <2>1, <2>3 DEF MovesForward
    <2>6. before[i].state \in TransactionStates /\ after[i].state \in TransactionStates
        BY <2>1, <2>5, TransactionFields
    <2>7. /\ after[i].type = before[i].type
          /\ after[i].interactionId = before[i].interactionId
          /\ \/ CompareTransactionStates(before[i].state, after[i].state) >= 0
             \/ /\ before[i].type = "Authorization"
                /\ before[i].state = "Failure"
                /\ after[i].state = "Success"
        BY <2>3 DEF MovesForward
    <2>8. \/ CompareTransactionStates(s, after[i].state) >= 0
          \/ after[i].type = "Authorization" /\ after[i].state = "Success"
        BY <2>2, <2>4, <2>6, <2>7, StateFlow DEF CompareTransactionStates
    <2>9. /\ after[i].interactionId = n.pspReference
          /\ i \in DOMAIN after
        BY <2>2, <2>5, <2>7
    <2> QED BY <2>8, <2>9 DEF Matching, after, s
<1> QED BY <1>1, <1>2 DEF Reflects
============================================================================
