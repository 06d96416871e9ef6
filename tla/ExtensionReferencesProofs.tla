---------------------- MODULE ExtensionReferencesProofs ----------------------
(***************************************************************************)
(* Adyen is asked to change a payment only after it has authorised one,    *)
(* and the references of a payment's transactions are those of what Adyen  *)
(* did for them, for any updates and any changes.                          *)
(***************************************************************************)
EXTENDS ExtensionHandlersProofs

----------------------------------------------------------------------------
(* Authorised first                                                        *)

HasAuthorised == \E j \in DOMAIN adyen : adyen[j].code \in {"Authorised", "Recovered"}

\* A transaction that there is only after Adyen has authorised the payment.
IsEvidence(t) == t.type = "Authorization" /\ t.state = "Success"

AuthorisedInv ==
    /\ \A t \in AllTransactions : IsEvidence(t) => HasAuthorised
    /\ \A c \in SentCalls : c.op \in Modifications => HasAuthorised
    /\ \A u \in Updates : \A c \in DOMAIN updates[u].answers :
          updates[u].answers[c].code = "Authorised" => HasAuthorised
    /\ ModifiedAfterAuthorisation

\* A payment's transactions are evidence if it has calls of modifications.
LEMMA ModificationIsEvident ==
    ASSUME NEW p, \A t \in p.transactions : t.id \in Nat,
           NEW c \in Calls(p), c.op \in Modifications
    PROVE  \E t \in p.transactions : IsEvidence(t)
<1>1. IsAuthorised(p)
  BY ModificationOfInitial
<1> QED
  BY <1>1 DEF IsAuthorised, ListTransactions, IsEvidence

\* Adyen's own doing.
LEMMA ExecuteAuthorised ==
    ASSUME IInv, AuthorisedInv, NEW u \in Updates, NEW c, Execute(u, c)
    PROVE  AuthorisedInv'
<1>1. PICK code, a : /\ adyen' = Append(adyen, [call |-> c, code |-> code])
                     /\ a \in {AnswerOf(Len(adyen) + 1, code), Error}
                     /\ Receive(u, c, a)
  BY DEF Execute
<1>2. Shapes /\ UNCHANGED <<payment, nextId>>
  BY DEF IInv, Execute
<1>3. /\ AllTransactions' = AllTransactions
      /\ SentCalls' = SentCalls
      /\ c \in SentCalls
      /\ \A v \in Updates : DOMAIN updates'[v].answers = DOMAIN updates[v].answers
  BY <1>1, <1>2, ReceiveKeepsCalls
<1> DEFINE new == [call |-> c, code |-> code]
<1>4. adyen \in Seq([call : SentCalls, code : Codes])
  BY <1>2 DEF Shapes
<1>5. /\ Len(adyen) \in Nat /\ DOMAIN adyen = 1 .. Len(adyen)
      /\ DOMAIN adyen' = 1 .. Len(adyen) + 1
      /\ adyen'[Len(adyen) + 1] = new
      /\ \A i \in 1 .. Len(adyen) : adyen'[i] = adyen[i]
  BY <1>1, <1>4
<1>6. HasAuthorised => HasAuthorised'
  BY <1>5 DEF HasAuthorised
<1>7. code = "Authorised" => HasAuthorised'
  BY <1>5 DEF HasAuthorised
<1>8. a.code = "Authorised" => code = "Authorised"
  BY <1>1 DEF AnswerOf, Error, Answer
<1>9. \A v \in Updates : \A d \in DOMAIN updates'[v].answers :
        updates'[v].answers[d].code = "Authorised" => HasAuthorised'
  <2>1. \A v \in Updates : \A d \in DOMAIN updates[v].answers :
          updates'[v].answers[d] \in {updates[v].answers[d], a}
    BY <1>1, <1>2 DEF Receive, Shapes
  <2> QED
    BY <1>3, <1>6, <1>7, <1>8, <2>1 DEF AuthorisedInv
<1>10. ModifiedAfterAuthorisation'
  <2>1. ASSUME NEW i \in DOMAIN adyen', adyen'[i].call.op \in Modifications
        PROVE  \E j \in 1 .. i - 1 : adyen'[j].code \in {"Authorised", "Recovered"}
    <3>1. CASE i \in DOMAIN adyen
      BY <1>5, <2>1, <3>1 DEF AuthorisedInv, ModifiedAfterAuthorisation
    <3>2. CASE i = Len(adyen) + 1
      <4>1. HasAuthorised
        BY <1>3, <1>5, <2>1, <3>2 DEF AuthorisedInv
      <4> QED
        BY <1>5, <3>2, <4>1 DEF HasAuthorised
    <3> QED
      BY <1>5, <3>1, <3>2
  <2> QED
    BY <2>1 DEF ModifiedAfterAuthorisation
<1> QED
  BY <1>3, <1>6, <1>9, <1>10 DEF AuthorisedInv, IsEvidence

\* The other answers tell what Adyen did before.
LEMMA AnswerAuthorised ==
    ASSUME IInv, AuthorisedInv, NEW u \in Updates, NEW c,
           Replay(u, c) \/ FailCall(u, c)
    PROVE  AuthorisedInv'
<1>1. PICK a : /\ Receive(u, c, a)
               /\ a.code = "Authorised" => HasAuthorised
  <2>1. /\ Error.code # "Authorised"
        /\ \A i, code : AnswerOf(i, code).code = "Authorised" => code = "Authorised"
    BY DEF Error, Answer, AnswerOf
  <2>2. CASE FailCall(u, c)
    BY <2>1, <2>2 DEF FailCall
  <2>3. CASE Replay(u, c)
    BY <2>1, <2>3 DEF Replay, DoneBefore, HasAuthorised
  <2> QED
    BY <2>2, <2>3
<1>2. Shapes /\ UNCHANGED <<payment, adyen, nextId>>
  BY DEF IInv, Replay, FailCall
<1>3. /\ AllTransactions' = AllTransactions
      /\ SentCalls' = SentCalls
      /\ \A v \in Updates : DOMAIN updates'[v].answers = DOMAIN updates[v].answers
  BY <1>1, <1>2, ReceiveKeepsCalls
<1>4. \A v \in Updates : \A d \in DOMAIN updates[v].answers :
        updates'[v].answers[d] \in {updates[v].answers[d], a}
  BY <1>1, <1>2 DEF Receive, Shapes
<1> QED
  BY <1>1, <1>2, <1>3, <1>4 DEF AuthorisedInv, IsEvidence, HasAuthorised,
     ModifiedAfterAuthorisation

\* Steps by which Adyen does nothing and answers nothing.
LEMMA EvidenceKept ==
    ASSUME IInv, AuthorisedInv, adyen' = adyen,
           \A t \in AllTransactions' : IsEvidence(t) => HasAuthorised,
           \A v \in Updates :
             \/ updates'[v].answers = updates[v].answers
             \/ \A c \in DOMAIN updates'[v].answers :
                  /\ c.op \in Modifications => HasAuthorised
                  /\ updates'[v].answers[c].code # "Authorised"
    PROVE  AuthorisedInv'
<1>1. \A c \in SentCalls' : c.op \in Modifications => HasAuthorised
  BY DEF SentCalls, AuthorisedInv
<1>2. \A v \in Updates : \A c \in DOMAIN updates'[v].answers :
        updates'[v].answers[c].code = "Authorised" => HasAuthorised
  BY DEF AuthorisedInv
<1>3. HasAuthorised' <=> HasAuthorised
  BY DEF HasAuthorised
<1>4. ModifiedAfterAuthorisation'
  BY DEF AuthorisedInv, ModifiedAfterAuthorisation
<1> QED
  BY <1>1, <1>2, <1>3, <1>4 DEF AuthorisedInv, IsEvidence

\* An update is opened: its calls are for a payment with evidence.
LEMMA OpenAuthorised ==
    ASSUME IInv, AuthorisedInv, NEW u \in Updates, NEW ch, NEW p, Open(u, ch, p),
           \A t \in p.transactions :
             t.id \in Nat /\ (IsEvidence(t) => HasAuthorised)
    PROVE  AuthorisedInv'
<1>1. /\ UNCHANGED <<payment, adyen>>
      /\ updates'[u].payment = p
      /\ updates'[u].answers = [c \in Calls(p) |-> Waiting]
      /\ \A v \in Updates \ {u} : updates'[v] = updates[v]
  BY DEF Open, IInv, Shapes
<1>2. \A t \in AllTransactions' : t \in AllTransactions \/ t \in p.transactions
  BY <1>1 DEF AllTransactions
<1>3. \A c \in DOMAIN updates'[u].answers :
        /\ c.op \in Modifications => HasAuthorised
        /\ updates'[u].answers[c].code # "Authorised"
  BY <1>1, ModificationIsEvident DEF Waiting, Answer
<1> QED
  BY <1>1, <1>2, <1>3, EvidenceKept DEF AuthorisedInv

\* What the merchant adds is no evidence.
LEMMA SendAuthorised ==
    ASSUME IInv, ProgressInv, AuthorisedInv,
           NEW u \in Updates, NEW ch \in Changes, SendUpdate(u, ch)
    PROVE  AuthorisedInv'
<1> DEFINE p == Changed(ch)
<1>1. Open(u, ch, p)
  BY DEF SendUpdate
<1>2. \A t \in p.transactions :
        \/ t \in payment.transactions
        \/ ch.kind = "transaction" /\ t = NewTransaction(ch)
  BY ChangedTransactions DEF IInv
<1>3. ~IsEvidence(NewTransaction(ch))
  BY DEF IsEvidence, NewTransaction
<1>4. \A t \in p.transactions : t.id \in Nat
  BY ChangedAdvances
<1>5. \A t \in p.transactions : IsEvidence(t) => HasAuthorised
  BY <1>2, <1>3 DEF AuthorisedInv, AllTransactions
<1> HIDE DEF p
<1> QED
  BY <1>1, <1>4, <1>5, OpenAuthorised

\* A notification tells of an authorisation of Adyen's.
LEMMA SuccessIsAuthorised ==
    ASSUME IInv, AuthorisedInv, NEW n \in DOMAIN adyen, "Success" \in EventStates(n)
    PROVE  HasAuthorised
<1>0. DOMAIN adyen = 1 .. Len(adyen) /\ Len(adyen) \in Nat
  <2>1. adyen \in Seq([call : SentCalls, code : Codes])
    BY DEF IInv, Shapes
  <2> QED
    BY <2>1, LenProperties
<1>1. CASE adyen[n].code \in {"Authorised", "Recovered"}
  BY <1>1 DEF HasAuthorised
<1>2. CASE adyen[n].call.op \in Modifications
  <2>1. PICK j \in 1 .. n - 1 : adyen[j].code \in {"Authorised", "Recovered"}
    BY <1>2 DEF AuthorisedInv, ModifiedAfterAuthorisation
  <2>2. j \in DOMAIN adyen
    BY <1>0
  <2> QED
    BY <2>1, <2>2 DEF HasAuthorised
<1> QED
  BY <1>1, <1>2 DEF EventStates

LEMMA NotifiedEvidence ==
    ASSUME IInv, AuthorisedInv, NEW n \in DOMAIN adyen, NEW p \in Notified(n),
           NEW t \in p.transactions, IsEvidence(t)
    PROVE  HasAuthorised
<1>1. PICK state \in EventStates(n) : t \in NotifiedTransactions(n, state)
  BY NotifiedPayment DEF IInv
<1>2. \A s \in payment.transactions : IsTransaction(s) /\ (IsEvidence(s) => HasAuthorised)
  BY DEF AuthorisedInv, AllTransactions, IInv, Shapes
<1>3. CASE t \in payment.transactions
  BY <1>2, <1>3
<1>4. CASE t = NotifiedTransaction(n, state)
  BY <1>4, SuccessIsAuthorised DEF NotifiedTransaction, IsEvidence
<1>5. CASE \E s \in payment.transactions : t = [s EXCEPT !.state = state]
  <2>1. t.state = state
    BY <1>2, <1>5 DEF IsTransaction
  <2> QED
    BY <2>1, SuccessIsAuthorised DEF IsEvidence
<1> QED
  BY <1>1, <1>3, <1>4, <1>5, NotifiedTransactionsAre

\* The answers with which an update is stored.
LEMMA HandledEvidence ==
    ASSUME IInv, AuthorisedInv, NEW u \in Updates, updates[u].phase = "open",
           ProgressInv,
           NEW t \in Handled(updates[u].payment, updates[u].answers).transactions,
           IsEvidence(t)
    PROVE  HasAuthorised
<1> DEFINE p == updates[u].payment
           ans == updates[u].answers
<1>1. /\ DOMAIN ans = Calls(p)
      /\ \A c \in DOMAIN ans : ans[c].code = "Authorised" => HasAuthorised
  BY DEF ProgressInv, CopiesAreEarlier, CopyIsEarlier, AuthorisedInv, SentCalls
<1>2. \A s \in p.transactions : IsTransaction(s) /\ (IsEvidence(s) => HasAuthorised)
  BY DEF AllTransactions, AuthorisedInv, IInv, Shapes
<1>3. \/ \E s \in p.transactions : t = Pending(s, ans)
      \/ t \in AddTransactionByResponse(p, ans)
  BY DEF Handled
<1> HIDE DEF p, ans
<1>4. CASE \E s \in p.transactions : t = Pending(s, ans)
  <2> PICK s \in p.transactions : t = Pending(s, ans)
    BY <1>4
  <2>1. t = s \/ t.state = "Pending"
    BY <1>2 DEF Pending, IsTransaction
  <2> QED
    BY <1>2, <2>1 DEF IsEvidence
<1>5. CASE t \in AddTransactionByResponse(p, ans)
  <2>1. PICK c \in DOMAIN ans :
          t = [id |-> nextId, type |-> "Authorization", of |-> "amountPlanned",
               state |-> AuthorizationState(ans[c].code),
               ref |-> ans[c].ref, key |-> NoKey, by |-> "answer"]
    BY <1>5 DEF AddTransactionByResponse
  <2>2. t.state = AuthorizationState(ans[c].code)
    BY <2>1
  <2>3. ans[c].code = "Authorised"
    BY <2>2 DEF IsEvidence, AuthorizationState
  <2> QED
    BY <1>1, <2>3
<1> QED
  BY <1>3, <1>4, <1>5

LEMMA StoreAuthorised ==
    ASSUME IInv, ProgressInv, AuthorisedInv, NEW u \in Updates, StoreUpdate(u)
    PROVE  AuthorisedInv'
<1>1. /\ adyen' = adyen
      /\ payment' = Handled(updates[u].payment, updates[u].answers)
      /\ updates[u].phase = "open"
  BY DEF StoreUpdate
<1>2. \A v \in Updates :
        /\ updates'[v].payment = updates[v].payment
        /\ updates'[v].answers = updates[v].answers
  BY DEF IInv, StoreUpdate, Shapes
<1>3. \A t \in payment'.transactions : IsEvidence(t) => HasAuthorised
  BY <1>1, HandledEvidence
<1>4. \A t \in AllTransactions' : t \in AllTransactions \/ t \in payment'.transactions
  BY <1>2 DEF AllTransactions
<1> QED
  BY <1>1, <1>2, <1>3, <1>4, EvidenceKept DEF AuthorisedInv

LEMMA NotifyAuthorised ==
    ASSUME IInv, AuthorisedInv, NEW n \in DOMAIN adyen, Notify(n)
    PROVE  AuthorisedInv'
<1>1. PICK p \in Notified(n) : payment' = [p EXCEPT !.version = @ + 1]
  BY DEF Notify
<1>2. UNCHANGED <<updates, adyen>>
  BY DEF Notify
<1>3. payment'.transactions = p.transactions
  BY <1>1, NotifiedPayment DEF IInv, Shapes, FreshPayment
<1>4. \A t \in AllTransactions' : t \in AllTransactions \/ t \in p.transactions
  BY <1>2, <1>3 DEF AllTransactions
<1> QED
  BY <1>2, <1>4, EvidenceKept, NotifiedEvidence DEF AuthorisedInv

\* What Adyen authorised, it has still authorised when another payment recovers.
LEMMA RecoverAuthorised ==
    ASSUME IInv, AuthorisedInv, NEW n \in DOMAIN adyen, Recover(n)
    PROVE  AuthorisedInv'
<1>1. UNCHANGED <<payment, updates>>
  BY DEF Recover
<1>2. AllTransactions' = AllTransactions /\ SentCalls' = SentCalls
  BY <1>1 DEF AllTransactions, SentCalls
<1>3. /\ adyen \in Seq([call : SentCalls, code : Codes])
      /\ DOMAIN adyen = 1 .. Len(adyen)
  BY LenProperties DEF IInv, Shapes
<1>4. adyen[n] \in [call : SentCalls, code : Codes]
  BY <1>3, ElementOfSeq
<1> DEFINE new == [adyen[n] EXCEPT !.code = "Recovered"]
<1>5. new.call = adyen[n].call /\ new.code = "Recovered"
  BY <1>4
<1>6. adyen' = [adyen EXCEPT ![n] = new]
  BY DEF Recover
<1> HIDE DEF new
<1>7. /\ DOMAIN adyen' = DOMAIN adyen
      /\ \A i \in DOMAIN adyen : /\ adyen'[i].call = adyen[i].call
                                /\ adyen'[i].code \in {adyen[i].code, "Recovered"}
  BY <1>5, <1>6
<1>8. HasAuthorised => HasAuthorised'
  BY <1>7 DEF HasAuthorised
<1>9. ModifiedAfterAuthorisation'
  <2>1. ASSUME NEW i \in DOMAIN adyen, adyen[i].call.op \in Modifications
        PROVE  \E j \in 1 .. i - 1 : adyen'[j].code \in {"Authorised", "Recovered"}
    <3>1. PICK j \in 1 .. i - 1 : adyen[j].code \in {"Authorised", "Recovered"}
      BY <2>1 DEF AuthorisedInv, ModifiedAfterAuthorisation
    <3>2. j \in DOMAIN adyen
      BY <1>3
    <3> QED
      BY <1>7, <3>1, <3>2
  <2> QED
    BY <1>7, <2>1 DEF ModifiedAfterAuthorisation
<1> QED
  BY <1>1, <1>2, <1>8, <1>9 DEF AuthorisedInv, IsEvidence

LEMMA NextAuthorised ==
    ASSUME IInv, ProgressInv, AuthorisedInv, [Next]_vars
    PROVE  AuthorisedInv'
<1>1. ASSUME NEW u \in Updates, NEW n \in DOMAIN adyen, SendNotification(u, n)
      PROVE  AuthorisedInv'
  <2>1. PICK p \in Notified(n) :
          Open(u, [NotSent.change EXCEPT !.kind = "notification"], p)
    BY <1>1 DEF SendNotification
  <2> QED
    BY <2>1, NotifiedAdvances, NotifiedEvidence, OpenAuthorised
<1>2. ASSUME NEW u \in Updates, NEW ch \in Changes, RefuseUpdate(u, ch)
      PROVE  AuthorisedInv'
  <2> DEFINE refused == [NotSent EXCEPT !.phase = "rejected", !.change = ch]
  <2>1. /\ UNCHANGED <<payment, adyen>>
        /\ updates' = [updates EXCEPT ![u] = refused]
    BY <1>2 DEF RefuseUpdate
  <2>2. /\ refused.payment = FreshPayment /\ FreshPayment.transactions = {}
        /\ refused.answers = <<>> /\ DOMAIN <<>> = {}
    BY DEF NotSent, FreshPayment
  <2> HIDE DEF refused
  <2>3. updates'[u] = refused /\ \A v \in Updates \ {u} : updates'[v] = updates[v]
    BY <2>1 DEF IInv, Shapes
  <2>4. \A t \in AllTransactions' : t \in AllTransactions
    BY <2>1, <2>2, <2>3 DEF AllTransactions
  <2>5. DOMAIN updates'[u].answers = {}
    BY <2>2, <2>3
  <2> QED
    BY <2>1, <2>3, <2>4, <2>5, EvidenceKept DEF AuthorisedInv
<1>3. ASSUME NEW u \in Updates, RejectUpdate(u)
      PROVE  AuthorisedInv'
  <2>1. /\ UNCHANGED <<payment, adyen>>
        /\ \A v \in Updates :
             /\ updates'[v].payment = updates[v].payment
             /\ updates'[v].answers = updates[v].answers
    BY <1>3 DEF RejectUpdate, IInv, Shapes
  <2>2. \A t \in AllTransactions' : t \in AllTransactions
    BY <2>1 DEF AllTransactions
  <2> QED
    BY <2>1, <2>2, EvidenceKept DEF AuthorisedInv
<1>4. CASE UNCHANGED vars
  <2>1. \A t \in AllTransactions' : t \in AllTransactions
    BY <1>4 DEF vars, AllTransactions
  <2> QED
    BY <1>4, <2>1, EvidenceKept DEF vars, AuthorisedInv
<1> QED
  BY <1>1, <1>2, <1>3, <1>4, ExecuteAuthorised, AnswerAuthorised, SendAuthorised,
     StoreAuthorised, NotifyAuthorised, RecoverAuthorised DEF Next

LEMMA InitAuthorised == Init => AuthorisedInv
<1> SUFFICES ASSUME Init PROVE AuthorisedInv
  OBVIOUS
<1>1. \A u \in Updates : /\ updates[u].payment = FreshPayment
                         /\ DOMAIN updates[u].answers = {}
  <2>1. NotSent.payment = FreshPayment /\ NotSent.answers = <<>> /\ DOMAIN <<>> = {}
    BY DEF NotSent
  <2> QED
    BY <2>1 DEF Init
<1>2. FreshPayment.transactions = {}
  BY DEF FreshPayment
<1>3. AllTransactions = {} /\ SentCalls = {} /\ DOMAIN adyen = {}
  BY <1>1, <1>2 DEF Init, AllTransactions, SentCalls
<1> QED
  BY <1>1, <1>3 DEF AuthorisedInv, ModifiedAfterAuthorisation

\* Adyen is asked to capture, refund or cancel only after it has authorised the
\* payment, at once or when it recovered: no update finds such work on a payment
\* whose authorisation failed, was lost or is still under way
\* (getAuthorizationTransactionSuccess).
THEOREM AuthorisedFirst == Spec => []ModifiedAfterAuthorisation
<1>1. Init => IInv /\ ProgressInv /\ AuthorisedInv
  BY InitInvariant, InitProgress, InitAuthorised
<1>2. IInv /\ ProgressInv /\ AuthorisedInv /\ [Next]_vars
        => (IInv /\ ProgressInv /\ AuthorisedInv)'
  BY NextInvariant, NextProgress, NextAuthorised
<1>3. AuthorisedInv => ModifiedAfterAuthorisation
  BY DEF AuthorisedInv
<1> QED
  BY <1>1, <1>2, <1>3, PTL DEF Spec

----------------------------------------------------------------------------
(* What payments, calls and answers look like                              *)

\* The payment and its copies in updates.
Payments == {payment} \cup {updates[u].payment : u \in Updates}

\* What an answer to a call may tell of: the call itself, or one with its key.
IsDeedOf(r, c) ==
    adyen[r].call = c \/ (c.key # NoKey /\ adyen[r].call.key = c.key)

IsAnswerTo(c, a) ==
    /\ a \in Answers
    /\ a.ref # 0 => IsDeedOf(a.ref, c)
    /\ a.code \in {"Authorised", "Refused"} => a.ref # 0

\* A transaction of the merchant's, and the calls for it, are of some change.
TransactionChanges == {ch \in Changes : ch.kind = "transaction"}

IsOfChange(t, ch) == t.type = ch.of /\ t.of = ch.with /\ t.key = ch.key

IsCallOf(c, ch) ==
    /\ c.op = Modification[ch.of]
    /\ c.of = ch.with
    /\ c.key = GetIdempotencyKey([id |-> c.tx, key |-> ch.key])

IsProperCall(c) ==
    /\ DOMAIN c = {"op", "tx", "of", "key", "original", "names"}
    /\ c.op \in Operations \cup Modifications
    /\ c.original \in References /\ c.names \subseteq References
    /\ c.op \in {"carbonOffset", "disable"} => c.key = NoKey
    /\ c.op \in Modifications => \E ch \in TransactionChanges : IsCallOf(c, ch)

HasOrigin(t) ==
    /\ t.type \in DOMAIN Modification \cup {"Authorization"}
    /\ t.state = "Initial" => t.by = "merchant"
    /\ t.by = "merchant" => \E ch \in TransactionChanges : IsOfChange(t, ch)

IsProperTransaction(t) ==
    /\ HasOrigin(t)
    /\ t.ref \in References
    /\ t.state = "Initial" <=> t.ref = 0

IsProper(p) ==
    /\ DOMAIN p = DOMAIN FreshPayment
    /\ p.version \in Nat \ {0}
    /\ p.key \in References
    /\ p.request \in [Operations -> DOMAIN Readings \cup {NoRequest}]
    /\ p.response \in [Operations -> Answers]
    /\ \A t \in p.transactions : IsProperTransaction(t)

ProperInv ==
    /\ \A p \in Payments : IsProper(p)
    /\ \A u \in Updates :
         /\ updates[u].phase \in {"new", "open", "stored", "rejected"}
         /\ \A c \in DOMAIN updates[u].answers :
              IsProperCall(c) /\ IsAnswerTo(c, updates[u].answers[c])

\* What the keys a merchant chooses for transactions must not be: those of other
\* kinds of transactions, or those the extension makes.
KeysAreSeparate ==
    /\ \A ch \in TransactionChanges : ch.key # NoKey =>
         /\ \A op \in KeyedOperations : ch.key # GenerateOperationKey(op)
         /\ \A i \in Nat : ch.key # <<"transaction", i>>
         /\ \A dh \in TransactionChanges : dh.key = ch.key => dh.of = ch.of
    /\ \A i \in Nat : MerchantKey # <<"transaction", i>>

\* A number's transactions and calls are of one kind.
OperationOf(t) == IF t.type \in DOMAIN Modification THEN Modification[t.type] ELSE "none"

OneOperationPerNumber ==
    \A t \in AllTransactions :
        /\ \A s \in AllTransactions : s.id = t.id => OperationOf(s) = OperationOf(t)
        /\ \A c \in SentCalls : c.tx = t.id => c.op = OperationOf(t)

HasProperReference(t) ==
    t.ref # 0 =>
        LET call == adyen[t.ref].call
        IN  /\ t.type = EventType(call.op)
            /\ t.by = "merchant" =>
                   call.tx = t.id \/ (t.key # NoKey /\ call.key = t.key)

ReferenceInv == \A t \in AllTransactions : HasProperReference(t)

\* What the details yielded is there once.
OneOfDetails(ts) ==
    \A s, t \in ts :
        s.ref = t.ref /\ s.ref # 0 /\ adyen[s.ref].call.op = "submitDetails" => s = t

DetailsInv == \A p \in Payments : OneOfDetails(p.transactions)

----------------------------------------------------------------------------
(* Where payments, deeds and answers come from                             *)

\* Adyen's deeds are numbered from 1.
LEMMA DeedsInOrder ==
    ASSUME IInv
    PROVE  /\ Len(adyen) \in Nat /\ DOMAIN adyen = 1 .. Len(adyen)
           /\ \A i \in DOMAIN adyen : adyen[i].call \in SentCalls /\ adyen[i].code \in Codes
<1>1. adyen \in Seq([call : SentCalls, code : Codes])
  BY DEF IInv, Shapes
<1>2. Len(adyen) \in Nat /\ DOMAIN adyen = 1 .. Len(adyen)
  BY <1>1, LenProperties
<1>3. \A i \in DOMAIN adyen : adyen[i] \in [call : SentCalls, code : Codes]
  BY <1>1, <1>2, ElementOfSeq
<1> QED
  BY <1>2, <1>3

\* What Adyen did stays, and the numbers of transactions grow.
LEMMA DeedsStay ==
    ASSUME IInv, [Next]_vars
    PROVE  /\ References \subseteq References'
           /\ \A r \in References \ {0} : adyen'[r].call = adyen[r].call
           /\ Len(adyen) \in Nat /\ DOMAIN adyen = 1 .. Len(adyen)
<1>1. adyen \in Seq([call : SentCalls, code : Codes])
  BY DEF IInv, Shapes
<1>2. Len(adyen) \in Nat /\ DOMAIN adyen = 1 .. Len(adyen)
  BY <1>1, LenProperties
<1>3. CASE adyen' = adyen
  BY <1>2, <1>3 DEF References
<1>4. CASE \E u \in Updates : \E c \in DOMAIN updates[u].answers : Execute(u, c)
  <2> PICK u \in Updates : \E c \in DOMAIN updates[u].answers : Execute(u, c)
    BY <1>4
  <2> PICK c \in DOMAIN updates[u].answers : Execute(u, c)
    OBVIOUS
  <2>1. PICK code : adyen' = Append(adyen, [call |-> c, code |-> code])
    BY DEF Execute
  <2>2. Len(adyen') = Len(adyen) + 1 /\ \A r \in 1 .. Len(adyen) : adyen'[r] = adyen[r]
    BY <1>1, <2>1
  <2> QED
    BY <1>2, <2>2 DEF References
<1>5. CASE \E n \in DOMAIN adyen : Recover(n)
  <2> PICK n \in DOMAIN adyen : Recover(n)
    BY <1>5
  <2> DEFINE new == [adyen[n] EXCEPT !.code = "Recovered"]
  <2>1. adyen[n] \in [call : SentCalls, code : Codes]
    BY <1>1, <1>2, ElementOfSeq
  <2>2. new.call = adyen[n].call /\ new \in [call : SentCalls, code : Codes]
    BY <2>1 DEF Codes
  <2>3. adyen' = [adyen EXCEPT ![n] = new]
    BY DEF Recover
  <2> HIDE DEF new
  <2>4. /\ Len(adyen') = Len(adyen)
        /\ \A r \in 1 .. Len(adyen) : adyen'[r].call = adyen[r].call
    BY <1>1, <1>2, <2>2, <2>3, ExceptSeq
  <2> QED
    BY <1>2, <2>4 DEF References
<1>6. \/ adyen' = adyen
      \/ \E u \in Updates : \E c \in DOMAIN updates[u].answers : Execute(u, c)
      \/ \E n \in DOMAIN adyen : Recover(n)
  BY DEF Next, vars, SendUpdate, RefuseUpdate, SendNotification, Open, Replay, FailCall,
     StoreUpdate, RejectUpdate, Notify
<1> QED
  BY <1>2, <1>3, <1>4, <1>5, <1>6

\* What a step makes of a payment: a copy with a change or a notification, or the
\* payment as it is stored.
ComesFromStep(p) ==
    \/ \E ch \in Changes : p = Changed(ch)
    \/ \E n \in DOMAIN adyen : \E q \in Notified(n) :
         p = q \/ p = [q EXCEPT !.version = @ + 1]
    \/ \E u \in Updates :
         /\ updates[u].phase = "open"
         /\ updates[u].payment.version = payment.version
         /\ p = Handled(updates[u].payment, updates[u].answers)

\* A step makes at most one payment.
LEMMA PaymentsComeFrom ==
    ASSUME IInv, [Next]_vars
    PROVE  \/ Payments' \subseteq Payments \cup {FreshPayment}
           \/ \E q : ComesFromStep(q) /\ Payments' \subseteq Payments \cup {q}
<1>1. payment \in Payments /\ \A v \in Updates : updates[v].payment \in Payments
  BY DEF Payments
<1>2. Shapes
  BY DEF IInv
<1>3. ASSUME NEW q, payment' \in Payments \cup {q},
             \A v \in Updates : updates'[v].payment \in Payments \cup {q}
      PROVE  Payments' \subseteq Payments \cup {q}
  BY <1>3 DEF Payments
<1>4. ASSUME payment' \in Payments,
             \A v \in Updates : updates'[v].payment = updates[v].payment
      PROVE  Payments' \subseteq Payments
  BY <1>1, <1>4 DEF Payments
<1>5. ASSUME NEW u \in Updates, NEW ch, NEW q, Open(u, ch, q)
      PROVE  Payments' \subseteq Payments \cup {q}
  <2>1. /\ payment' = payment /\ updates'[u].payment = q
        /\ \A v \in Updates \ {u} : updates'[v] = updates[v]
    BY <1>2, <1>5 DEF Open, Shapes
  <2> QED
    BY <1>1, <1>3, <2>1
<1>6. ASSUME NEW u \in Updates, NEW ch \in Changes, SendUpdate(u, ch)
      PROVE  \E q : ComesFromStep(q) /\ Payments' \subseteq Payments \cup {q}
  <2> DEFINE q == Changed(ch)
  <2>1. Open(u, ch, q) /\ ComesFromStep(q)
    BY <1>6 DEF SendUpdate, ComesFromStep
  <2> HIDE DEF q
  <2> QED
    BY <1>5, <2>1
<1>7. ASSUME NEW u \in Updates, NEW n \in DOMAIN adyen, SendNotification(u, n)
      PROVE  \E q : ComesFromStep(q) /\ Payments' \subseteq Payments \cup {q}
  <2>1. PICK q \in Notified(n) :
          Open(u, [NotSent.change EXCEPT !.kind = "notification"], q)
    BY <1>7 DEF SendNotification
  <2>2. ComesFromStep(q)
    BY DEF ComesFromStep
  <2> QED
    BY <1>5, <2>1, <2>2
<1>8. ASSUME NEW u \in Updates, NEW ch \in Changes, RefuseUpdate(u, ch)
      PROVE  Payments' \subseteq Payments \cup {FreshPayment}
  <2> DEFINE refused == [NotSent EXCEPT !.phase = "rejected", !.change = ch]
  <2>1. payment' = payment /\ updates' = [updates EXCEPT ![u] = refused]
    BY <1>8 DEF RefuseUpdate
  <2>2. refused.payment = FreshPayment
    BY DEF NotSent
  <2> HIDE DEF refused
  <2>3. \A v \in Updates : updates'[v].payment \in {updates[v].payment, FreshPayment}
    BY <1>2, <2>1, <2>2 DEF Shapes
  <2> QED
    BY <1>1, <1>3, <2>1, <2>3
<1>9. ASSUME NEW u \in Updates, NEW c \in DOMAIN updates[u].answers,
             Execute(u, c) \/ Replay(u, c) \/ FailCall(u, c)
      PROVE  Payments' \subseteq Payments
  <2>1. PICK a : Receive(u, c, a)
    BY <1>9 DEF Execute, Replay, FailCall
  <2>2. UNCHANGED <<payment, nextId>>
    BY <1>9 DEF Execute, Replay, FailCall
  <2>3. \A v \in Updates : updates'[v].payment = updates[v].payment
    BY <1>2, <2>1, <2>2, ReceiveKeepsCalls
  <2> QED
    BY <1>1, <1>4, <2>2, <2>3
<1>10. ASSUME NEW u \in Updates, StoreUpdate(u)
       PROVE  \E q : ComesFromStep(q) /\ Payments' \subseteq Payments \cup {q}
  <2> DEFINE q == Handled(updates[u].payment, updates[u].answers)
  <2>1. \A v \in Updates : updates'[v].payment = updates[v].payment
    BY <1>2, <1>10 DEF StoreUpdate, Shapes
  <2>2. payment' = q /\ ComesFromStep(q)
    BY <1>10 DEF StoreUpdate, ComesFromStep
  <2> HIDE DEF q
  <2> QED
    BY <1>1, <1>3, <2>1, <2>2
<1>11. ASSUME NEW u \in Updates, RejectUpdate(u)
       PROVE  Payments' \subseteq Payments
  <2>1. \A v \in Updates : updates'[v].payment = updates[v].payment
    BY <1>2, <1>11 DEF RejectUpdate, Shapes
  <2> QED
    BY <1>1, <1>4, <1>11, <2>1 DEF RejectUpdate
<1>12. ASSUME NEW n \in DOMAIN adyen, Notify(n)
       PROVE  \E q : ComesFromStep(q) /\ Payments' \subseteq Payments \cup {q}
  <2>1. PICK p \in Notified(n) : payment' = [p EXCEPT !.version = @ + 1]
    BY <1>12 DEF Notify
  <2> DEFINE q == [p EXCEPT !.version = @ + 1]
  <2>2. payment' = q /\ ComesFromStep(q)
    BY <2>1 DEF ComesFromStep
  <2> HIDE DEF q
  <2>3. updates' = updates
    BY <1>12 DEF Notify
  <2> QED
    BY <1>1, <1>3, <2>2, <2>3
<1>13. CASE UNCHANGED vars \/ \E n \in DOMAIN adyen : Recover(n)
  BY <1>1, <1>4, <1>13 DEF vars, Recover
<1> QED
  BY <1>6, <1>7, <1>8, <1>9, <1>10, <1>11, <1>12, <1>13 DEF Next

\* A step answers a call, or opens an update with the calls for its payment, or
\* leaves an update's calls and answers as they are.
LEMMA AnswersComeFrom ==
    ASSUME IInv, [Next]_vars, NEW v \in Updates, NEW d \in DOMAIN updates'[v].answers
    PROVE  LET a == updates'[v].answers[d] IN
           \/ d \in DOMAIN updates[v].answers /\ a = updates[v].answers[d]
           \/ /\ d \in DOMAIN updates[v].answers
              /\ \/ a = Error
                 \/ \E r \in References' \ {0} :
                      a = AnswerOf(r, adyen'[r].code) /\ IsDeedOf(r, d)'
           \/ d \in Calls(updates'[v].payment) /\ a = Waiting
<1> DEFINE a == updates'[v].answers[d]
<1>1. Shapes
  BY DEF IInv
<1>2. ASSUME NEW u \in Updates, NEW c, NEW b, Receive(u, c, b)
      PROVE  /\ d \in DOMAIN updates[v].answers
             /\ a = updates[v].answers[d] \/ (d = c /\ a = b)
  BY <1>1, <1>2 DEF Receive, Shapes
<1>3. ASSUME NEW u \in Updates, NEW ch, NEW q, Open(u, ch, q)
      PROVE  \/ d \in DOMAIN updates[v].answers /\ a = updates[v].answers[d]
             \/ d \in Calls(updates'[v].payment) /\ a = Waiting
  BY <1>1, <1>3 DEF Open, Shapes
<1>4. ASSUME NEW u \in Updates, NEW c, Execute(u, c)
      PROVE  /\ d \in DOMAIN updates[v].answers
             /\ \/ a = updates[v].answers[d]
                \/ a = Error
                \/ \E r \in References' \ {0} :
                     a = AnswerOf(r, adyen'[r].code) /\ IsDeedOf(r, d)'
  <2>1. PICK code, b : /\ adyen' = Append(adyen, [call |-> c, code |-> code])
                       /\ b \in {AnswerOf(Len(adyen) + 1, code), Error}
                       /\ Receive(u, c, b)
    BY <1>4 DEF Execute
  <2>2. adyen \in Seq([call : SentCalls, code : Codes])
    BY <1>1 DEF Shapes
  <2> PICK r : r = Len(adyen) + 1
    OBVIOUS
  <2>3. r \in References' \ {0} /\ adyen'[r] = [call |-> c, code |-> code]
    BY <2>1, <2>2 DEF References
  <2>4. adyen'[r].call = c /\ adyen'[r].code = code
    BY <2>3
  <2>5. IsDeedOf(r, c)'
    BY <2>4 DEF IsDeedOf
  <2> QED
    BY <1>2, <2>1, <2>3, <2>4, <2>5
<1>5. ASSUME NEW u \in Updates, NEW c, Replay(u, c)
      PROVE  /\ d \in DOMAIN updates[v].answers
             /\ \/ a = updates[v].answers[d]
                \/ a = Error
                \/ \E r \in References' \ {0} :
                     a = AnswerOf(r, adyen'[r].code) /\ IsDeedOf(r, d)'
  <2>1. PICK r \in DoneBefore(c) : \E b \in {AnswerOf(r, adyen[r].code), Error} : Receive(u, c, b)
    BY <1>5 DEF Replay
  <2>2. PICK b \in {AnswerOf(r, adyen[r].code), Error} : Receive(u, c, b)
    BY <2>1
  <2>3. adyen' = adyen
    BY <1>5 DEF Replay
  <2>4. r \in DOMAIN adyen /\ c.key # NoKey /\ adyen[r].call.key = c.key
    BY DEF DoneBefore
  <2>5. r \in References' \ {0}
    BY <2>3, <2>4, DeedsStay DEF References
  <2>6. IsDeedOf(r, c)'
    BY <2>3, <2>4 DEF IsDeedOf
  <2> QED
    BY <1>2, <2>2, <2>3, <2>5, <2>6
<1>6. ASSUME NEW u \in Updates, NEW c, FailCall(u, c)
      PROVE  d \in DOMAIN updates[v].answers /\ a \in {updates[v].answers[d], Error}
  BY <1>2, <1>6 DEF FailCall
<1>7. ASSUME NEW u \in Updates, NEW ch \in Changes, RefuseUpdate(u, ch)
      PROVE  d \in DOMAIN updates[v].answers /\ a = updates[v].answers[d]
  <2> DEFINE refused == [NotSent EXCEPT !.phase = "rejected", !.change = ch]
  <2>1. updates' = [updates EXCEPT ![u] = refused]
    BY <1>7 DEF RefuseUpdate
  <2>2. refused.answers = <<>> /\ DOMAIN <<>> = {}
    BY DEF NotSent
  <2> HIDE DEF refused
  <2> QED
    BY <1>1, <2>1, <2>2 DEF Shapes
<1>8. ASSUME NEW u \in Updates, StoreUpdate(u) \/ RejectUpdate(u)
      PROVE  d \in DOMAIN updates[v].answers /\ a = updates[v].answers[d]
  <2>1. \E phase : updates' = [updates EXCEPT ![u].phase = phase]
    BY <1>8 DEF StoreUpdate, RejectUpdate
  <2>2. updates'[v].answers = updates[v].answers
    BY <1>1, <2>1 DEF Shapes
  <2> QED
    BY <2>2
<1>9. ASSUME updates' = updates
      PROVE  d \in DOMAIN updates[v].answers /\ a = updates[v].answers[d]
  BY <1>9
<1> HIDE DEF a
<1>10. CASE \E u \in Updates : \E ch \in Changes : SendUpdate(u, ch) \/ RefuseUpdate(u, ch)
  BY <1>3, <1>7, <1>10 DEF SendUpdate, a
<1>11. CASE \E u \in Updates : \E n \in DOMAIN adyen : SendNotification(u, n)
  BY <1>3, <1>11 DEF SendNotification, a
<1>12. CASE \E u \in Updates : \E c : Execute(u, c) \/ Replay(u, c) \/ FailCall(u, c)
  BY <1>4, <1>5, <1>6, <1>12 DEF a
<1>13. CASE \E u \in Updates : StoreUpdate(u) \/ RejectUpdate(u)
  BY <1>8, <1>13 DEF a
<1>14. CASE UNCHANGED vars \/ \E n \in DOMAIN adyen : Notify(n) \/ Recover(n)
  BY <1>9, <1>14 DEF vars, Notify, Recover, a
<1> QED
  BY <1>10, <1>11, <1>12, <1>13, <1>14 DEF Next
----------------------------------------------------------------------------
(* Proper payments and calls                                               *)

\* A transaction is the merchant's or an authorization.
LEMMA ChangedIsProper ==
    ASSUME IInv, IsProper(payment), NEW ch \in Changes
    PROVE  IsProper(Changed(ch))
<1> DEFINE p == Changed(ch)
<1>1. /\ DOMAIN payment = DOMAIN FreshPayment
      /\ {"version", "key", "amountPlanned", "request", "response", "transactions"}
            \subseteq DOMAIN payment
  BY DEF IsProper, FreshPayment
<1>2. NoAnswer \in Answers /\ 0 \in References
  <2>1. 0 \in References /\ "none" \in Codes
    BY DeedsInOrder DEF References, Codes
  <2> QED
    BY <2>1 DEF NoAnswer, Answer, Answers
<1>3. CASE ch.kind = "request"
  <2>1. ch.of \in Operations /\ ch.with \in DOMAIN Readings
    BY <1>3, ChangesAssumption
  <2>2. /\ DOMAIN p = DOMAIN payment
        /\ p.version = payment.version /\ p.key = payment.key
        /\ p.transactions = payment.transactions
        /\ p.request = [payment.request EXCEPT ![ch.of] = ch.with]
        /\ p.response = [payment.response EXCEPT ![ch.of] = NoAnswer]
    BY <1>1, <1>3 DEF Changed
  <2> HIDE DEF p
  <2>3. IsProper(p)
    BY <1>1, <1>2, <2>1, <2>2 DEF IsProper
  <2> QED
    BY <2>3 DEF p
<1>4. CASE ch.kind = "transaction"
  <2> DEFINE t == NewTransaction(ch)
  <2>1. /\ DOMAIN p = DOMAIN payment
        /\ p.version = payment.version /\ p.key = payment.key
        /\ p.request = payment.request /\ p.response = payment.response
        /\ p.transactions = payment.transactions \cup {t}
    BY <1>1, <1>4 DEF Changed, NewTransaction
  <2>2. /\ t.type = ch.of /\ t.of = ch.with /\ t.key = ch.key
        /\ t.state = "Initial" /\ t.ref = 0 /\ t.by = "merchant"
    BY DEF NewTransaction
  <2>3. ch.of \in DOMAIN Modification /\ ch \in TransactionChanges
    BY <1>4, ChangesAssumption DEF TransactionChanges
  <2> HIDE DEF t, p
  <2>4. IsProperTransaction(t)
    BY <1>2, <2>2, <2>3 DEF IsProperTransaction, HasOrigin, IsOfChange
  <2>5. IsProper(p)
    BY <2>1, <2>4 DEF IsProper
  <2> QED
    BY <2>5 DEF p
<1>5. CASE ch.kind = "amount"
  <2>1. /\ DOMAIN p = DOMAIN payment
        /\ p.version = payment.version /\ p.key = payment.key
        /\ p.request = payment.request /\ p.response = payment.response
        /\ p.transactions = payment.transactions
    BY <1>1, <1>5 DEF Changed
  <2> HIDE DEF p
  <2>2. IsProper(p)
    BY <2>1 DEF IsProper
  <2> QED
    BY <2>2 DEF p
<1>6. CASE ch.kind \notin {"request", "transaction", "amount"}
  BY <1>6 DEF Changed
<1> QED
  BY <1>3, <1>4, <1>5, <1>6

\* An event is of the kind of what Adyen did.
LEMMA EventTypes ==
    \A op : /\ op \in Modifications => /\ EventType(op) \in DOMAIN Modification
                                       /\ Modification[EventType(op)] = op
            /\ op \notin Modifications => EventType(op) = "Authorization"
BY DEF EventType, Modification, Modifications

\* A payment refers to what Adyen did before.
LEMMA ReferencesAreOfDeeds ==
    ASSUME IInv, ProperInv, NEW n \in DOMAIN adyen
    PROVE  n \in References \ {0} /\ PaymentReference(n) \in References
<1>1. n \in References \ {0}
  BY DeedsInOrder DEF References
<1>2. adyen[n].call.original \in References
  BY ExecutedCallsAreKeyed DEF ProperInv, SentCalls, IsProperCall
<1> QED
  BY <1>1, <1>2 DEF PaymentReference

LEMMA NotifiedIsProper ==
    ASSUME IInv, ProperInv, NEW n \in DOMAIN adyen, NEW q \in Notified(n),
           NEW p \in {q, [q EXCEPT !.version = @ + 1]}
    PROVE  IsProper(p) /\ p.transactions = q.transactions
<1>1. /\ IsProper(payment)
      /\ DOMAIN payment = DOMAIN FreshPayment
      /\ {"version", "key", "request", "response", "transactions"} \subseteq DOMAIN payment
  BY DEF ProperInv, Payments, IsProper, FreshPayment
<1>2. PICK state \in {"Pending", "Success", "Failure"} :
        /\ DOMAIN q = DOMAIN payment
        /\ q.version = payment.version
        /\ q.request = payment.request /\ q.response = payment.response
        /\ q.key = PaymentReference(n)
        /\ q.transactions = NotifiedTransactions(n, state)
  BY NotifiedPayment, EventsAreFinal DEF IInv
<1>3. /\ DOMAIN p = DOMAIN payment
      /\ p.version \in Nat \ {0} /\ p.key = q.key
      /\ p.request = payment.request /\ p.response = payment.response
      /\ p.transactions = q.transactions
  <2>1. CASE p = q
    BY <1>1, <1>2, <2>1 DEF IsProper
  <2>2. CASE p = [q EXCEPT !.version = @ + 1]
    <3>1. /\ DOMAIN p = DOMAIN q
          /\ p.version = payment.version + 1 /\ p.key = q.key
          /\ p.request = q.request /\ p.response = q.response
          /\ p.transactions = q.transactions
      BY <1>1, <1>2, <2>2
    <3> QED
      BY <1>1, <1>2, <3>1 DEF IsProper
  <2> QED
    BY <2>1, <2>2
<1>4. \A t \in payment.transactions : IsProperTransaction(t) /\ IsTransaction(t)
  BY <1>1 DEF IsProper, IInv, Shapes, AllTransactions
<1>5. n \in References \ {0} /\ PaymentReference(n) \in References
  BY ReferencesAreOfDeeds
<1>6. ASSUME NEW t \in NotifiedTransactions(n, state) PROVE IsProperTransaction(t)
  <2>1. CASE t = NotifiedTransaction(n, state)
    <3>1. /\ t.type = EventType(adyen[n].call.op) /\ t.ref = n
          /\ t.state = state /\ t.by = "notification"
      BY <2>1 DEF NotifiedTransaction
    <3>2. t.type \in DOMAIN Modification \cup {"Authorization"}
      BY <3>1, EventTypes
    <3> QED
      BY <1>5, <3>1, <3>2 DEF IsProperTransaction, HasOrigin
  <2>2. CASE \E s \in payment.transactions :
               s.ref = n /\ t = [s EXCEPT !.state = state]
    <3> PICK s \in payment.transactions : s.ref = n /\ t = [s EXCEPT !.state = state]
      BY <2>2
    <3>1. /\ t.type = s.type /\ t.of = s.of /\ t.key = s.key
          /\ t.ref = s.ref /\ t.by = s.by /\ t.state = state
      BY <1>4 DEF IsTransaction
    <3> QED
      BY <1>4, <1>5, <3>1 DEF IsProperTransaction, HasOrigin, IsOfChange
  <2> QED
    BY <1>4, <2>1, <2>2, NotifiedTransactionsAre
<1> QED
  BY <1>1, <1>2, <1>3, <1>5, <1>6 DEF IsProper

LEMMA HandledIsProper ==
    ASSUME NEW p, NEW ans, IsProper(p), \A c \in DOMAIN ans : IsAnswerTo(c, ans[c]),
           \A t \in p.transactions : IsTransaction(t), 0 \in References
    PROVE  IsProper(Handled(p, ans))
<1> DEFINE h == Handled(p, ans)
<1>1. \A c \in DOMAIN ans : ans[c] \in Answers /\ ans[c].ref \in References
  BY DEF IsAnswerTo, Answers
<1>2. /\ DOMAIN h = DOMAIN FreshPayment
      /\ h.version = p.version + 1
      /\ h.key = PaymentKey(p, ans)
      /\ h.request = p.request
      /\ h.transactions = {Pending(t, ans) : t \in p.transactions}
                            \cup AddTransactionByResponse(p, ans)
      /\ h.response = [op \in Operations |->
                          IF \E c \in DOMAIN ans : c.op = op
                          THEN ans[CHOOSE c \in DOMAIN ans : c.op = op]
                          ELSE p.response[op]]
  BY DEF Handled, FreshPayment
<1> HIDE DEF h
<1>3. h.key \in References
  BY <1>1, <1>2 DEF PaymentKey, IsProper
<1>4. h.response \in [Operations -> Answers]
  <2>1. \A op \in Operations :
          (IF \E c \in DOMAIN ans : c.op = op
           THEN ans[CHOOSE c \in DOMAIN ans : c.op = op]
           ELSE p.response[op]) \in Answers
    BY <1>1 DEF IsProper
  <2> QED
    BY <1>2, <2>1
<1>5. ASSUME NEW t \in p.transactions PROVE IsProperTransaction(Pending(t, ans))
  <2> DEFINE answered == {c \in DOMAIN ans : c.tx = t.id /\ ans[c].ref # 0}
             s == Pending(t, ans)
  <2>1. IsProperTransaction(t) /\ IsTransaction(t)
    BY DEF IsProper
  <2>2. CASE answered = {}
    BY <2>1, <2>2 DEF Pending
  <2>3. CASE answered # {}
    <3>1. PICK c \in answered : s = [t EXCEPT !.state = "Pending", !.ref = ans[c].ref]
      BY <2>3 DEF Pending
    <3>2. ans[c].ref \in References \ {0}
      BY <1>1
    <3>3. /\ s.type = t.type /\ s.of = t.of /\ s.key = t.key /\ s.by = t.by
          /\ s.state = "Pending" /\ s.ref = ans[c].ref
      BY <2>1, <3>1 DEF IsTransaction
    <3> HIDE DEF s
    <3>4. IsProperTransaction(s)
      BY <2>1, <3>2, <3>3 DEF IsProperTransaction, HasOrigin, IsOfChange
    <3> QED
      BY <3>4 DEF s
  <2> QED
    BY <2>2, <2>3
<1>6. ASSUME NEW t \in AddTransactionByResponse(p, ans) PROVE IsProperTransaction(t)
  <2>1. PICK c \in DOMAIN ans :
          /\ ans[c].code \in {"Authorised", "Refused"}
          /\ t = [id |-> nextId, type |-> "Authorization", of |-> "amountPlanned",
                  state |-> AuthorizationState(ans[c].code),
                  ref |-> ans[c].ref, key |-> NoKey, by |-> "answer"]
    BY <1>6 DEF AddTransactionByResponse
  <2>2. /\ t.type = "Authorization" /\ t.ref = ans[c].ref /\ t.by = "answer"
        /\ t.state \in {"Success", "Failure"}
    BY <2>1 DEF AuthorizationState
  <2>3. t.ref \in References \ {0}
    BY <1>1, <2>1, <2>2 DEF IsAnswerTo
  <2> QED
    BY <2>2, <2>3 DEF IsProperTransaction, HasOrigin
<1>7. \A t \in h.transactions : IsProperTransaction(t)
  BY <1>2, <1>5, <1>6
<1>8. IsProper(h)
  BY <1>2, <1>3, <1>4, <1>7 DEF IsProper
<1> QED
  BY <1>8 DEF h

\* A proper payment's calls are proper.
LEMMA CallsAreProper ==
    ASSUME NEW p, IsProper(p), \A t \in p.transactions : t.id \in Nat,
           0 \in References, NEW c \in Calls(p)
    PROVE  IsProperCall(c)
<1>1. OriginalReference(p) \in References
  <2> DEFINE authorised == ListTransactions(p, "Authorization", "Success")
  <2>1. authorised # {} => First(authorised) \in authorised
    BY FirstIsMember DEF ListTransactions
  <2> QED
    BY <2>1 DEF OriginalReference, ListTransactions, IsProper, IsProperTransaction
<1>2. p.key \in References
  BY DEF IsProper
<1>3. CASE \E op \in Operations : c = OperationCall(p, op)
  <2> PICK op \in Operations : c = OperationCall(p, op)
    BY <1>3
  <2>1. /\ DOMAIN c = {"op", "tx", "of", "key", "original", "names"} /\ c.op = op
        /\ op \in {"carbonOffset", "disable"} => c.key = NoKey
        /\ c.original \in {0, OriginalReference(p)} /\ c.names = {0}
    BY DEF OperationCall
  <2>2. op \notin Modifications
    BY DEF Operations, Modifications
  <2> QED
    BY <1>1, <2>1, <2>2 DEF IsProperCall
<1>4. CASE \E t \in p.transactions :
             /\ t.type \in DOMAIN Modification
             /\ t.state = "Initial"
             /\ c = ModificationCall(p, t)
  <2> PICK t \in p.transactions :
             /\ t.type \in DOMAIN Modification
             /\ t.state = "Initial"
             /\ c = ModificationCall(p, t)
    BY <1>4
  <2>1. /\ DOMAIN c = {"op", "tx", "of", "key", "original", "names"}
        /\ c.op = Modification[t.type]
        /\ c.tx = t.id /\ c.of = t.of /\ c.key = GetIdempotencyKey(t)
        /\ c.original = OriginalReference(p) /\ c.names \subseteq {p.key}
    BY DEF ModificationCall
  <2>2. PICK ch \in TransactionChanges : IsOfChange(t, ch)
    BY DEF IsProper, IsProperTransaction, HasOrigin
  <2>3. GetIdempotencyKey(t) = GetIdempotencyKey([id |-> c.tx, key |-> ch.key])
    BY <2>1, <2>2 DEF GetIdempotencyKey, IsOfChange
  <2>4. IsCallOf(c, ch)
    BY <2>1, <2>2, <2>3 DEF IsCallOf, IsOfChange
  <2>5. c.op \in Modifications /\ c.op \notin {"carbonOffset", "disable"}
    BY <2>1 DEF Modification, Modifications
  <2> QED
    BY <1>1, <1>2, <2>1, <2>4, <2>5 DEF IsProperCall
<1> QED
  BY <1>3, <1>4, CallsOfPayment

\* What was proper stays proper: nothing that Adyen did is undone.
LEMMA ProperStays ==
    ASSUME IInv, [Next]_vars
    PROVE  /\ \A p : IsProper(p) => IsProper(p)'
           /\ \A c : IsProperCall(c) => IsProperCall(c)'
           /\ \A c, a : IsAnswerTo(c, a) => IsAnswerTo(c, a)'
<1>1. /\ References \subseteq References'
      /\ \A r \in References \ {0} : adyen'[r].call = adyen[r].call
  BY DeedsStay
<1>2. Answers \subseteq Answers'
  BY <1>1 DEF Answers
<1>3. \A t : IsProperTransaction(t) => IsProperTransaction(t)'
  BY <1>1 DEF IsProperTransaction, HasOrigin, TransactionChanges, IsOfChange
<1>4. ASSUME NEW p, IsProper(p) PROVE IsProper(p)'
  <2>1. p.response \in [Operations -> Answers']
    BY <1>2, <1>4 DEF IsProper
  <2> QED
    BY <1>1, <1>3, <1>4, <2>1 DEF IsProper, FreshPayment
<1>5. \A c : IsProperCall(c) => IsProperCall(c)'
  BY <1>1 DEF IsProperCall, TransactionChanges, IsCallOf, GetIdempotencyKey
<1>6. ASSUME NEW c, NEW a, IsAnswerTo(c, a) PROVE IsAnswerTo(c, a)'
  <2>1. a \in Answers' /\ a.ref \in References
    BY <1>2, <1>6 DEF IsAnswerTo, Answers
  <2> QED
    BY <1>1, <1>6, <2>1 DEF IsAnswerTo, IsDeedOf
<1> QED
  BY <1>4, <1>5, <1>6

LEMMA FreshIsProper ==
    ASSUME IInv
    PROVE  IsProper(FreshPayment)
<1>1. 0 \in References /\ "none" \in Codes
  BY DeedsInOrder DEF References, Codes
<1>2. NoAnswer \in Answers
  BY <1>1 DEF NoAnswer, Answer, Answers
<1> DEFINE p == FreshPayment
<1>3. /\ p.version = 1 /\ p.key = 0 /\ p.transactions = {}
      /\ p.request = [op \in Operations |-> NoRequest]
      /\ p.response = [op \in Operations |-> NoAnswer]
  BY DEF FreshPayment
<1>4. /\ p.request \in [Operations -> DOMAIN Readings \cup {NoRequest}]
      /\ p.response \in [Operations -> Answers]
  BY <1>2, <1>3
<1> HIDE DEF p
<1>5. DOMAIN p = DOMAIN FreshPayment
  BY DEF p
<1>6. IsProper(p)
  BY <1>1, <1>3, <1>4, <1>5 DEF IsProper
<1> QED
  BY <1>6 DEF p

\* The answers a step gives.
AnswersAreProper ==
    \A c : /\ IsAnswerTo(c, Waiting) /\ IsAnswerTo(c, Error)
           /\ \A r \in References \ {0} :
                IsDeedOf(r, c) => IsAnswerTo(c, AnswerOf(r, adyen[r].code))

LEMMA NewAnswersAreProper == IInv => AnswersAreProper
<1> SUFFICES ASSUME IInv PROVE AnswersAreProper
  OBVIOUS
<1>1. /\ 0 \in References /\ References \ {0} = DOMAIN adyen
      /\ \A r \in References \ {0} : r # 0
  BY DeedsInOrder DEF References
<1>2. \A r \in DOMAIN adyen : adyen[r].code \in Codes
  BY DeedsInOrder
<1>3. ASSUME NEW c PROVE IsAnswerTo(c, Waiting) /\ IsAnswerTo(c, Error)
  BY <1>1 DEF IsAnswerTo, Waiting, Error, Answer, Answers, Codes
<1>4. ASSUME NEW c, NEW r \in References \ {0}, IsDeedOf(r, c)
      PROVE  IsAnswerTo(c, AnswerOf(r, adyen[r].code))
  <2> DEFINE a == AnswerOf(r, adyen[r].code)
  <2>1. /\ a.code \in {adyen[r].code, "Refused"} /\ a.ref \in {0, r}
        /\ a.code \in {"Authorised", "Refused"} => a.ref = r
        /\ a = [code |-> a.code, ref |-> a.ref]
    BY DEF AnswerOf, Answer, ReferenceCodes
  <2>2. a \in Answers
    BY <1>1, <1>2, <2>1 DEF Answers, Codes, ReferenceCodes
  <2> HIDE DEF a
  <2>3. IsAnswerTo(c, a)
    BY <1>1, <1>4, <2>1, <2>2 DEF IsAnswerTo
  <2> QED
    BY <2>3 DEF a
<1> QED
  BY <1>3, <1>4 DEF AnswersAreProper

LEMMA PhasesAreKnown ==
    ASSUME IInv, [Next]_vars, NEW v \in Updates
    PROVE  updates'[v].phase \in {updates[v].phase, "open", "stored", "rejected"}
<1>1. Shapes
  BY DEF IInv
<1>2. CASE \E u \in Updates : \E ch, p : Open(u, ch, p)
  BY <1>1, <1>2 DEF Open, Shapes
<1>3. CASE \E u \in Updates : \E ch \in Changes : RefuseUpdate(u, ch)
  <2> PICK u \in Updates, ch \in Changes : RefuseUpdate(u, ch)
    BY <1>3
  <2> DEFINE refused == [NotSent EXCEPT !.phase = "rejected", !.change = ch]
  <2>1. updates' = [updates EXCEPT ![u] = refused]
    BY DEF RefuseUpdate
  <2>2. refused.phase = "rejected"
    BY DEF NotSent
  <2> HIDE DEF refused
  <2> QED
    BY <1>1, <2>1, <2>2 DEF Shapes
<1>4. CASE \E u \in Updates : \E c : Execute(u, c) \/ Replay(u, c) \/ FailCall(u, c)
  <2> PICK u \in Updates : \E c : Execute(u, c) \/ Replay(u, c) \/ FailCall(u, c)
    BY <1>4
  <2> PICK c : Execute(u, c) \/ Replay(u, c) \/ FailCall(u, c)
    OBVIOUS
  <2>1. PICK a : Receive(u, c, a)
    BY DEF Execute, Replay, FailCall
  <2>2. UNCHANGED <<payment, nextId>>
    BY DEF Execute, Replay, FailCall
  <2> QED
    BY <1>1, <2>1, <2>2, ReceiveKeepsCalls
<1>5. CASE \E u \in Updates : StoreUpdate(u) \/ RejectUpdate(u)
  BY <1>1, <1>5 DEF StoreUpdate, RejectUpdate, Shapes
<1>6. CASE updates' = updates
  BY <1>6
<1> QED
  BY <1>2, <1>3, <1>4, <1>5, <1>6 DEF Next, vars, SendUpdate, SendNotification, Notify,
     Recover

NumbersAreBelow ==
    /\ \A t \in AllTransactions : t.id \in 1 .. nextId - 1 /\ t.id \in Nat \ {0}
    /\ nextId \in Nat \ {0}

LEMMA NumbersInOrder == IInv => NumbersAreBelow
BY NumbersBelow DEF NumbersAreBelow

LEMMA StepIsProper ==
    ASSUME IInv, ProperInv, NEW p, ComesFromStep(p)
    PROVE  IsProper(p)
<1>1. payment \in Payments /\ \A v \in Updates : updates[v].payment \in Payments
  BY DEF Payments
<1>2. IsProper(payment)
  BY <1>1 DEF ProperInv
<1>3. CASE \E ch \in Changes : p = Changed(ch)
  BY <1>2, <1>3, ChangedIsProper
<1>4. CASE \E n \in DOMAIN adyen : \E q \in Notified(n) :
             p = q \/ p = [q EXCEPT !.version = @ + 1]
  BY <1>4, NotifiedIsProper
<1>5. CASE \E u \in Updates : p = Handled(updates[u].payment, updates[u].answers)
  <2> PICK u \in Updates : p = Handled(updates[u].payment, updates[u].answers)
    BY <1>5
  <2>1. IsProper(updates[u].payment)
    BY <1>1 DEF ProperInv
  <2>2. \A c \in DOMAIN updates[u].answers : IsAnswerTo(c, updates[u].answers[c])
    BY DEF ProperInv
  <2>3. \A t \in updates[u].payment.transactions : IsTransaction(t)
    BY DEF IInv, Shapes, AllTransactions
  <2>4. 0 \in References
    BY DeedsInOrder DEF References
  <2> QED
    BY <2>1, <2>2, <2>3, <2>4, HandledIsProper
<1> QED
  BY <1>3, <1>4, <1>5 DEF ComesFromStep

LEMMA NextProper ==
    ASSUME IInv, ProgressInv, ProperInv, [Next]_vars
    PROVE  ProperInv'
<1>1. IInv'
  BY NextInvariant
<1>2. \A p : IsProper(p) => IsProper(p)'
  BY ProperStays
<1>3. ASSUME NEW p \in Payments' PROVE IsProper(p)'
  <2>1. p \in Payments \cup {FreshPayment} \/ ComesFromStep(p)
    BY PaymentsComeFrom
  <2> QED
    BY <1>2, <2>1, FreshIsProper, StepIsProper DEF ProperInv
<1>4. ASSUME NEW v \in Updates, NEW d \in DOMAIN updates'[v].answers,
             NEW a, a = updates'[v].answers[d]
      PROVE  IsProperCall(d)' /\ IsAnswerTo(d, a)'
  <2>1. AnswersAreProper'
    BY <1>1, NewAnswersAreProper, PTL
  <2>2. CASE d \in DOMAIN updates[v].answers
    <3>1. IsProperCall(d)'
      BY <2>2, ProperStays DEF ProperInv
    <3>2. PICK b : b = updates[v].answers[d]
      OBVIOUS
    <3>3. IsAnswerTo(d, b)'
      BY <2>2, <3>2, ProperStays DEF ProperInv
    <3> QED
      BY <1>4, <2>1, <3>1, <3>2, <3>3, AnswersComeFrom DEF AnswersAreProper
  <2>3. CASE d \notin DOMAIN updates[v].answers
    <3>1. a = Waiting /\ d \in Calls(updates'[v].payment)
      BY <1>4, <2>3, AnswersComeFrom
    <3>2. PICK p \in Payments' : p = updates'[v].payment
      BY DEF Payments
    <3>3. IsProper(p) /\ 0 \in References
      <4>1. p \in Payments \cup {FreshPayment} \/ ComesFromStep(p)
        BY PaymentsComeFrom
      <4> QED
        BY <4>1, FreshIsProper, StepIsProper, DeedsInOrder DEF ProperInv, References
    <3>4. NumbersAreBelow'
      BY <1>1, NumbersInOrder, PTL
    <3>5. \A t \in p.transactions : t.id \in Nat
      BY <3>2, <3>4 DEF NumbersAreBelow, AllTransactions
    <3>6. IsProperCall(d)
      BY <3>1, <3>2, <3>3, <3>5, CallsAreProper
    <3> QED
      BY <2>1, <3>1, <3>6, ProperStays DEF AnswersAreProper
  <2> QED
    BY <2>2, <2>3
<1>5. \A v \in Updates : updates'[v].phase \in {"new", "open", "stored", "rejected"}
  BY PhasesAreKnown DEF ProperInv
<1> QED
  BY <1>3, <1>4, <1>5 DEF ProperInv
LEMMA InitProper == Init => ProperInv
<1> SUFFICES ASSUME Init PROVE ProperInv
  OBVIOUS
<1>1. \A u \in Updates : /\ updates[u].phase = "new"
                         /\ updates[u].payment = FreshPayment
                         /\ DOMAIN updates[u].answers = {}
  <2>1. /\ NotSent.payment = FreshPayment /\ NotSent.phase = "new"
        /\ NotSent.answers = <<>> /\ DOMAIN <<>> = {}
    BY DEF NotSent
  <2> QED
    BY <2>1 DEF Init
<1>2. IsProper(FreshPayment)
  BY InitInvariant, FreshIsProper
<1> QED
  BY <1>1, <1>2 DEF ProperInv, Payments, Init

LEMMA ProperInvariant == Spec => []ProperInv
<1>1. Init => IInv /\ ProgressInv /\ ProperInv
  BY InitInvariant, InitProgress, InitProper
<1>2. IInv /\ ProgressInv /\ ProperInv /\ [Next]_vars
        => (IInv /\ ProgressInv /\ ProperInv)'
  BY NextInvariant, NextProgress, NextProper
<1> QED
  BY <1>1, <1>2, PTL DEF Spec

\* Every call that waits has an answer to come or one that Adyen gave, and every
\* reference in the payment, in a copy or in an answer is of something Adyen did.
THEOREM TypeCorrect == Spec => []TypeOK
<1>1. ASSUME IInv, ProperInv PROVE TypeOK
  <2>1. \A p \in Payments : IsProper(p)
    BY <1>1 DEF ProperInv
  <2>2. ASSUME NEW p \in Payments PROVE PaymentType(p)
    <3>1. \A t \in p.transactions :
            IsTransaction(t) /\ t.id \in 1 .. nextId - 1
      BY <1>1, NumbersInOrder DEF Payments, AllTransactions, IInv, Shapes, NumbersAreBelow
    <3>2. \A t \in p.transactions : IsProperTransaction(t)
      BY <2>1 DEF IsProper
    <3> QED
      BY <2>1, <3>1, <3>2 DEF PaymentType, IsProper, IsProperTransaction, HasOrigin,
         IsTransaction
  <2>3. ASSUME NEW c \in SentCalls PROVE CallType(c)
    <3>1. IsProperCall(c) /\ CallIsKeyed(c)
      BY <1>1 DEF ProperInv, SentCalls, IInv, CallsAreKeyed
    <3>2. c.tx \in 0 .. nextId - 1
      <4>1. c.tx # 0 => Keyed(c.tx, c.key)
        BY DEF Keyed
      <4> QED
        BY <1>1, <4>1 DEF IInv, NumbersAreUsed, Shapes
    <3>3. c.op \in Operations <=> c.op \notin Modifications
      BY <3>1 DEF IsProperCall, Operations, Modifications
    <3> QED
      BY <3>1, <3>2, <3>3 DEF CallType, IsProperCall, CallIsKeyed
  <2>4. \A u \in Updates :
          /\ updates[u].phase \in {"new", "open", "stored", "rejected"}
          /\ PaymentType(updates[u].payment)
          /\ \A c \in DOMAIN updates[u].answers :
               CallType(c) /\ updates[u].answers[c] \in Answers
    BY <1>1, <2>2, <2>3 DEF Payments, SentCalls, ProperInv, IsAnswerTo
  <2>5. \A i \in DOMAIN adyen : CallType(adyen[i].call) /\ adyen[i].code \in Codes
    BY <1>1, <2>3, DeedsInOrder
  <2> QED
    BY <1>1, <2>2, <2>4, <2>5 DEF TypeOK, Payments, IInv, Shapes
<1>2. IInv /\ ProperInv => TypeOK
  BY <1>1
<1> QED
  BY <1>2, Invariant, ProperInvariant, PTL

\* Transactions of one kind for the same amount are one intention of the
\* merchant's, and have one key, if they have one.
IntentionsShareKeys ==
    \A ch, dh \in TransactionChanges :
        ch.of = dh.of /\ ch.with = dh.with => ch.key = dh.key

\* The merchant who gives the transaction a key may send it again, in a new update
\* or as a new transaction, as often as an update is rejected; a generated key does
\* not allow it, whatever ADR 0010 says (getIdempotencyKey).
THEOREM RetriesAreSafe == IntentionsShareKeys => (Spec => []KeyedRetryIsSafe)
<1>1. ASSUME IntentionsShareKeys PROVE IInv /\ ProperInv => KeyedRetryIsSafe
  <2> SUFFICES ASSUME IInv, ProperInv,
                      NEW i \in DOMAIN adyen, NEW j \in DOMAIN adyen,
                      adyen[i].call.op \in Modifications,
                      HasMerchantsKey(adyen[i].call),
                      adyen[i].call.op = adyen[j].call.op,
                      adyen[i].call.of = adyen[j].call.of
               PROVE  i = j
    BY DEF KeyedRetryIsSafe
  <2> DEFINE c == adyen[i].call
             d == adyen[j].call
  <2>1. IsProperCall(c) /\ IsProperCall(d)
    BY ExecutedCallsAreKeyed DEF ProperInv, SentCalls
  <2>2. PICK ch \in TransactionChanges : IsCallOf(c, ch)
    BY <2>1 DEF IsProperCall
  <2>3. PICK dh \in TransactionChanges : IsCallOf(d, dh)
    BY <2>1 DEF IsProperCall
  <2>4. ch.of \in DOMAIN Modification /\ dh.of \in DOMAIN Modification
    BY ChangesAssumption DEF TransactionChanges
  <2>5. Modification[ch.of] = Modification[dh.of] => ch.of = dh.of
    BY <2>4 DEF Modification
  <2>6. ch.key = dh.key /\ ch.key # NoKey
    <3>1. ch.key # NoKey
      BY <2>2 DEF HasMerchantsKey, IsCallOf, TransactionChanges
    <3> QED
      BY <1>1, <2>2, <2>3, <2>5, <3>1 DEF IntentionsShareKeys, IsCallOf
  <2>7. c.key = ch.key /\ d.key = dh.key
    BY <2>2, <2>3, <2>6 DEF IsCallOf, GetIdempotencyKey
  <2> QED
    BY <2>6, <2>7 DEF IInv, KeyExecutedOnce
<1>2. ASSUME IntentionsShareKeys PROVE Spec => []KeyedRetryIsSafe
  BY <1>1, <1>2, Invariant, ProperInvariant, PTL
<1> QED
  BY <1>2
----------------------------------------------------------------------------
(* References                                                              *)

LEMMA AllTransactionsAreOfPayments ==
    \A t : t \in AllTransactions <=> \E p \in Payments : t \in p.transactions
BY DEF AllTransactions, Payments

\* Handling keeps the types of transactions and adds authorizations.
LEMMA HandledTypes ==
    ASSUME NEW p, \A t \in p.transactions : IsTransaction(t), NEW ans,
           NEW t \in Handled(p, ans).transactions
    PROVE  \/ \E s \in p.transactions : t.id = s.id /\ t.type = s.type
           \/ t.id = nextId /\ t.type = "Authorization"
<1>1. Handled(p, ans).transactions =
        {Pending(s, ans) : s \in p.transactions} \cup AddTransactionByResponse(p, ans)
  BY DEF Handled
<1>2. \A s \in p.transactions :
        Pending(s, ans).id = s.id /\ Pending(s, ans).type = s.type
  BY DEF Pending, IsTransaction
<1>3. \A s \in AddTransactionByResponse(p, ans) : s.id = nextId /\ s.type = "Authorization"
  BY DEF AddTransactionByResponse
<1> QED
  BY <1>1, <1>2, <1>3

\* The transactions of a notified payment.
LEMMA NotifiedAre ==
    ASSUME IInv, NEW n \in DOMAIN adyen, NEW p \in Notified(n),
           NEW q, q.transactions = p.transactions
    PROVE  \E state \in EventStates(n) :
             /\ q.transactions = NotifiedTransactions(n, state)
             /\ \A t \in q.transactions :
                  \/ t \in payment.transactions
                  \/ t = NotifiedTransaction(n, state)
                  \/ \E s \in payment.transactions :
                       /\ t.id = s.id /\ t.type = s.type /\ t.ref = s.ref
                       /\ t.key = s.key /\ t.by = s.by
<1>3. PICK state \in EventStates(n) : q.transactions = NotifiedTransactions(n, state)
  BY NotifiedPayment DEF IInv
<1>4. \A s \in payment.transactions : IsTransaction(s)
  BY DEF IInv, Shapes, AllTransactions
<1>5. ASSUME NEW s \in payment.transactions, NEW t, t = [s EXCEPT !.state = state]
      PROVE  /\ t.id = s.id /\ t.type = s.type /\ t.ref = s.ref
             /\ t.key = s.key /\ t.by = s.by
  BY <1>4, <1>5 DEF IsTransaction
<1>6. \A t \in NotifiedTransactions(n, state) :
        \/ t \in payment.transactions
        \/ t = NotifiedTransaction(n, state)
        \/ \E s \in payment.transactions : t = [s EXCEPT !.state = state]
  BY NotifiedTransactionsAre
<1> QED
  BY <1>3, <1>5, <1>6

\* The transactions of the payment that a step makes have their numbers and types
\* from before, or the next number and one type.
LEMMA TransactionsComeFrom ==
    ASSUME IInv, NEW q, ComesFromStep(q)
    PROVE  \E op : \A t \in q.transactions :
             \/ \E s \in AllTransactions : t.id = s.id /\ t.type = s.type
             \/ t.id = nextId /\ OperationOf(t) = op
<1>1. Shapes /\ payment.transactions \subseteq AllTransactions
  BY DEF IInv, AllTransactions
<1>2. CASE \E ch \in Changes : q = Changed(ch)
  <2> PICK ch \in Changes : q = Changed(ch)
    BY <1>2
  <2>1. \A t \in q.transactions : t \in payment.transactions \/ t = NewTransaction(ch)
    BY <1>1, ChangedTransactions
  <2>2. NewTransaction(ch).id = nextId
    BY DEF NewTransaction
  <2> QED
    BY <1>1, <2>1, <2>2
<1>3. CASE \E n \in DOMAIN adyen : \E p \in Notified(n) :
             q = p \/ q = [p EXCEPT !.version = @ + 1]
  <2> PICK n \in DOMAIN adyen : \E p \in Notified(n) :
             q = p \/ q = [p EXCEPT !.version = @ + 1]
    BY <1>3
  <2> PICK p \in Notified(n) : q = p \/ q = [p EXCEPT !.version = @ + 1]
    OBVIOUS
  <2>0. q.transactions = p.transactions
    BY NotifiedPayment DEF IInv, Shapes, FreshPayment
  <2>1. PICK state \in EventStates(n) :
          \A t \in q.transactions :
             \/ \E s \in payment.transactions : t.id = s.id /\ t.type = s.type
             \/ t = NotifiedTransaction(n, state)
    BY <2>0, NotifiedAre
  <2>2. NotifiedTransaction(n, state).id = nextId
    BY DEF NotifiedTransaction
  <2> QED
    BY <1>1, <2>1, <2>2
<1>4. CASE \E u \in Updates : q = Handled(updates[u].payment, updates[u].answers)
  <2> PICK u \in Updates : q = Handled(updates[u].payment, updates[u].answers)
    BY <1>4
  <2>1. \A t \in updates[u].payment.transactions :
          t \in AllTransactions /\ IsTransaction(t)
    BY <1>1 DEF AllTransactions, Shapes
  <2>2. \A t \in q.transactions :
          \/ \E s \in updates[u].payment.transactions : t.id = s.id /\ t.type = s.type
          \/ t.id = nextId /\ t.type = "Authorization"
    BY <2>1, HandledTypes
  <2> QED
    BY <2>1, <2>2 DEF OperationOf, Modification
<1> QED
  BY <1>2, <1>3, <1>4 DEF ComesFromStep

LEMMA NextOperation ==
    ASSUME IInv, OneOperationPerNumber, [Next]_vars
    PROVE  OneOperationPerNumber'
<1>1. NumbersAreBelow /\ NumbersAreBelow'
  BY NumbersInOrder, NextInvariant, PTL
<1>2. PICK op : \A t \in AllTransactions' :
        \/ \E s \in AllTransactions : t.id = s.id /\ t.type = s.type
        \/ t.id = nextId /\ OperationOf(t) = op
  <2>1. \A t \in AllTransactions' : \E p \in Payments' : t \in p.transactions
    BY DEF AllTransactions, Payments
  <2>2. \A p \in Payments : p.transactions \subseteq AllTransactions
    BY AllTransactionsAreOfPayments
  <2>3. CASE Payments' \subseteq Payments \cup {FreshPayment}
    <3>1. FreshPayment.transactions = {}
      BY DEF FreshPayment
    <3> QED
      BY <2>1, <2>2, <2>3, <3>1
  <2>4. CASE \E q : ComesFromStep(q) /\ Payments' \subseteq Payments \cup {q}
    BY <2>1, <2>2, <2>4, TransactionsComeFrom
  <2> QED
    BY <2>3, <2>4, PaymentsComeFrom
<1>3. ASSUME NEW c \in SentCalls'
      PROVE  \/ c \in SentCalls
             \/ c.tx = 0
             \/ \E t \in AllTransactions' : c.tx = t.id /\ c.op = OperationOf(t)
  <2>1. PICK v \in Updates : c \in DOMAIN updates'[v].answers
    BY DEF SentCalls
  <2>2. CASE c \in DOMAIN updates[v].answers
    BY <2>2 DEF SentCalls
  <2>3. CASE c \in Calls(updates'[v].payment)
    <3>1. PICK p \in Payments' : p = updates'[v].payment
      BY DEF Payments
    <3>2. p.transactions \subseteq AllTransactions'
      BY <3>1 DEF AllTransactions
    <3>3. \A t \in p.transactions : t.id \in Nat
      BY <1>1, <3>2 DEF NumbersAreBelow
    <3>4. \/ \E o \in Operations : c = OperationCall(p, o)
          \/ \E t \in p.transactions :
               t.type \in DOMAIN Modification /\ c = ModificationCall(p, t)
      BY <2>3, <3>1, <3>3, CallsOfPayment
    <3> QED
      BY <3>2, <3>4 DEF OperationCall, ModificationCall, OperationOf
  <2> QED
    BY <2>1, <2>2, <2>3, AnswersComeFrom
<1>4. \A t \in AllTransactions : t.id # nextId /\ t.id # 0
  BY <1>1 DEF NumbersAreBelow
<1>5. \A c \in SentCalls : c.tx # nextId
  <2> TAKE c \in SentCalls
  <2>1. c.tx # 0 => Keyed(c.tx, c.key)
    BY DEF Keyed
  <2> QED
    BY <1>1, <2>1 DEF IInv, NumbersAreUsed, NumbersAreBelow
<1>6. \A s, t : s.type = t.type => OperationOf(s) = OperationOf(t)
  BY DEF OperationOf
<1>7. \A t \in AllTransactions' : t.id # 0
  BY <1>1 DEF NumbersAreBelow
<1>8. \A s, t \in AllTransactions' : s.id = t.id => OperationOf(s) = OperationOf(t)
  BY <1>2, <1>4, <1>6 DEF OneOperationPerNumber
<1>9. \A t \in AllTransactions', c \in SentCalls : c.tx = t.id => c.op = OperationOf(t)
  BY <1>2, <1>5, <1>6 DEF OneOperationPerNumber
<1>10. \A t \in AllTransactions', c \in SentCalls' : c.tx = t.id => c.op = OperationOf(t)
  BY <1>3, <1>7, <1>8, <1>9
<1> QED
  BY <1>8, <1>10 DEF OneOperationPerNumber, OperationOf

\* An operation's key is none of a modification.
LEMMA KeysOfOperations ==
    ASSUME KeysAreSeparate, IInv, ProperInv, NEW c \in SentCalls, NEW d \in SentCalls,
           c.op \in KeyedOperations, d.op \in Modifications, d.key # NoKey
    PROVE  c.key # d.key
<1>1. c.key = GenerateOperationKey(c.op)
  BY DEF IInv, CallsAreKeyed, CallIsKeyed
<1>2. PICK ch \in TransactionChanges : IsCallOf(d, ch)
  BY DEF ProperInv, SentCalls, IsProperCall
<1>3. CASE ch.key # NoKey
  BY <1>1, <1>2, <1>3 DEF KeysAreSeparate, IsCallOf, GetIdempotencyKey
<1>4. CASE ch.key = NoKey
  <2>1. d.key = <<"transaction", d.tx>>
    BY <1>2, <1>4 DEF IsCallOf, GetIdempotencyKey
  <2>2. d.tx \in Nat
    <3>1. d.tx # 0 => Keyed(d.tx, d.key)
      BY DEF Keyed
    <3> QED
      BY <3>1, NumbersInOrder DEF IInv, NumbersAreUsed, NumbersAreBelow
  <2>3. MerchantKey # d.key
    BY <2>1, <2>2 DEF KeysAreSeparate
  <2>4. <<"operation", c.op>> # d.key
    <3>1. <<"operation", c.op>>[1] = "operation" /\ <<"transaction", d.tx>>[1] = "transaction"
      OBVIOUS
    <3> QED
      BY <2>1, <3>1
  <2> QED
    BY <1>1, <2>3, <2>4 DEF GenerateOperationKey
<1> QED
  BY <1>3, <1>4

\* What Adyen answers to a call for a transaction, it did for the transaction, or
\* for one to which the merchant gave the same key.
LEMMA AnswerIsOfTransaction ==
    ASSUME KeysAreSeparate, IInv, ProperInv, OneOperationPerNumber,
           NEW t \in AllTransactions, NEW ch \in TransactionChanges, IsOfChange(t, ch),
           NEW c \in SentCalls, c.tx = t.id,
           NEW d \in SentCalls, d = c \/ (c.key # NoKey /\ d.key = c.key)
    PROVE  /\ t.type \in DOMAIN Modification
           /\ d.op = Modification[t.type]
           /\ d.tx = t.id \/ (t.key # NoKey /\ d.key = t.key)
<1>1. t.id \in Nat \ {0}
  BY NumbersInOrder DEF NumbersAreBelow
<1>2. c.op = OperationOf(t) /\ (d.tx = t.id => d.op = OperationOf(t))
  BY DEF OneOperationPerNumber
<1>3. /\ IsProperCall(c) /\ CallIsKeyed(c)
      /\ IsProperCall(d) /\ CallIsKeyed(d)
  BY DEF ProperInv, SentCalls, IInv, CallsAreKeyed
<1>4. t.type \in DOMAIN Modification /\ OperationOf(t) = Modification[t.type]
  <2>1. c.op \in Modifications
    BY <1>1, <1>3 DEF CallIsKeyed
  <2> QED
    BY <1>2, <2>1 DEF OperationOf, Modifications
<1>5. CASE d.tx = t.id
  BY <1>2, <1>4, <1>5
<1>6. CASE d.tx # t.id
  <2>1. c.key # NoKey /\ d.key = c.key
    BY <1>6
  <2>2. c.key = GetIdempotencyKey(t)
    <3>1. Keyed(t.id, c.key) /\ Keyed(t.id, GetIdempotencyKey(t))
      BY <1>1 DEF Keyed
    <3> QED
      BY <3>1 DEF IInv, OneKeyPerNumber
  <2>3. d.tx \in Nat
    <3>1. d.tx # 0 => Keyed(d.tx, d.key)
      BY DEF Keyed
    <3> QED
      BY <3>1, NumbersInOrder DEF IInv, NumbersAreUsed, NumbersAreBelow
  <2>4. d.op \in Modifications
    <3>1. c.op \in Modifications
      BY <1>1, <1>3 DEF CallIsKeyed
    <3> QED
      BY <1>3, <2>1, <3>1, KeysOfOperations DEF IsProperCall, KeyedOperations
  <2>5. PICK dh \in TransactionChanges : IsCallOf(d, dh)
    BY <1>3, <2>4 DEF IsProperCall
  <2>6. dh.key # NoKey /\ t.key # NoKey
    <3>1. dh.key # NoKey => dh.key = c.key
      BY <2>1, <2>5 DEF IsCallOf, GetIdempotencyKey
    <3>2. dh.key = NoKey => c.key = <<"transaction", d.tx>>
      BY <2>1, <2>5 DEF IsCallOf, GetIdempotencyKey
    <3>3. t.key # NoKey => ch.key = c.key
      BY <2>2 DEF IsOfChange, GetIdempotencyKey
    <3>4. t.key = NoKey => c.key = <<"transaction", t.id>>
      BY <2>1, <2>2 DEF GetIdempotencyKey
    <3>5. t.key # NoKey => c.key # <<"transaction", d.tx>>
      BY <2>1, <2>3, <3>3 DEF KeysAreSeparate
    <3>6. dh.key # NoKey => c.key # <<"transaction", t.id>>
      BY <1>1, <3>1 DEF KeysAreSeparate
    <3>7. <<"transaction", d.tx>> = <<"transaction", t.id>> => d.tx = t.id
      OBVIOUS
    <3> QED
      BY <1>6, <3>2, <3>4, <3>5, <3>6, <3>7
  <2>7. ch.key = c.key /\ dh.key = c.key
    BY <2>1, <2>2, <2>5, <2>6 DEF IsOfChange, IsCallOf, GetIdempotencyKey
  <2>8. dh.of = ch.of
    BY <2>1, <2>7 DEF KeysAreSeparate
  <2> QED
    BY <1>4, <2>1, <2>5, <2>6, <2>7, <2>8 DEF IsOfChange, IsCallOf
<1> QED
  BY <1>5, <1>6
\* An answer gives a transaction of a copy the reference of what was done for it.
LEMMA PendingHasReference ==
    ASSUME KeysAreSeparate, IInv, ProgressInv, ProperInv, OneOperationPerNumber,
           ReferenceInv, NEW u \in Updates, updates[u].phase = "open",
           NEW t \in updates[u].payment.transactions
    PROVE  HasProperReference(Pending(t, updates[u].answers))
<1> DEFINE p == updates[u].payment
           ans == updates[u].answers
           answered == {c \in DOMAIN ans : c.tx = t.id /\ ans[c].ref # 0}
           s == Pending(t, ans)
<1>1. t \in AllTransactions /\ IsTransaction(t)
  BY DEF AllTransactions, IInv, Shapes
<1>2. CASE answered = {}
  BY <1>1, <1>2 DEF Pending, ReferenceInv
<1>3. CASE answered # {}
  <2>1. PICK c \in answered : s = [t EXCEPT !.state = "Pending", !.ref = ans[c].ref]
    BY <1>3 DEF Pending
  <2>2. /\ s.type = t.type /\ s.id = t.id /\ s.key = t.key /\ s.by = t.by
        /\ s.ref = ans[c].ref
    BY <1>1, <2>1 DEF IsTransaction
  <2>3. /\ c \in SentCalls /\ c \in DOMAIN ans
        /\ c.tx = t.id /\ ans[c].ref # 0 /\ IsAnswerTo(c, ans[c])
    BY DEF SentCalls, ProperInv
  <2> DEFINE d == adyen[ans[c].ref].call
  <2>4. d \in SentCalls
    BY <2>3, DeedsInOrder DEF IsAnswerTo, Answers, References
  <2>5. d = c \/ (c.key # NoKey /\ d.key = c.key)
    BY <2>3 DEF IsAnswerTo, IsDeedOf
  <2>6. t.state = "Initial"
    <3>1. /\ DOMAIN ans = Calls(p) /\ IsDistinct(p.transactions)
          /\ \A r \in p.transactions : r.id \in Nat /\ r.id # 0
      BY NumbersBelow DEF ProgressInv, CopiesAreEarlier, CopyIsEarlier,
         TransactionsAreDistinct, AllTransactions
    <3>2. PICK r \in p.transactions : r.state = "Initial" /\ c.tx = r.id
      BY <2>3, <3>1, ModificationOfInitial
    <3> QED
      BY <2>3, <3>1, <3>2 DEF IsDistinct
  <2>7. PICK ch \in TransactionChanges : IsOfChange(t, ch)
    BY <1>1, <2>6, AllTransactionsAreOfPayments DEF ProperInv, IsProper,
       IsProperTransaction, HasOrigin
  <2> HIDE DEF s, ans, p
  <2>8. /\ t.type \in DOMAIN Modification
        /\ d.op = Modification[t.type]
        /\ d.tx = t.id \/ (t.key # NoKey /\ d.key = t.key)
    <3> HIDE DEF d
    <3> QED
      BY <1>1, <2>3, <2>4, <2>5, <2>7, AnswerIsOfTransaction
  <2>9. t.type = EventType(d.op)
    <3> HIDE DEF d
    <3>1. d.op \in Modifications
      BY <2>8 DEF Modification, Modifications
    <3>2. EventType(d.op) \in DOMAIN Modification /\ Modification[EventType(d.op)] = d.op
      BY <3>1, EventTypes
    <3> QED
      BY <2>8, <3>2 DEF Modification
  <2>10. HasProperReference(s)
    BY <2>2, <2>8, <2>9 DEF HasProperReference
  <2> QED
    BY <2>10 DEF s, ans
<1> QED
  BY <1>2, <1>3

\* An answer adds an authorization, of a payment that Adyen made.
LEMMA AddedHasReference ==
    ASSUME KeysAreSeparate, IInv, ProperInv, NEW u \in Updates,
           NEW t \in AddTransactionByResponse(updates[u].payment, updates[u].answers)
    PROVE  HasProperReference(t)
<1> DEFINE ans == updates[u].answers
<1>1. PICK c \in DOMAIN ans :
        /\ c.op \in {"makePayment", "submitDetails"}
        /\ t.type = "Authorization" /\ t.by = "answer" /\ t.ref = ans[c].ref
  BY DEF AddTransactionByResponse
<1>2. SUFFICES ASSUME t.ref # 0 PROVE HasProperReference(t)
  BY DEF HasProperReference
<1>3. c \in SentCalls /\ IsAnswerTo(c, ans[c])
  BY DEF SentCalls, ProperInv
<1> HIDE DEF ans
<1> DEFINE d == adyen[t.ref].call
<1>4. d \in SentCalls /\ (d = c \/ (c.key # NoKey /\ d.key = c.key))
  BY <1>1, <1>2, <1>3, DeedsInOrder DEF IsAnswerTo, IsDeedOf, Answers, References
<1> HIDE DEF d
<1>5. c.op \in KeyedOperations /\ c.op \notin Modifications
  BY <1>1 DEF KeyedOperations, Operations, Modifications
<1>6. d.op \notin Modifications
  BY <1>3, <1>4, <1>5, KeysOfOperations
<1>7. EventType(d.op) = "Authorization"
  BY <1>6, EventTypes
<1> QED
  BY <1>1, <1>7 DEF HasProperReference, d

LEMMA StepHasReferences ==
    ASSUME KeysAreSeparate, IInv, ProgressInv, ProperInv, OneOperationPerNumber,
           ReferenceInv, NEW q, ComesFromStep(q), NEW t \in q.transactions
    PROVE  HasProperReference(t)
<1>1. Shapes /\ \A s \in payment.transactions : HasProperReference(s)
  BY DEF IInv, ReferenceInv, AllTransactions
<1>2. CASE \E ch \in Changes : q = Changed(ch)
  <2> PICK ch \in Changes : q = Changed(ch)
    BY <1>2
  <2>1. t \in payment.transactions \/ t = NewTransaction(ch)
    BY <1>1, ChangedTransactions
  <2>2. NewTransaction(ch).ref = 0
    BY DEF NewTransaction
  <2> QED
    BY <1>1, <2>1, <2>2 DEF HasProperReference
<1>3. CASE \E n \in DOMAIN adyen : \E p \in Notified(n) :
             q = p \/ q = [p EXCEPT !.version = @ + 1]
  <2> PICK n \in DOMAIN adyen : \E p \in Notified(n) :
             q = p \/ q = [p EXCEPT !.version = @ + 1]
    BY <1>3
  <2> PICK p \in Notified(n) : q = p \/ q = [p EXCEPT !.version = @ + 1]
    OBVIOUS
  <2>0. q.transactions = p.transactions
    BY NotifiedPayment DEF IInv, Shapes, FreshPayment
  <2>1. PICK state \in EventStates(n) :
          \/ t \in payment.transactions
          \/ t = NotifiedTransaction(n, state)
          \/ \E s \in payment.transactions :
               /\ t.id = s.id /\ t.type = s.type /\ t.ref = s.ref
               /\ t.key = s.key /\ t.by = s.by
    BY <2>0, NotifiedAre
  <2>2. HasProperReference(NotifiedTransaction(n, state))
    BY DEF NotifiedTransaction, HasProperReference
  <2>3. ASSUME NEW s \in payment.transactions, t.id = s.id, t.type = s.type,
               t.ref = s.ref, t.key = s.key, t.by = s.by
        PROVE  HasProperReference(t)
    BY <1>1, <2>3 DEF HasProperReference
  <2> QED
    BY <1>1, <2>1, <2>2, <2>3
<1>4. CASE \E u \in Updates : /\ updates[u].phase = "open"
                             /\ q = Handled(updates[u].payment, updates[u].answers)
  <2> PICK u \in Updates : /\ updates[u].phase = "open"
                           /\ q = Handled(updates[u].payment, updates[u].answers)
    BY <1>4
  <2>1. \/ \E s \in updates[u].payment.transactions : t = Pending(s, updates[u].answers)
        \/ t \in AddTransactionByResponse(updates[u].payment, updates[u].answers)
    BY DEF Handled
  <2> QED
    BY <2>1, PendingHasReference, AddedHasReference
<1> QED
  BY <1>2, <1>3, <1>4 DEF ComesFromStep

LEMMA NextReference ==
    ASSUME KeysAreSeparate, IInv, ProgressInv, ProperInv, OneOperationPerNumber,
           ReferenceInv, [Next]_vars
    PROVE  ReferenceInv'
<1>1. \A r \in References \ {0} : adyen'[r].call = adyen[r].call
  BY DeedsStay
<1>2. ASSUME NEW t \in AllTransactions' PROVE HasProperReference(t)'
  <2>1. PICK p \in Payments' : t \in p.transactions
    BY DEF AllTransactions, Payments
  <2>2. CASE p \in Payments
    <3>1. HasProperReference(t) /\ IsProperTransaction(t)
      BY <2>1, <2>2, AllTransactionsAreOfPayments DEF ReferenceInv, ProperInv, IsProper
    <3> QED
      BY <1>1, <3>1 DEF HasProperReference, IsProperTransaction
  <2>3. CASE p = FreshPayment
    BY <2>1, <2>3 DEF FreshPayment
  <2>4. CASE ComesFromStep(p)
    <3>1. HasProperReference(t)
      BY <2>1, <2>4, StepHasReferences
    <3>2. t.ref \in References
      BY <2>1, <2>4, StepIsProper DEF IsProper, IsProperTransaction
    <3> QED
      BY <1>1, <3>1, <3>2 DEF HasProperReference
  <2> QED
    BY <2>2, <2>3, <2>4, PaymentsComeFrom
<1> QED
  BY <1>2 DEF ReferenceInv
LEMMA InitReference == Init => OneOperationPerNumber /\ ReferenceInv /\ DetailsInv
<1> SUFFICES ASSUME Init PROVE OneOperationPerNumber /\ ReferenceInv /\ DetailsInv
  OBVIOUS
<1>1. \A u \in Updates : updates[u].payment = FreshPayment
  BY DEF Init, NotSent
<1>2. FreshPayment.transactions = {}
  BY DEF FreshPayment
<1>3. \A p \in Payments : p.transactions = {}
  BY <1>1, <1>2 DEF Init, Payments
<1>4. AllTransactions = {}
  BY <1>3, AllTransactionsAreOfPayments
<1> QED
  BY <1>3, <1>4 DEF OneOperationPerNumber, ReferenceInv, DetailsInv, OneOfDetails

\* The reference that a transaction is stored with is that of something of its kind
\* that Adyen did, and what Adyen did for the merchant's charge, refund or cancellation,
\* whichever answers and notifications come in which order, late or again: provided
\* the merchant uses no key for two kinds of transactions.
THEOREM ReferencesAreOfTransactions ==
    KeysAreSeparate => (Spec => []ReferenceIsOfTransaction)
<1>1. Init => IInv /\ ProgressInv /\ ProperInv /\ OneOperationPerNumber /\ ReferenceInv
  BY InitInvariant, InitProgress, InitProper, InitReference
<1>2. ASSUME KeysAreSeparate
      PROVE  IInv /\ ProgressInv /\ ProperInv /\ OneOperationPerNumber /\ ReferenceInv
             /\ [Next]_vars
               => (IInv /\ ProgressInv /\ ProperInv /\ OneOperationPerNumber /\ ReferenceInv)'
  BY <1>2, NextInvariant, NextProgress, NextProper, NextOperation, NextReference
<1>3. ReferenceInv => ReferenceIsOfTransaction
  BY DEF ReferenceInv, ReferenceIsOfTransaction, HasProperReference, AllTransactions
<1>4. ASSUME KeysAreSeparate PROVE Spec => []ReferenceIsOfTransaction
  BY <1>1, <1>2, <1>3, <1>4, PTL DEF Spec
<1> QED
  BY <1>4

----------------------------------------------------------------------------
(* Transactions of details                                                 *)

\* The keys of operations differ: the merchant has not given one for all of them.
OperationsHaveOwnKeys == MerchantKey = NoKey

\* Only a call of details is answered with what Adyen did for details.
LEMMA DetailsAnswerDetails ==
    ASSUME KeysAreSeparate, OperationsHaveOwnKeys, IInv, ProperInv,
           NEW c \in SentCalls, NEW d \in SentCalls, d.op = "submitDetails",
           d = c \/ (c.key # NoKey /\ d.key = c.key)
    PROVE  c.op = "submitDetails"
<1>1. SUFFICES ASSUME c.key # NoKey, d.key = c.key PROVE c.op = "submitDetails"
  OBVIOUS
<1>2. /\ IsProperCall(c) /\ CallIsKeyed(c)
      /\ IsProperCall(d) /\ CallIsKeyed(d)
  BY DEF ProperInv, SentCalls, IInv, CallsAreKeyed
<1>3. "submitDetails" \in KeyedOperations
  BY DEF KeyedOperations, Operations
<1>4. c.key = <<"operation", "submitDetails">>
  BY <1>1, <1>2, <1>3 DEF CallIsKeyed, GenerateOperationKey, OperationsHaveOwnKeys
<1>5. CASE c.op \in KeyedOperations
  <2>1. <<"operation", c.op>> = <<"operation", "submitDetails">>
    BY <1>2, <1>4, <1>5 DEF CallIsKeyed, GenerateOperationKey, OperationsHaveOwnKeys
  <2> QED
    BY <2>1
<1>6. CASE c.op \in Modifications
  <2>1. PICK ch \in TransactionChanges : IsCallOf(c, ch)
    BY <1>2, <1>6 DEF IsProperCall
  <2>2. CASE ch.key # NoKey
    BY <1>1, <1>2, <1>3, <2>1, <2>2
       DEF KeysAreSeparate, CallIsKeyed, IsCallOf, GetIdempotencyKey
  <2>3. CASE ch.key = NoKey
    <3>1. <<"transaction", c.tx>> = <<"operation", "submitDetails">>
      BY <1>1, <1>4, <2>1, <2>3 DEF IsCallOf, GetIdempotencyKey
    <3> QED
      BY <3>1
  <2> QED
    BY <2>2, <2>3
<1> QED
  BY <1>1, <1>2, <1>5, <1>6 DEF IsProperCall, KeyedOperations

\* The answers to an update add a transaction for details once, and no reference of
\* details to a transaction of another kind.
LEMMA HandledDetails ==
    ASSUME KeysAreSeparate, OperationsHaveOwnKeys, IInv, ProgressInv, ProperInv,
           DetailsInv, NEW u \in Updates, updates[u].phase = "open"
    PROVE  OneOfDetails(Handled(updates[u].payment, updates[u].answers).transactions)
<1> DEFINE p == updates[u].payment
           ans == updates[u].answers
           added == AddTransactionByResponse(p, ans)
<1>1. /\ DOMAIN ans = Calls(p)
      /\ OneOfDetails(p.transactions)
      /\ \A t \in p.transactions :
           /\ t \in AllTransactions /\ t.id \in Nat \ {0}
           /\ IsTransaction(t)
  BY NumbersBelow DEF ProgressInv, CopiesAreEarlier, CopyIsEarlier, DetailsInv, Payments,
     AllTransactions
<1>2. ASSUME NEW c \in DOMAIN ans, ans[c].ref # 0,
             adyen[ans[c].ref].call.op = "submitDetails"
      PROVE  c.op = "submitDetails" /\ c.tx = 0
  <2>1. c \in SentCalls /\ IsAnswerTo(c, ans[c])
    BY DEF SentCalls, ProperInv
  <2>2. adyen[ans[c].ref].call \in SentCalls
    BY <1>2, <2>1, DeedsInOrder DEF IsAnswerTo, Answers, References
  <2>3. c.op = "submitDetails"
    BY <1>2, <2>1, <2>2, DetailsAnswerDetails DEF IsAnswerTo, IsDeedOf
  <2> QED
    BY <2>1, <2>3 DEF IInv, CallsAreKeyed, CallIsKeyed, Modifications
<1>3. ASSUME NEW t \in p.transactions, Pending(t, ans).ref # 0,
             adyen[Pending(t, ans).ref].call.op = "submitDetails"
      PROVE  Pending(t, ans) = t
  <2> DEFINE answered == {c \in DOMAIN ans : c.tx = t.id /\ ans[c].ref # 0}
  <2>1. CASE answered = {}
    BY <2>1 DEF Pending
  <2>2. CASE answered # {}
    <3>1. PICK c \in answered : Pending(t, ans) = [t EXCEPT !.state = "Pending", !.ref = ans[c].ref]
      BY <2>2 DEF Pending
    <3>2. Pending(t, ans).ref = ans[c].ref
      BY <1>1, <3>1 DEF IsTransaction
    <3>3. c.tx = 0
      BY <1>2, <1>3, <3>2
    <3> QED
      BY <1>1, <3>3
  <2> QED
    BY <2>1, <2>2
<1>4. ASSUME NEW t \in added, t.ref # 0, adyen[t.ref].call.op = "submitDetails"
      PROVE  \A s \in p.transactions : s.ref # t.ref
  <2>1. PICK c \in DOMAIN ans :
          /\ t.ref = ans[c].ref
          /\ c.op = "submitDetails" => ~HasTransactionWithPspReference(p, ans[c].ref)
    BY DEF AddTransactionByResponse
  <2> QED
    BY <1>2, <1>4, <2>1 DEF HasTransactionWithPspReference
<1>5. \A s, t \in added : s = t
  <2>1. \A c, d \in DOMAIN ans :
          {c.op, d.op} \subseteq {"makePayment", "submitDetails"} => c = d
    BY <1>1, PaidOrDetailed
  <2> QED
    BY <2>1 DEF AddTransactionByResponse
<1> DEFINE ts == {Pending(t, ans) : t \in p.transactions} \cup added
<1>6. Handled(p, ans).transactions = ts
  BY DEF Handled
<1>7. ASSUME NEW s \in ts, NEW t \in ts, s.ref = t.ref, s.ref # 0,
             adyen[s.ref].call.op = "submitDetails"
      PROVE  s = t
  <2>1. s \in p.transactions \/ s \in added
    BY <1>3, <1>7
  <2>2. t \in p.transactions \/ t \in added
    BY <1>3, <1>7
  <2> HIDE DEF p, ans, added, ts
  <2> QED
    BY <1>1, <1>4, <1>5, <1>7, <2>1, <2>2 DEF OneOfDetails
<1>8. OneOfDetails(ts)
  <2> HIDE DEF ts
  <2> QED
    BY <1>7 DEF OneOfDetails
<1> QED
  BY <1>6, <1>8

LEMMA StepDetails ==
    ASSUME KeysAreSeparate, OperationsHaveOwnKeys, IInv, ProgressInv, ProperInv,
           DetailsInv, NEW q, ComesFromStep(q)
    PROVE  OneOfDetails(q.transactions)
<1>1. /\ Shapes /\ OneOfDetails(payment.transactions)
      /\ \A s \in payment.transactions : IsTransaction(s)
  BY DEF IInv, Shapes, DetailsInv, Payments, AllTransactions
<1>2. CASE \E ch \in Changes : q = Changed(ch)
  <2> PICK ch \in Changes : q = Changed(ch)
    BY <1>2
  <2>1. \A t \in q.transactions : t \in payment.transactions \/ t = NewTransaction(ch)
    BY <1>1, ChangedTransactions
  <2>2. NewTransaction(ch).ref = 0
    BY DEF NewTransaction
  <2> QED
    BY <1>1, <2>1, <2>2 DEF OneOfDetails
<1>3. CASE \E n \in DOMAIN adyen : \E p \in Notified(n) :
             q = p \/ q = [p EXCEPT !.version = @ + 1]
  <2> PICK n \in DOMAIN adyen : \E p \in Notified(n) :
             q = p \/ q = [p EXCEPT !.version = @ + 1]
    BY <1>3
  <2> PICK p \in Notified(n) : q = p \/ q = [p EXCEPT !.version = @ + 1]
    OBVIOUS
  <2>0. q.transactions = p.transactions
    BY NotifiedPayment DEF IInv, Shapes, FreshPayment
  <2>1. PICK state \in EventStates(n) : q.transactions = NotifiedTransactions(n, state)
    BY <2>0, NotifiedAre
  <2> DEFINE new == NotifiedTransaction(n, state)
             Of(s) == [s EXCEPT !.state = state]
             stored == {s \in payment.transactions : s.ref = n}
             superseded == {s \in stored : s = First(stored) /\ Supersedes(state, s)}
  <2>2. CASE stored = {}
    <3>1. q.transactions = payment.transactions \cup {new}
      BY <2>1, <2>2 DEF NotifiedTransactions, NotifiedTransaction
    <3>2. new.ref = n /\ \A s \in payment.transactions : s.ref # n
      BY <2>2 DEF NotifiedTransaction
    <3> HIDE DEF new
    <3> QED
      BY <1>1, <3>1, <3>2 DEF OneOfDetails
  <2>3. CASE stored # {}
    <3>1. q.transactions = (payment.transactions \ superseded) \cup {Of(s) : s \in superseded}
      BY <2>1, <2>3 DEF NotifiedTransactions
    <3>2. superseded \subseteq payment.transactions
      OBVIOUS
    <3>3. \A s \in superseded : Of(s).ref = s.ref
      BY <1>1 DEF IsTransaction
    <3> HIDE DEF Of, superseded, stored
    <3>4. \A s \in q.transactions :
            \/ s \in payment.transactions \ superseded
            \/ \E t \in superseded : s = Of(t) /\ s.ref = t.ref
      BY <3>1, <3>3
    <3> QED
      BY <1>1, <3>2, <3>4 DEF OneOfDetails
  <2> QED
    BY <2>2, <2>3
<1> QED
  BY <1>2, <1>3, HandledDetails DEF ComesFromStep

LEMMA NextDetails ==
    ASSUME KeysAreSeparate, OperationsHaveOwnKeys, IInv, ProgressInv, ProperInv,
           DetailsInv, [Next]_vars
    PROVE  DetailsInv'
<1>1. \A r \in References \ {0} : adyen'[r].call = adyen[r].call
  BY DeedsStay
<1>2. ASSUME NEW p \in Payments' PROVE OneOfDetails(p.transactions)'
  <2>1. p \in Payments \cup {FreshPayment} \/ ComesFromStep(p)
    BY PaymentsComeFrom
  <2>2. OneOfDetails(FreshPayment.transactions)
    BY DEF FreshPayment, OneOfDetails
  <2>3. OneOfDetails(p.transactions)
    BY <2>1, <2>2, StepDetails DEF DetailsInv
  <2>4. \A t \in p.transactions : t.ref \in References
    BY <2>1, StepIsProper, FreshIsProper DEF ProperInv, IsProper, IsProperTransaction
  <2> QED
    BY <1>1, <2>3, <2>4 DEF OneOfDetails
<1> QED
  BY <1>2 DEF DetailsInv

\* Details that are answered, repeated and notified of in any order yield one
\* transaction, unless the merchant has chosen the key under which Adyen knows them
\* for other calls, too.
THEOREM DetailsYieldOneTransaction ==
    KeysAreSeparate /\ OperationsHaveOwnKeys => (Spec => []OneTransactionPerDetails)
<1>1. Init => IInv /\ ProgressInv /\ ProperInv /\ DetailsInv
  BY InitInvariant, InitProgress, InitProper, InitReference
<1>2. ASSUME KeysAreSeparate, OperationsHaveOwnKeys
      PROVE  IInv /\ ProgressInv /\ ProperInv /\ DetailsInv /\ [Next]_vars
               => (IInv /\ ProgressInv /\ ProperInv /\ DetailsInv)'
  BY <1>2, NextInvariant, NextProgress, NextProper, NextDetails
<1>3. DetailsInv => OneTransactionPerDetails
  BY DEF DetailsInv, OneOfDetails, Payments, OneTransactionPerDetails
<1>4. ASSUME KeysAreSeparate, OperationsHaveOwnKeys
      PROVE  Spec => []OneTransactionPerDetails
  BY <1>1, <1>2, <1>3, <1>4, PTL DEF Spec
<1> QED
  BY <1>4
=============================================================================
