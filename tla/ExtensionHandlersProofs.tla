----------------------- MODULE ExtensionHandlersProofs -----------------------
(***************************************************************************)
(* Adyen modifies a payment once for each transaction; the transactions of *)
(* a payment only move on; for any updates and any changes.                *)
(***************************************************************************)
EXTENDS ExtensionHandlers, SequenceTheorems, WellFoundedInduction, TLAPS

\* Every transaction the merchant adds has a key.
KeysAreGiven ==
    \/ GenerateIdempotencyKey
    \/ \A ch \in Changes : ch.kind = "transaction" => ch.key # NoKey

\* The stored transactions and those of updates; the calls of all updates.
AllTransactions ==
    payment.transactions \cup UNION {updates[u].payment.transactions : u \in Updates}
SentCalls == UNION {DOMAIN updates[u].answers : u \in Updates}

IsTransaction(t) ==
    /\ DOMAIN t = {"id", "type", "of", "state", "ref", "key", "by"}
    /\ t.state \in States
Shapes ==
    /\ nextId \in Nat \ {0}
    /\ DOMAIN payment = DOMAIN FreshPayment
    /\ \A t \in AllTransactions : IsTransaction(t)
    /\ DOMAIN updates = Updates
    /\ \A u \in Updates :
         /\ DOMAIN updates[u] = {"phase", "payment", "answers", "change"}
         /\ updates[u].phase = "new" => /\ DOMAIN updates[u].answers = {}
                                        /\ updates[u].payment.transactions = {}
    /\ adyen \in Seq([call : SentCalls, code : Codes])

\* A transaction's number belongs to one key wherever it occurs.
Keyed(i, k) ==
    \/ \E t \in AllTransactions : i = t.id /\ k = GetIdempotencyKey(t)
    \/ \E c \in SentCalls : i = c.tx /\ i # 0 /\ k = c.key

NumbersAreUsed == \A i, k : Keyed(i, k) => i \in 1 .. nextId - 1
OneKeyPerNumber == \A i, k, l : Keyed(i, k) /\ Keyed(i, l) => k = l

\* Only the merchant adds transactions in their initial state.
TransactionsHaveKeys ==
    \A t \in AllTransactions :
        KeysAreGiven /\ t.state = "Initial" => GetIdempotencyKey(t) # NoKey

\* What the calls of updates look like.
KeyedOperations == Operations \ {"carbonOffset", "disable"}
CallIsKeyed(c) ==
    /\ c.op \in Modifications <=> c.tx # 0
    /\ KeysAreGiven /\ c.op \in Modifications => c.key # NoKey
    /\ c.op \in KeyedOperations => c.key = GenerateOperationKey(c.op)
CallsAreKeyed == \A c \in SentCalls : CallIsKeyed(c)

\* Adyen never does anything twice under one key.
KeyExecutedOnce ==
    \A i, j \in DOMAIN adyen :
        adyen[i].call.key = adyen[j].call.key /\ adyen[i].call.key # NoKey => i = j

IInv ==
    /\ Shapes
    /\ NumbersAreUsed
    /\ OneKeyPerNumber
    /\ TransactionsHaveKeys
    /\ CallsAreKeyed
    /\ KeyExecutedOnce

----------------------------------------------------------------------------
(* Keys and calls                                                          *)

\* A generated key is a key.
LEMMA GeneratedKeys ==
    /\ \A i : <<"transaction", i>> # NoKey
    /\ \A op : <<"operation", op>> # NoKey
<1>1. \A a, b : Len(<<a, b>>) = 2 /\ Len(NoKey) = 1
  BY DEF NoKey
<1> QED
  BY <1>1

\* There is a first transaction.
LEMMA FirstIsMember ==
    ASSUME NEW S, S # {}, \A t \in S : t.id \in Nat
    PROVE  First(S) \in S
<1> DEFINE Ids == {t.id : t \in S}
<1>1. Ids \subseteq Nat /\ Ids # {}
  OBVIOUS
<1>2. PICK n \in Ids : \A m \in Ids : <<m, n>> \notin OpToRel(<, Nat)
  BY <1>1, WFMin, NatLessThanWellFounded
<1>3. \A m \in Ids : ~(m < n)
  BY <1>1, <1>2, Zenon DEF OpToRel
<1>4. \A m \in Ids : n <= m
  BY <1>1, <1>3
<1>5. \E t \in S : \A s \in S : t.id <= s.id
  BY <1>4
<1> QED
  BY <1>5 DEF First

\* A payment's calls are for its requests and its transactions.
LEMMA CallsOfPayment ==
    ASSUME NEW p, \A t \in p.transactions : t.id \in Nat, NEW c \in Calls(p)
    PROVE  \/ \E op \in Operations : c = OperationCall(p, op)
           \/ \E t \in p.transactions :
                /\ t.type \in DOMAIN Modification
                /\ t.state = "Initial"
                /\ c = ModificationCall(p, t)
<1>1. \A type, state : /\ ListTransactions(p, type, state) # {}
                       => /\ First(ListTransactions(p, type, state)) \in p.transactions
                          /\ First(ListTransactions(p, type, state)).type = type
                          /\ First(ListTransactions(p, type, state)).state = state
  <2> TAKE type, state
  <2> HAVE ListTransactions(p, type, state) # {}
  <2>1. First(ListTransactions(p, type, state)) \in ListTransactions(p, type, state)
    BY FirstIsMember DEF ListTransactions
  <2> QED
    BY <2>1 DEF ListTransactions
<1>2. "donation" \in Operations /\ RequestedOperations(p) \subseteq Operations
  BY DEF Operations, RequestedOperations
<1>3. {"Charge", "Refund", "CancelAuthorization"} \subseteq DOMAIN Modification
  BY DEF Modification
<1>4. CASE IsRefund(p)
  BY <1>3, <1>4 DEF Calls, ListTransactions
<1>5. CASE ~IsRefund(p) /\ IsCancelPayment(p)
  BY <1>1, <1>3, <1>5 DEF Calls, IsCancelPayment
<1>6. CASE ~IsRefund(p) /\ ~IsCancelPayment(p) /\ IsDonationPayment(p)
  BY <1>2, <1>6 DEF Calls
<1>7. CASE ~IsRefund(p) /\ ~IsCancelPayment(p) /\ ~IsDonationPayment(p)
  BY <1>1, <1>2, <1>3, <1>7 DEF Calls, IsCapture
<1> QED
  BY <1>4, <1>5, <1>6, <1>7

\* Each call has the key of its operation or transaction.
LEMMA NewCallIsKeyed ==
    ASSUME NEW p, NEW c \in Calls(p),
           \A t \in p.transactions :
             /\ t.id \in Nat \ {0}
             /\ KeysAreGiven /\ t.state = "Initial" => GetIdempotencyKey(t) # NoKey
    PROVE  /\ CallIsKeyed(c)
           /\ c.tx # 0 => \E t \in p.transactions :
                            c.tx = t.id /\ c.key = GetIdempotencyKey(t)
<1>1. CASE \E op \in Operations : c = OperationCall(p, op)
  <2> PICK op \in Operations : c = OperationCall(p, op)
    BY <1>1
  <2>1. c.op = op /\ c.tx = 0 /\ op \notin Modifications
    BY DEF OperationCall, Operations, Modifications
  <2>2. op \in KeyedOperations => c.key = GenerateOperationKey(op)
    BY DEF OperationCall, KeyedOperations
  <2> QED
    BY <2>1, <2>2 DEF CallIsKeyed
<1>2. CASE \E t \in p.transactions :
             /\ t.type \in DOMAIN Modification
             /\ t.state = "Initial"
             /\ c = ModificationCall(p, t)
  <2> PICK t \in p.transactions :
        /\ t.type \in DOMAIN Modification
        /\ t.state = "Initial"
        /\ c = ModificationCall(p, t)
    BY <1>2
  <2>1. c.op \in Modifications /\ c.op \notin KeyedOperations
    BY DEF ModificationCall, Modification, Modifications, KeyedOperations, Operations
  <2>2. c.tx = t.id /\ c.key = GetIdempotencyKey(t)
    BY DEF ModificationCall
  <2> QED
    BY <2>1, <2>2 DEF CallIsKeyed
<1> QED
  BY <1>1, <1>2, CallsOfPayment

----------------------------------------------------------------------------
(* Steps that leave transactions and calls alone                           *)

\* An answer changes neither the calls of an update nor its payment.
LEMMA ReceiveKeepsCalls ==
    ASSUME Shapes, NEW u \in Updates, NEW c, NEW a, Receive(u, c, a),
           UNCHANGED <<payment, nextId>>
    PROVE  /\ AllTransactions' = AllTransactions
           /\ SentCalls' = SentCalls
           /\ c \in SentCalls
           /\ DOMAIN updates' = Updates
           /\ \A v \in Updates :
                /\ DOMAIN updates'[v] = DOMAIN updates[v]
                /\ updates'[v].phase = updates[v].phase
                /\ updates'[v].payment = updates[v].payment
                /\ DOMAIN updates'[v].answers = DOMAIN updates[v].answers
<1> DEFINE r == [updates[u] EXCEPT !.answers = [updates[u].answers EXCEPT ![c] = a]]
<1>1. updates' = [updates EXCEPT ![u] = r]
  BY DEF Receive
<1>2. DOMAIN updates' = Updates
  BY <1>1 DEF Shapes
<1>3. /\ DOMAIN r = DOMAIN updates[u]
      /\ r.phase = updates[u].phase
      /\ r.payment = updates[u].payment
      /\ r.answers = [updates[u].answers EXCEPT ![c] = a]
  BY DEF Shapes
<1>4. DOMAIN r.answers = DOMAIN updates[u].answers
  BY <1>3
<1>5. updates'[u] = r /\ \A v \in Updates \ {u} : updates'[v] = updates[v]
  BY <1>1 DEF Shapes
<1>6. \A v \in Updates :
        /\ DOMAIN updates'[v] = DOMAIN updates[v]
        /\ updates'[v].phase = updates[v].phase
        /\ updates'[v].payment = updates[v].payment
        /\ DOMAIN updates'[v].answers = DOMAIN updates[v].answers
  BY <1>3, <1>4, <1>5
<1>7. AllTransactions' = AllTransactions /\ SentCalls' = SentCalls
  BY <1>6 DEF AllTransactions, SentCalls
<1>8. c \in SentCalls
  BY DEF Receive, SentCalls
<1> QED
  BY <1>2, <1>6, <1>7, <1>8

\* What does not change transactions or calls changes no key.
LEMMA KeysUnchanged ==
    ASSUME IInv, AllTransactions' = AllTransactions, SentCalls' = SentCalls,
           nextId' = nextId
    PROVE  /\ NumbersAreUsed'
           /\ OneKeyPerNumber'
           /\ TransactionsHaveKeys'
           /\ CallsAreKeyed'
<1>1. \A i, k : Keyed(i, k)' <=> Keyed(i, k)
  BY DEF Keyed, GetIdempotencyKey
<1>2. NumbersAreUsed' /\ OneKeyPerNumber'
  BY <1>1 DEF IInv, NumbersAreUsed, OneKeyPerNumber
<1>3. TransactionsHaveKeys' /\ CallsAreKeyed'
  BY DEF IInv, TransactionsHaveKeys, CallsAreKeyed, GetIdempotencyKey, CallIsKeyed,
         GenerateOperationKey, KeysAreGiven
<1> QED
  BY <1>2, <1>3

\* A step that gives the next number its key K, and no other number another,
\* keeps the keys apart.
LEMMA KeysGrow ==
    ASSUME IInv, nextId' = nextId + 1, NEW K,
           \A i, k : Keyed(i, k)' => Keyed(i, k) \/ (i = nextId /\ k = K)
    PROVE  NumbersAreUsed' /\ OneKeyPerNumber'
<1>1. nextId \in Nat \ {0}
  BY DEF IInv, Shapes
<1>2. \A i, k : Keyed(i, k) => i \in 1 .. nextId - 1
  BY DEF IInv, NumbersAreUsed
<1>3. \A k : ~Keyed(nextId, k)
  BY <1>1, <1>2
<1>4. NumbersAreUsed'
  BY <1>1, <1>2 DEF NumbersAreUsed
<1>5. OneKeyPerNumber'
  BY <1>3 DEF OneKeyPerNumber, IInv
<1> QED
  BY <1>4, <1>5

\* Adyen does something new only under a key it does not know.
LEMMA ExecuteKeeps ==
    ASSUME IInv, NEW u \in Updates, NEW c, Execute(u, c)
    PROVE  IInv'
<1>1. PICK code, a : /\ code \in CodesOf(c.op)
                     /\ adyen' = Append(adyen, [call |-> c, code |-> code])
                     /\ Receive(u, c, a)
  BY DEF Execute
<1>2. Shapes /\ UNCHANGED <<payment, nextId>>
  BY DEF IInv, Execute
<1>3. /\ AllTransactions' = AllTransactions
      /\ SentCalls' = SentCalls
      /\ c \in SentCalls
      /\ DOMAIN updates' = Updates
      /\ \A v \in Updates :
           /\ DOMAIN updates'[v] = DOMAIN updates[v]
           /\ updates'[v].phase = updates[v].phase
           /\ updates'[v].payment = updates[v].payment
           /\ DOMAIN updates'[v].answers = DOMAIN updates[v].answers
  BY <1>1, <1>2, ReceiveKeepsCalls
<1>4. code \in Codes
  BY <1>1 DEF CodesOf, Codes, ReferenceCodes
<1> DEFINE Done == [call : SentCalls, code : Codes]
           new == [call |-> c, code |-> code]
<1>5. adyen \in Seq(Done) /\ new \in Done
  BY <1>2, <1>3, <1>4 DEF Shapes
<1>6. /\ adyen' \in Seq(Done)
      /\ Len(adyen) \in Nat /\ DOMAIN adyen = 1 .. Len(adyen)
      /\ DOMAIN adyen' = 1 .. Len(adyen) + 1
      /\ adyen'[Len(adyen) + 1] = new
      /\ \A i \in 1 .. Len(adyen) : adyen'[i] = adyen[i]
  <2> HIDE DEF Done, new
  <2> QED
    BY <1>1, <1>5, AppendProperties, LenProperties DEF new
<1>7. Shapes'
  BY <1>2, <1>3, <1>6 DEF Shapes
<1>8. \A i \in DOMAIN adyen : c.key # NoKey => adyen[i].call.key # c.key
  BY DEF Execute, DoneBefore
<1>9. KeyExecutedOnce'
  BY <1>6, <1>8 DEF IInv, KeyExecutedOnce
<1> QED
  BY <1>2, <1>3, <1>7, <1>9, KeysUnchanged DEF IInv

\* The answers that come from no new deed of Adyen's.
LEMMA AnswerKeeps ==
    ASSUME IInv, NEW u \in Updates, NEW c, Replay(u, c) \/ FailCall(u, c)
    PROVE  IInv'
<1>1. PICK a : Receive(u, c, a)
  BY DEF Replay, FailCall
<1>2. Shapes /\ UNCHANGED <<payment, adyen, nextId>>
  BY DEF IInv, Replay, FailCall
<1>3. /\ AllTransactions' = AllTransactions
      /\ SentCalls' = SentCalls
      /\ DOMAIN updates' = Updates
      /\ \A v \in Updates :
           /\ DOMAIN updates'[v] = DOMAIN updates[v]
           /\ updates'[v].phase = updates[v].phase
           /\ updates'[v].payment = updates[v].payment
           /\ DOMAIN updates'[v].answers = DOMAIN updates[v].answers
  BY <1>1, <1>2, ReceiveKeepsCalls
<1>4. Shapes'
  BY <1>2, <1>3 DEF Shapes
<1>5. KeyExecutedOnce'
  BY <1>2 DEF IInv, KeyExecutedOnce
<1> QED
  BY <1>2, <1>3, <1>4, <1>5, KeysUnchanged DEF IInv

\* A rejected update stores nothing.
LEMMA RejectKeeps ==
    ASSUME IInv, NEW u \in Updates, RejectUpdate(u)
    PROVE  IInv'
<1>1. Shapes /\ UNCHANGED <<payment, adyen, nextId>>
  BY DEF IInv, RejectUpdate
<1>2. /\ DOMAIN updates' = Updates
      /\ \A v \in Updates :
           /\ DOMAIN updates'[v] = DOMAIN updates[v]
           /\ updates'[v].phase = "new" => updates[v].phase = "new"
           /\ updates'[v].payment = updates[v].payment
           /\ updates'[v].answers = updates[v].answers
  BY <1>1 DEF RejectUpdate, Shapes
<1>3. AllTransactions' = AllTransactions /\ SentCalls' = SentCalls
  BY <1>1, <1>2 DEF AllTransactions, SentCalls
<1>4. Shapes'
  BY <1>1, <1>2, <1>3 DEF Shapes
<1>5. KeyExecutedOnce'
  BY <1>1 DEF IInv, KeyExecutedOnce
<1> QED
  BY <1>1, <1>3, <1>4, <1>5, KeysUnchanged DEF IInv

\* A refused update makes no call and keeps a fresh payment.
LEMMA RefuseKeeps ==
    ASSUME IInv, NEW u \in Updates, NEW ch, RefuseUpdate(u, ch)
    PROVE  IInv'
<1> DEFINE refused == [NotSent EXCEPT !.phase = "rejected", !.change = ch]
<1>1. /\ Shapes /\ UNCHANGED <<payment, adyen, nextId>>
      /\ updates' = [updates EXCEPT ![u] = refused]
      /\ updates[u].phase = "new"
  BY DEF IInv, RefuseUpdate, IsToSend
<1>2. /\ DOMAIN refused = {"phase", "payment", "answers", "change"}
      /\ refused.phase = "rejected"
      /\ refused.payment.transactions = {}
      /\ DOMAIN refused.answers = {}
  <2>1. /\ DOMAIN NotSent = {"phase", "payment", "answers", "change"}
        /\ NotSent.payment = FreshPayment
        /\ NotSent.answers = <<>>
    BY DEF NotSent
  <2>2. /\ DOMAIN refused = DOMAIN NotSent
        /\ refused.phase = "rejected"
        /\ refused.payment = NotSent.payment
        /\ refused.answers = NotSent.answers
    BY <2>1
  <2>3. DOMAIN <<>> = {} /\ FreshPayment.transactions = {}
    BY DEF FreshPayment
  <2> HIDE DEF refused
  <2> QED
    BY <2>1, <2>2, <2>3
<1> HIDE DEF refused
<1>3. /\ DOMAIN updates' = Updates
      /\ updates'[u] = refused
      /\ \A v \in Updates \ {u} : updates'[v] = updates[v]
      /\ DOMAIN updates[u].answers = {}
  BY <1>1 DEF Shapes
<1>4. SentCalls' = SentCalls
  BY <1>2, <1>3 DEF SentCalls
<1>5. AllTransactions' = AllTransactions
  <2>1. updates[u].payment.transactions = {}
    BY <1>1 DEF Shapes
  <2> QED
    BY <1>1, <1>2, <1>3, <2>1 DEF AllTransactions
<1>6. Shapes'
  BY <1>1, <1>2, <1>3, <1>4, <1>5 DEF Shapes
<1>7. KeyExecutedOnce'
  BY <1>1 DEF IInv, KeyExecutedOnce
<1> QED
  BY <1>1, <1>4, <1>5, <1>6, <1>7, KeysUnchanged DEF IInv

----------------------------------------------------------------------------
(* Steps that change the payment                                           *)

\* A transaction that a step keeps has its number and its key, the one it adds has
\* the next number and the key K.
IsKept(t, s) ==
    t.id = s.id /\ t.key = s.key /\ (t.state = "Initial" => s.state = "Initial")
IsAdded(t, K) ==
    /\ t.id = nextId
    /\ GetIdempotencyKey(t) = K
    /\ KeysAreGiven /\ t.state = "Initial" => K # NoKey

\* The transactions a step adds all have the next number and one key, the
\* others keep theirs, and a new call is for a transaction.
LEMMA PaymentGrows ==
    ASSUME IInv, nextId' = nextId + 1, NEW K,
           \A t \in AllTransactions' :
             \/ \E s \in AllTransactions : IsKept(t, s)
             \/ IsAdded(t, K),
           \A c \in SentCalls' :
             \/ c \in SentCalls
             \/ /\ CallIsKeyed(c)
                /\ c.tx # 0 => \E t \in AllTransactions' :
                                 c.tx = t.id /\ c.key = GetIdempotencyKey(t)
    PROVE  /\ NumbersAreUsed'
           /\ OneKeyPerNumber'
           /\ TransactionsHaveKeys'
           /\ CallsAreKeyed'
<1>1. \A s, t : t.id = s.id /\ t.key = s.key
                 => GetIdempotencyKey(t) = GetIdempotencyKey(s)
  BY DEF GetIdempotencyKey
<1>2. \A t \in AllTransactions' :
        \/ \E s \in AllTransactions :
             /\ t.id = s.id /\ (t.state = "Initial" => s.state = "Initial")
             /\ GetIdempotencyKey(t) = GetIdempotencyKey(s)
        \/ IsAdded(t, K)
  BY <1>1 DEF IsKept
<1>3. \A i, k : Keyed(i, k)' <=>
        \/ \E t \in AllTransactions' : i = t.id /\ k = GetIdempotencyKey(t)
        \/ \E c \in SentCalls' : i = c.tx /\ i # 0 /\ k = c.key
  BY DEF Keyed, GetIdempotencyKey
<1>4. \A i, k : (\E t \in AllTransactions' : i = t.id /\ k = GetIdempotencyKey(t))
                => Keyed(i, k) \/ (i = nextId /\ k = K)
  BY <1>2 DEF Keyed, IsAdded
<1>5. \A i, k : Keyed(i, k)' => Keyed(i, k) \/ (i = nextId /\ k = K)
  BY <1>3, <1>4 DEF Keyed
<1>6. NumbersAreUsed' /\ OneKeyPerNumber'
  BY <1>5, KeysGrow
<1>7. TransactionsHaveKeys'
  <2>1. \A t \in AllTransactions' :
          KeysAreGiven /\ t.state = "Initial" => GetIdempotencyKey(t) # NoKey
    BY <1>2 DEF IInv, TransactionsHaveKeys, IsAdded
  <2> QED
    BY <2>1 DEF TransactionsHaveKeys, GetIdempotencyKey, KeysAreGiven
<1>8. CallsAreKeyed'
  <2>1. \A c \in SentCalls' : CallIsKeyed(c)
    BY DEF IInv, CallsAreKeyed
  <2> QED
    BY <2>1 DEF CallsAreKeyed, CallIsKeyed, GenerateOperationKey, KeysAreGiven
<1> QED
  BY <1>6, <1>7, <1>8

NewTransaction(ch) ==
    [id |-> nextId, type |-> ch.of, of |-> ch.with, state |-> "Initial",
     ref |-> 0, key |-> ch.key, by |-> "merchant"]

\* A change adds at most the transaction of the next number.
LEMMA ChangedTransactions ==
    ASSUME Shapes, NEW ch \in Changes, NEW t \in Changed(ch).transactions
    PROVE  \/ t \in payment.transactions
           \/ ch.kind = "transaction" /\ t = NewTransaction(ch)
<1>1. "transactions" \in DOMAIN payment
  BY DEF Shapes, FreshPayment
<1>2. CASE ch.kind = "request"
  <2>1. Changed(ch) = [payment EXCEPT !.request[ch.of] = ch.with,
                                      !.response[ch.of] = NoAnswer]
    BY <1>2 DEF Changed
  <2>2. Changed(ch).transactions = payment.transactions
    BY <1>1, <2>1
  <2> QED
    BY <2>2
<1>3. CASE ch.kind = "transaction"
  <2>1. Changed(ch).transactions = payment.transactions \cup {NewTransaction(ch)}
    BY <1>1, <1>3 DEF Changed, NewTransaction
  <2> QED
    BY <1>3, <2>1
<1>4. CASE ch.kind = "amount"
  <2>1. Changed(ch) = [payment EXCEPT !.amountPlanned = ch.with]
    BY <1>4 DEF Changed
  <2>2. Changed(ch).transactions = payment.transactions
    BY <1>1, <2>1
  <2> QED
    BY <2>2
<1>5. CASE ch.kind \notin {"request", "transaction", "amount"}
  BY <1>5 DEF Changed
<1> QED
  BY <1>2, <1>3, <1>4, <1>5

\* What an update opened with payment p adds: the calls for p, and transactions of
\* the next number and one key.
LEMMA OpenKeeps ==
    ASSUME IInv, NEW u \in Updates, NEW ch, NEW p, Open(u, ch, p),
           updates[u].phase = "new", NEW K,
           \A t \in p.transactions :
             /\ IsTransaction(t)
             /\ \/ \E s \in payment.transactions : IsKept(t, s)
                \/ IsAdded(t, K)
    PROVE  IInv'
<1>1. Shapes /\ UNCHANGED <<payment, adyen>> /\ nextId' = nextId + 1
  BY DEF IInv, Open
<1>2. /\ DOMAIN updates' = Updates
      /\ DOMAIN updates'[u] = {"phase", "payment", "answers", "change"}
      /\ updates'[u].phase = "open"
      /\ updates'[u].payment = p
      /\ DOMAIN updates'[u].answers = Calls(p)
      /\ \A v \in Updates \ {u} : updates'[v] = updates[v]
      /\ DOMAIN updates[u].answers = {}
  BY <1>1 DEF Open, Shapes
<1>3. /\ SentCalls \subseteq SentCalls'
      /\ \A c \in SentCalls' : c \in SentCalls \/ c \in Calls(p)
  BY <1>2 DEF SentCalls
<1>4. /\ \A t \in AllTransactions' : t \in AllTransactions \/ t \in p.transactions
      /\ p.transactions \subseteq AllTransactions'
      /\ payment.transactions \subseteq AllTransactions
  BY <1>1, <1>2 DEF AllTransactions
<1>5. \A t \in AllTransactions : t.id \in Nat \ {0}
  <2>1. \A t \in AllTransactions : Keyed(t.id, GetIdempotencyKey(t))
    BY DEF Keyed
  <2>2. \A t \in AllTransactions : t.id \in 1 .. nextId - 1
    BY <2>1 DEF IInv, NumbersAreUsed
  <2> QED
    BY <1>1, <2>2 DEF Shapes
<1>6. \A t, s : t.key = s.key /\ t.id = s.id => GetIdempotencyKey(t) = GetIdempotencyKey(s)
  BY DEF GetIdempotencyKey
<1>7. \A t \in p.transactions :
        /\ t.id \in Nat \ {0}
        /\ KeysAreGiven /\ t.state = "Initial" => GetIdempotencyKey(t) # NoKey
  <2> SUFFICES ASSUME NEW t \in p.transactions
               PROVE  /\ t.id \in Nat \ {0}
                      /\ KeysAreGiven /\ t.state = "Initial"
                         => GetIdempotencyKey(t) # NoKey
    OBVIOUS
  <2>1. CASE \E s \in payment.transactions : IsKept(t, s)
    BY <1>4, <1>5, <1>6, <2>1 DEF IInv, TransactionsHaveKeys, IsKept
  <2>2. CASE IsAdded(t, K)
    BY <1>1, <2>2 DEF Shapes, IsAdded
  <2> QED
    BY <2>1, <2>2
<1>8. \A c \in Calls(p) :
        /\ CallIsKeyed(c)
        /\ c.tx # 0 => \E t \in p.transactions :
                         c.tx = t.id /\ c.key = GetIdempotencyKey(t)
  BY <1>7, NewCallIsKeyed
<1>9. /\ NumbersAreUsed' /\ OneKeyPerNumber'
      /\ TransactionsHaveKeys' /\ CallsAreKeyed'
  <2>1. \A t \in AllTransactions' :
          \/ \E s \in AllTransactions : IsKept(t, s)
          \/ IsAdded(t, K)
    BY <1>4 DEF IsKept
  <2>2. \A c \in SentCalls' :
          \/ c \in SentCalls
          \/ /\ CallIsKeyed(c)
             /\ c.tx # 0 => \E t \in AllTransactions' :
                              c.tx = t.id /\ c.key = GetIdempotencyKey(t)
    BY <1>3, <1>4, <1>8
  <2> QED
    BY <1>1, <2>1, <2>2, PaymentGrows
<1>10. Shapes'
  <2>1. /\ adyen' \in Seq([call : SentCalls, code : Codes])
        /\ [call : SentCalls, code : Codes] \subseteq [call : SentCalls', code : Codes]
    BY <1>1, <1>3 DEF Shapes
  <2>2. adyen' \in Seq([call : SentCalls', code : Codes])
    BY <2>1, SeqMonotonic
  <2>3. \A t \in AllTransactions' : IsTransaction(t)
    BY <1>1, <1>4 DEF Shapes
  <2> QED
    BY <1>1, <1>2, <2>2, <2>3 DEF Shapes
<1>11. KeyExecutedOnce'
  BY <1>1 DEF IInv, KeyExecutedOnce
<1> QED
  BY <1>9, <1>10, <1>11 DEF IInv

\* The merchant's update.
LEMMA SendKeeps ==
    ASSUME IInv, NEW u \in Updates, NEW ch \in Changes, SendUpdate(u, ch)
    PROVE  IInv'
<1> DEFINE p == Changed(ch)
           new == NewTransaction(ch)
           K == GetIdempotencyKey(new)
<1>1. Shapes /\ updates[u].phase = "new" /\ Open(u, ch, p)
  BY DEF IInv, SendUpdate, IsToSend
<1>2. \A t \in p.transactions :
        t \in payment.transactions \/ (ch.kind = "transaction" /\ t = new)
  BY <1>1, ChangedTransactions
<1>3. /\ new.id = nextId
      /\ IsTransaction(new)
      /\ KeysAreGiven /\ ch.kind = "transaction" => K # NoKey
  BY GeneratedKeys DEF NewTransaction, GetIdempotencyKey, KeysAreGiven,
     IsTransaction, States
<1>4. \A t \in payment.transactions : IsTransaction(t)
  BY <1>1 DEF Shapes, AllTransactions
<1> HIDE DEF p, new
<1>5. \A t \in p.transactions :
        /\ IsTransaction(t)
        /\ \/ \E s \in payment.transactions : IsKept(t, s)
           \/ IsAdded(t, K)
  BY <1>2, <1>3, <1>4 DEF IsKept, IsAdded
<1> HIDE DEF K
<1> QED
  BY <1>1, <1>5, OpenKeeps

\* The key of a transaction that the merchant did not add.
UnnamedKey == IF GenerateIdempotencyKey THEN <<"transaction", nextId>> ELSE NoKey

\* Handling keeps number, type and key of a transaction and adds authorizations.
LEMMA HandledTransactions ==
    ASSUME NEW p, \A t \in p.transactions : IsTransaction(t), NEW ans,
           NEW t \in Handled(p, ans).transactions
    PROVE  /\ IsTransaction(t)
           /\ \/ \E s \in p.transactions : IsKept(t, s)
              \/ IsAdded(t, UnnamedKey)
<1>1. Handled(p, ans).transactions =
        {Pending(s, ans) : s \in p.transactions} \cup AddTransactionByResponse(p, ans)
  BY DEF Handled
<1>2. CASE \E s \in p.transactions : t = Pending(s, ans)
  <2> PICK s \in p.transactions : t = Pending(s, ans)
    BY <1>2
  <2>1. IsTransaction(s)
    OBVIOUS
  <2>2. IsTransaction(t) /\ IsKept(t, s)
    BY <2>1 DEF Pending, IsTransaction, States, IsKept
  <2> QED
    BY <2>2
<1>3. CASE t \in AddTransactionByResponse(p, ans)
  <2>1. PICK c : t = [id |-> nextId, type |-> "Authorization", of |-> "amountPlanned",
                      state |-> AuthorizationState(ans[c].code),
                      ref |-> ans[c].ref, key |-> NoKey, by |-> "answer"]
    BY <1>3 DEF AddTransactionByResponse
  <2> QED
    BY <2>1 DEF IsTransaction, States, GetIdempotencyKey, UnnamedKey, IsAdded,
       AuthorizationState
<1> QED
  BY <1>1, <1>2, <1>3

\* A stored update's transactions keep their numbers and keys.
LEMMA StoreKeeps ==
    ASSUME IInv, NEW u \in Updates, StoreUpdate(u)
    PROVE  IInv'
<1> DEFINE p == updates[u].payment
           ans == updates[u].answers
<1>1. /\ Shapes /\ adyen' = adyen /\ nextId' = nextId + 1
      /\ payment' = Handled(p, ans)
  BY DEF IInv, StoreUpdate
<1>2. /\ DOMAIN updates' = Updates
      /\ \A v \in Updates :
           /\ DOMAIN updates'[v] = DOMAIN updates[v]
           /\ updates'[v].phase = "new" => updates[v].phase = "new"
           /\ updates'[v].payment = updates[v].payment
           /\ updates'[v].answers = updates[v].answers
  BY <1>1 DEF StoreUpdate, Shapes
<1>3. SentCalls' = SentCalls
  BY <1>2 DEF SentCalls
<1>4. /\ p.transactions \subseteq AllTransactions
      /\ \A t \in AllTransactions' :
           t \in AllTransactions \/ t \in Handled(p, ans).transactions
  BY <1>1, <1>2 DEF AllTransactions
<1>5. \A t \in p.transactions : IsTransaction(t)
  BY <1>1, <1>4 DEF Shapes
<1> HIDE DEF p, ans
<1>6. \A t \in Handled(p, ans).transactions :
        /\ IsTransaction(t)
        /\ \/ \E s \in p.transactions : IsKept(t, s)
           \/ IsAdded(t, UnnamedKey)
  BY <1>5, HandledTransactions
<1>7. /\ NumbersAreUsed' /\ OneKeyPerNumber'
      /\ TransactionsHaveKeys' /\ CallsAreKeyed'
  BY <1>1, <1>3, <1>4, <1>6, PaymentGrows DEF IsKept
<1>8. Shapes'
  <2>1. DOMAIN payment' = DOMAIN FreshPayment
    BY <1>1 DEF Handled, FreshPayment
  <2>2. \A t \in AllTransactions' : IsTransaction(t)
    BY <1>1, <1>4, <1>6 DEF Shapes
  <2> QED
    BY <1>1, <1>2, <1>3, <2>1, <2>2 DEF Shapes
<1>9. KeyExecutedOnce'
  BY <1>1 DEF IInv, KeyExecutedOnce
<1> QED
  BY <1>7, <1>8, <1>9 DEF IInv

\* What Adyen announces is not the initial state.
LEMMA EventsAreFinal == \A i : EventStates(i) \subseteq {"Pending", "Success", "Failure"}
BY DEF EventStates

\* The transaction a notification adds.
NotifiedTransaction(n, state) ==
    [id |-> nextId, type |-> EventType(adyen[n].call.op), of |-> adyen[n].call.of,
     state |-> state, ref |-> n, key |-> NoKey, by |-> "notification"]

\* A notification adds a transaction or sets the states of some.
LEMMA NotifiedTransactionsAre ==
    ASSUME NEW n, NEW state, NEW t \in NotifiedTransactions(n, state)
    PROVE  \/ t \in payment.transactions
           \/ t = NotifiedTransaction(n, state)
           \/ \E s \in payment.transactions :
                s.ref = n /\ Supersedes(state, s) /\ t = [s EXCEPT !.state = state]
BY DEF NotifiedTransactions, NotifiedTransaction

\* What a notification leaves: all but the transactions, the key and the log.
LEMMA NotifiedPayment ==
    ASSUME Shapes, NEW n, NEW p \in Notified(n)
    PROVE  /\ DOMAIN p = DOMAIN payment
           /\ p.version = payment.version
           /\ p.amountPlanned = payment.amountPlanned
           /\ p.request = payment.request
           /\ p.response = payment.response
           /\ p.key = PaymentReference(n)
           /\ IsFoundBy(n)
           /\ \E state \in EventStates(n) :
                /\ p.transactions = NotifiedTransactions(n, state)
                /\ p.interactions = NotifiedInteractions(n, state)
<1>1. DOMAIN payment = {"version", "key", "amountPlanned", "request", "response",
                        "transactions", "interactions"}
  BY DEF Shapes, FreshPayment
<1>2. PICK state \in EventStates(n) :
        /\ IsFoundBy(n)
        /\ p = [payment EXCEPT !.key = PaymentReference(n),
                               !.transactions = NotifiedTransactions(n, state),
                               !.interactions = NotifiedInteractions(n, state)]
  BY DEF Notified
<1> QED
  BY <1>1, <1>2

\* The transactions of a notified payment have the numbers and keys they had.
LEMMA NotifiedKeys ==
    ASSUME Shapes, NEW n, NEW p \in Notified(n)
    PROVE  \A t \in p.transactions :
             /\ IsTransaction(t)
             /\ \/ \E s \in payment.transactions : IsKept(t, s)
                \/ IsAdded(t, UnnamedKey)
<1> SUFFICES ASSUME NEW t \in p.transactions
             PROVE  /\ IsTransaction(t)
                    /\ \/ \E s \in payment.transactions : IsKept(t, s)
                       \/ IsAdded(t, UnnamedKey)
  OBVIOUS
<1>1. \A s \in payment.transactions : IsTransaction(s)
  BY DEF AllTransactions, Shapes
<1>2. PICK state \in {"Pending", "Success", "Failure"} :
        t \in NotifiedTransactions(n, state)
  BY NotifiedPayment, EventsAreFinal
<1>3. CASE t \in payment.transactions
  BY <1>1, <1>3 DEF IsKept
<1>4. CASE t = NotifiedTransaction(n, state)
  BY <1>4 DEF NotifiedTransaction, IsTransaction, States, GetIdempotencyKey,
     UnnamedKey, IsAdded
<1>5. CASE \E s \in payment.transactions : t = [s EXCEPT !.state = state]
  <2> PICK s \in payment.transactions : t = [s EXCEPT !.state = state]
    BY <1>5
  <2>1. IsTransaction(t) /\ t.id = s.id /\ t.key = s.key /\ t.state = state
    BY <1>1 DEF IsTransaction, States
  <2> QED
    BY <2>1 DEF IsKept
<1> QED
  BY <1>2, <1>3, <1>4, <1>5, NotifiedTransactionsAre

\* The notification module's update, when the extension has something to do.
LEMMA SendNotificationKeeps ==
    ASSUME IInv, NEW u \in Updates, NEW n, SendNotification(u, n)
    PROVE  IInv'
<1>1. Shapes /\ updates[u].phase = "new"
  BY DEF IInv, SendNotification
<1>2. PICK p \in Notified(n) :
        Open(u, [NotSent.change EXCEPT !.kind = "notification"], p)
  BY DEF SendNotification
<1>3. \A t \in p.transactions :
        /\ IsTransaction(t)
        /\ \/ \E s \in payment.transactions : IsKept(t, s)
           \/ IsAdded(t, UnnamedKey)
  BY <1>1, NotifiedKeys
<1> QED
  BY <1>1, <1>2, <1>3, OpenKeeps

\* The notification module's update, when the extension has nothing to do.
LEMMA NotifyKeeps ==
    ASSUME IInv, NEW n, Notify(n)
    PROVE  IInv'
<1>1. Shapes /\ UNCHANGED <<updates, adyen>> /\ nextId' = nextId + 1
  BY DEF IInv, Notify
<1>2. PICK p \in Notified(n) : payment' = [p EXCEPT !.version = @ + 1]
  BY DEF Notify
<1>3. /\ DOMAIN p = DOMAIN payment
      /\ \A t \in p.transactions :
           /\ IsTransaction(t)
           /\ \/ \E s \in payment.transactions : IsKept(t, s)
              \/ IsAdded(t, UnnamedKey)
  BY <1>1, NotifiedPayment, NotifiedKeys
<1>4. DOMAIN payment' = DOMAIN payment /\ payment'.transactions = p.transactions
  <2>1. "transactions" \in DOMAIN p
    BY <1>1, <1>3 DEF Shapes, FreshPayment
  <2> QED
    BY <1>2, <1>3, <2>1
<1>5. /\ SentCalls' = SentCalls
      /\ payment.transactions \subseteq AllTransactions
      /\ \A t \in AllTransactions' : t \in AllTransactions \/ t \in payment'.transactions
  BY <1>1 DEF SentCalls, AllTransactions
<1>6. /\ NumbersAreUsed' /\ OneKeyPerNumber'
      /\ TransactionsHaveKeys' /\ CallsAreKeyed'
  BY <1>1, <1>3, <1>4, <1>5, PaymentGrows DEF IsKept
<1>7. Shapes'
  BY <1>1, <1>3, <1>4, <1>5 DEF Shapes
<1>8. KeyExecutedOnce'
  BY <1>1 DEF IInv, KeyExecutedOnce
<1> QED
  BY <1>6, <1>7, <1>8 DEF IInv

\* A payment that recovers is the one that was made.
LEMMA RecoverKeeps ==
    ASSUME IInv, NEW i \in DOMAIN adyen, Recover(i)
    PROVE  IInv'
<1>1. Shapes /\ UNCHANGED <<payment, updates, nextId>>
  BY DEF IInv, Recover
<1>2. AllTransactions' = AllTransactions /\ SentCalls' = SentCalls
  BY <1>1 DEF AllTransactions, SentCalls
<1> DEFINE Done == [call : SentCalls, code : Codes]
           new == [adyen[i] EXCEPT !.code = "Recovered"]
<1>3. adyen \in Seq(Done) /\ DOMAIN adyen = 1 .. Len(adyen)
  BY <1>1, LenProperties DEF Shapes
<1>4. adyen[i] \in Done
  BY <1>3, ElementOfSeq
<1>5. new \in Done /\ new.call = adyen[i].call
  BY <1>4 DEF Codes
<1>6. adyen' = [adyen EXCEPT ![i] = new]
  BY DEF Recover
<1> HIDE DEF Done, new
<1>7. adyen' \in Seq(Done)
  BY <1>3, <1>5, <1>6, ExceptSeq
<1>8. DOMAIN adyen' = DOMAIN adyen /\ \A j \in DOMAIN adyen : adyen'[j].call = adyen[j].call
  BY <1>5, <1>6
<1>9. Shapes'
  BY <1>1, <1>2, <1>7 DEF Shapes, Done
<1>10. KeyExecutedOnce'
  BY <1>8 DEF IInv, KeyExecutedOnce
<1> QED
  BY <1>1, <1>2, <1>9, <1>10, KeysUnchanged DEF IInv

----------------------------------------------------------------------------
(* The theorems                                                            *)

\* Nothing has been sent.
LEMMA InitInvariant == Init => IInv
<1> SUFFICES ASSUME Init PROVE IInv
  OBVIOUS
<1>1. \A u \in Updates : /\ DOMAIN updates[u] = {"phase", "payment", "answers", "change"}
                         /\ updates[u].payment = FreshPayment
                         /\ DOMAIN updates[u].answers = {}
  <2>1. \A u \in Updates : updates[u] = NotSent
    BY DEF Init
  <2>2. /\ DOMAIN NotSent = {"phase", "payment", "answers", "change"}
        /\ NotSent.payment = FreshPayment
        /\ NotSent.answers = <<>>
    BY DEF NotSent
  <2>3. DOMAIN <<>> = {}
    OBVIOUS
  <2> QED
    BY <2>1, <2>2, <2>3
<1>2. AllTransactions = {} /\ SentCalls = {}
  BY <1>1 DEF Init, AllTransactions, SentCalls, FreshPayment
<1>3. Shapes
  <2>1. adyen \in Seq([call : SentCalls, code : Codes]) /\ nextId = 1
    BY EmptySeq DEF Init
  <2>2. FreshPayment.transactions = {}
    BY DEF FreshPayment
  <2> QED
    BY <1>1, <1>2, <2>1, <2>2 DEF Init, Shapes
<1>4. \A i, k : ~Keyed(i, k)
  BY <1>2 DEF Keyed
<1>5. adyen = <<>>
  BY DEF Init
<1> QED
  BY <1>2, <1>3, <1>4, <1>5 DEF IInv, NumbersAreUsed, OneKeyPerNumber,
     TransactionsHaveKeys, CallsAreKeyed, KeyExecutedOnce

\* Every step keeps the invariant.
LEMMA NextInvariant == IInv /\ [Next]_vars => IInv'
<1> SUFFICES ASSUME IInv, [Next]_vars PROVE IInv'
  OBVIOUS
<1>1. ASSUME NEW u \in Updates, NEW ch \in Changes, SendUpdate(u, ch) PROVE IInv'
  BY <1>1, SendKeeps
<1>2. ASSUME NEW u \in Updates, NEW c \in DOMAIN updates[u].answers, Execute(u, c)
      PROVE  IInv'
  BY <1>2, ExecuteKeeps
<1>3. ASSUME NEW u \in Updates, NEW c \in DOMAIN updates[u].answers,
             Replay(u, c) \/ FailCall(u, c)
      PROVE  IInv'
  BY <1>3, AnswerKeeps
<1>4. ASSUME NEW u \in Updates, StoreUpdate(u) PROVE IInv'
  BY <1>4, StoreKeeps
<1>5. ASSUME NEW u \in Updates, RejectUpdate(u) PROVE IInv'
  BY <1>5, RejectKeeps
<1>6. ASSUME NEW u \in Updates, NEW ch \in Changes, RefuseUpdate(u, ch) PROVE IInv'
  BY <1>6, RefuseKeeps
<1>7. ASSUME NEW u \in Updates, NEW n \in DOMAIN adyen, SendNotification(u, n)
      PROVE  IInv'
  BY <1>7, SendNotificationKeeps
<1>8. ASSUME NEW n \in DOMAIN adyen, Notify(n) PROVE IInv'
  BY <1>8, NotifyKeeps
<1>9. ASSUME NEW i \in DOMAIN adyen, Recover(i) PROVE IInv'
  BY <1>9, RecoverKeeps
<1>10. CASE UNCHANGED vars
  <2>1. AllTransactions' = AllTransactions /\ SentCalls' = SentCalls
    BY <1>10 DEF vars, AllTransactions, SentCalls
  <2>2. Shapes' /\ KeyExecutedOnce'
    BY <1>10, <2>1 DEF vars, IInv, Shapes, KeyExecutedOnce
  <2> QED
    BY <1>10, <2>1, <2>2, KeysUnchanged DEF vars, IInv
<1> QED
  BY <1>1, <1>2, <1>3, <1>4, <1>5, <1>6, <1>7, <1>8, <1>9, <1>10 DEF Next

\* What Adyen did, it did for calls that were sent.
LEMMA ExecutedCallsAreKeyed ==
    ASSUME IInv, NEW i \in DOMAIN adyen
    PROVE  adyen[i].call \in SentCalls /\ CallIsKeyed(adyen[i].call)
<1>1. adyen \in Seq([call : SentCalls, code : Codes])
  BY DEF IInv, Shapes
<1>2. adyen[i] \in [call : SentCalls, code : Codes]
  BY <1>1, ElementOfSeq, LenProperties
<1> QED
  BY <1>2 DEF IInv, CallsAreKeyed

\* One key for a transaction's calls means one deed for it.
LEMMA InvariantImpliesModifiedOnce ==
    KeysAreGiven /\ IInv => ModificationExecutedOnce
<1> SUFFICES ASSUME KeysAreGiven, IInv,
                    NEW i \in DOMAIN adyen, NEW j \in DOMAIN adyen,
                    adyen[i].call.op \in Modifications,
                    adyen[i].call.tx = adyen[j].call.tx
             PROVE  i = j
  BY DEF ModificationExecutedOnce
<1>1. /\ adyen[i].call \in SentCalls /\ CallIsKeyed(adyen[i].call)
      /\ adyen[j].call \in SentCalls
  BY ExecutedCallsAreKeyed
<1>2. adyen[i].call.tx # 0 /\ adyen[i].call.key # NoKey
  BY <1>1 DEF CallIsKeyed
<1>3. /\ Keyed(adyen[i].call.tx, adyen[i].call.key)
      /\ Keyed(adyen[i].call.tx, adyen[j].call.key)
  BY <1>1, <1>2 DEF Keyed
<1>4. adyen[i].call.key = adyen[j].call.key
  BY <1>3 DEF IInv, OneKeyPerNumber
<1> QED
  BY <1>2, <1>4 DEF IInv, KeyExecutedOnce

\* The invariant, by which the keys tell what Adyen has done already.
LEMMA Invariant == Spec => []IInv
BY InitInvariant, NextInvariant, PTL DEF Spec

\* With generateIdempotencyKey, or with a key for each transaction the merchant
\* adds, Adyen captures, refunds or cancels for a transaction at most once,
\* whatever updates fail, overlap or are repeated (getIdempotencyKey).
THEOREM ModificationIsExecutedOnce ==
    KeysAreGiven => (Spec => []ModificationExecutedOnce)
<1>1. ASSUME KeysAreGiven PROVE IInv => ModificationExecutedOnce
  BY <1>1, InvariantImpliesModifiedOnce
<1>2. ASSUME KeysAreGiven PROVE Spec => []ModificationExecutedOnce
  BY <1>1, <1>2, Invariant, PTL
<1> QED
  BY <1>2

----------------------------------------------------------------------------
(* How transactions go on                                                  *)

\* How a transaction may go on: it keeps number, type and reference, and its state
\* moves on.
AdvancesTo(t, s) ==
    /\ s.id = t.id
    /\ s.type = t.type
    /\ t.ref # 0 => s.ref = t.ref
    /\ MovesOn(t, s)

AllAdvance(ts, ss) == \A t \in ts : \E s \in ss : AdvancesTo(t, s)

\* A payment's transactions have different numbers, and no reference initially.
IsDistinct(ts) == \A s, t \in ts : s.id = t.id => s = t

InitiallyWithoutReference == \A t \in AllTransactions : t.state = "Initial" => t.ref = 0

TransactionsAreDistinct ==
    /\ IsDistinct(payment.transactions)
    /\ \A u \in Updates : IsDistinct(updates[u].payment.transactions)

\* An update that goes on has a copy of a payment that was stored.  As long as
\* nothing else is stored, its transactions are those of the payment, advanced.
CopyIsEarlier(u) ==
    LET copy == updates[u].payment IN
    /\ copy.version \in Nat /\ copy.version <= payment.version
    /\ copy.version = payment.version =>
          AllAdvance(payment.transactions, copy.transactions)
    /\ DOMAIN updates[u].answers = Calls(copy)

CopiesAreEarlier ==
    /\ payment.version \in Nat
    /\ \A u \in Updates : updates[u].phase = "open" => CopyIsEarlier(u)

ProgressInv ==
    /\ InitiallyWithoutReference
    /\ TransactionsAreDistinct
    /\ CopiesAreEarlier

----------------------------------------------------------------------------
(* Calls and answers                                                       *)

LEMMA AdvanceIsTransitive ==
    ASSUME NEW r, NEW s, NEW t, AdvancesTo(r, s), AdvancesTo(s, t),
           {r.state, s.state, t.state} \subseteq States
    PROVE  AdvancesTo(r, t)
BY DEF AdvancesTo, MovesOn, States, TransactionStateFlow

LEMMA AdvanceIsReflexive == \A t : t.state \in States => AdvancesTo(t, t)
BY DEF AdvancesTo, MovesOn, States, TransactionStateFlow

LEMMA AllAdvanceIsReflexive ==
    ASSUME IInv PROVE AllAdvance(payment.transactions, payment.transactions)
<1>1. \A t \in payment.transactions : t.state \in States
  BY DEF IInv, Shapes, AllTransactions, IsTransaction
<1> QED
  BY <1>1, AdvanceIsReflexive DEF AllAdvance

\* A call of a modification is for a transaction in its initial state, and is
\* made only for an authorised payment.
LEMMA ModificationOfInitial ==
    ASSUME NEW p, \A t \in p.transactions : t.id \in Nat,
           NEW c \in Calls(p), c.tx # 0 \/ c.op \in Modifications
    PROVE  /\ IsAuthorised(p)
           /\ \E t \in p.transactions : t.state = "Initial" /\ c.tx = t.id
<1>1. \A type : /\ ListTransactions(p, type, "Initial") # {}
                => LET t == First(ListTransactions(p, type, "Initial"))
                   IN  t \in p.transactions /\ t.state = "Initial"
  <2> TAKE type
  <2> HAVE ListTransactions(p, type, "Initial") # {}
  <2>1. First(ListTransactions(p, type, "Initial")) \in ListTransactions(p, type, "Initial")
    BY FirstIsMember DEF ListTransactions
  <2> QED
    BY <2>1 DEF ListTransactions
<1>2. \A op \in Operations : c # OperationCall(p, op)
  BY DEF OperationCall, Operations, Modifications
<1>3. "donation" \in Operations /\ RequestedOperations(p) \subseteq Operations
  BY DEF Operations, RequestedOperations
<1>4. \A t : ModificationCall(p, t).tx = t.id
  BY DEF ModificationCall
<1>5. CASE IsRefund(p)
  BY <1>4, <1>5 DEF Calls, ListTransactions, IsRefund
<1>6. CASE ~IsRefund(p) /\ IsCancelPayment(p)
  BY <1>1, <1>4, <1>6 DEF Calls, IsCancelPayment
<1>7. CASE ~IsRefund(p) /\ ~IsCancelPayment(p) /\ IsDonationPayment(p)
  BY <1>2, <1>3, <1>7 DEF Calls
<1>8. CASE ~IsRefund(p) /\ ~IsCancelPayment(p) /\ ~IsDonationPayment(p)
  BY <1>1, <1>2, <1>3, <1>4, <1>8 DEF Calls, IsCapture
<1> QED
  BY <1>5, <1>6, <1>7, <1>8

\* A payment is never paid and completed by details in the same update.
LEMMA PaidOrDetailed ==
    ASSUME NEW p, NEW c \in Calls(p), NEW d \in Calls(p),
           \A t \in p.transactions : t.id \in Nat,
           {c.op, d.op} \subseteq {"makePayment", "submitDetails"}
    PROVE  c = d
<1>1. \A e \in Calls(p) : e.op \in {"makePayment", "submitDetails"} =>
        /\ e = OperationCall(p, e.op)
        /\ e.op = "makePayment" => p.response["makePayment"] = NoAnswer
        /\ e.op = "submitDetails" => p.response["makePayment"] # NoAnswer
  <2> SUFFICES ASSUME NEW e \in Calls(p), e.op \in {"makePayment", "submitDetails"}
               PROVE  /\ e = OperationCall(p, e.op)
                      /\ e.op = "makePayment" => p.response["makePayment"] = NoAnswer
                      /\ e.op = "submitDetails" => p.response["makePayment"] # NoAnswer
    OBVIOUS
  <2>1. \A op : OperationCall(p, op).op = op
    BY DEF OperationCall
  <2>2. \A t : t.type \in DOMAIN Modification => e # ModificationCall(p, t)
    BY DEF ModificationCall, Modification
  <2>3. e \in {OperationCall(p, op) : op \in RequestedOperations(p)}
    <3>1. \A type : ListTransactions(p, type, "Initial") # {}
                    => First(ListTransactions(p, type, "Initial")).type = type
      <4> TAKE type
      <4> HAVE ListTransactions(p, type, "Initial") # {}
      <4>1. First(ListTransactions(p, type, "Initial"))
              \in ListTransactions(p, type, "Initial")
        BY FirstIsMember DEF ListTransactions
      <4> QED
        BY <4>1 DEF ListTransactions
    <3>2. {"Charge", "Refund", "CancelAuthorization"} \subseteq DOMAIN Modification
      BY DEF Modification
    <3>3. CASE IsRefund(p)
      BY <2>2, <3>2, <3>3 DEF Calls, ListTransactions
    <3>4. CASE ~IsRefund(p) /\ IsCancelPayment(p)
      BY <2>2, <3>1, <3>2, <3>4 DEF Calls, IsCancelPayment
    <3>5. CASE ~IsRefund(p) /\ ~IsCancelPayment(p) /\ IsDonationPayment(p)
      BY <2>1, <3>5 DEF Calls
    <3>6. CASE ~IsRefund(p) /\ ~IsCancelPayment(p) /\ ~IsDonationPayment(p)
      BY <2>2, <3>1, <3>2, <3>6 DEF Calls, IsCapture
    <3> QED
      BY <3>3, <3>4, <3>5, <3>6
  <2> QED
    BY <2>1, <2>3 DEF RequestedOperations
<1> QED
  BY <1>1

\* Numbers in use are below the next one.
LEMMA NumbersBelow ==
    ASSUME IInv
    PROVE  /\ nextId \in Nat \ {0}
           /\ \A t \in AllTransactions : t.id \in Nat \ {0} /\ t.id < nextId
           /\ \A t \in AllTransactions : IsTransaction(t)
<1>1. nextId \in Nat \ {0} /\ \A t \in AllTransactions : IsTransaction(t)
  BY DEF IInv, Shapes
<1>2. \A t \in AllTransactions : Keyed(t.id, GetIdempotencyKey(t))
  BY DEF Keyed
<1>3. \A t \in AllTransactions : t.id \in 1 .. nextId - 1
  BY <1>2 DEF IInv, NumbersAreUsed
<1> QED
  BY <1>1, <1>3

----------------------------------------------------------------------------
(* What happens to the transactions                                        *)

\* A change leaves the transactions of the payment and adds a new one.
LEMMA ChangedAdvances ==
    ASSUME IInv, ProgressInv, NEW ch \in Changes
    PROVE  LET ts == Changed(ch).transactions IN
           /\ AllAdvance(payment.transactions, ts)
           /\ IsDistinct(ts)
           /\ \A t \in ts : t.state = "Initial" => t.ref = 0
           /\ \A t \in ts : t.id \in Nat
           /\ Changed(ch).version = payment.version
<1> DEFINE ts == Changed(ch).transactions
           new == NewTransaction(ch)
<1>1. /\ Shapes
      /\ {"version", "transactions", "request", "response", "amountPlanned"}
            \subseteq DOMAIN payment
  BY DEF IInv, Shapes, FreshPayment
<1>2. ch.kind = "transaction" => Changed(ch) = [payment EXCEPT !.transactions = @ \cup {new}]
  BY DEF Changed, NewTransaction
<1>3. ch.kind # "transaction" => ts = payment.transactions
  BY <1>1 DEF Changed
<1>4. Changed(ch).version = payment.version
  <2>1. CASE ch.kind = "request"
    BY <1>1, <2>1 DEF Changed
  <2>2. CASE ch.kind # "request"
    BY <1>1, <2>2 DEF Changed
  <2> QED
    BY <2>1, <2>2
<1>5. \/ ts = payment.transactions
      \/ ts = payment.transactions \cup {new}
  BY <1>1, <1>2, <1>3
<1>6. new.id = nextId /\ new.state = "Initial" /\ new.ref = 0
  BY DEF NewTransaction
<1>7. \A t \in payment.transactions : t.id \in Nat /\ t.id # nextId
  BY NumbersBelow DEF AllTransactions
<1>8. nextId \in Nat
  BY NumbersBelow
<1> HIDE DEF ts, new
<1>9. AllAdvance(payment.transactions, ts)
  BY <1>5, AllAdvanceIsReflexive DEF AllAdvance
<1>10. IsDistinct(ts)
  BY <1>5, <1>6, <1>7 DEF IsDistinct, ProgressInv, TransactionsAreDistinct
<1>11. \A t \in ts : (t.state = "Initial" => t.ref = 0) /\ t.id \in Nat
  BY <1>5, <1>6, <1>7, <1>8 DEF ProgressInv, InitiallyWithoutReference, AllTransactions
<1> QED
  BY <1>4, <1>9, <1>10, <1>11 DEF ts

\* A notification sets the states of transactions or adds one.
LEMMA NotifiedAdvances ==
    ASSUME IInv, ProgressInv, NEW n, NEW p \in Notified(n)
    PROVE  /\ AllAdvance(payment.transactions, p.transactions)
           /\ IsDistinct(p.transactions)
           /\ \A t \in p.transactions : t.state = "Initial" => t.ref = 0
           /\ \A t \in p.transactions : t.id \in Nat
           /\ p.version = payment.version
<1>1. PICK state \in {"Pending", "Success", "Failure"} :
        p.transactions = NotifiedTransactions(n, state) /\ p.version = payment.version
  BY NotifiedPayment, EventsAreFinal DEF IInv
<1> DEFINE ts == NotifiedTransactions(n, state)
           new == NotifiedTransaction(n, state)
           Of(t) == [t EXCEPT !.state = state]
<1>2. /\ \A t \in payment.transactions :
            t.id \in Nat /\ t.id # nextId /\ IsTransaction(t)
      /\ nextId \in Nat
  BY NumbersBelow DEF AllTransactions
<1>3. \A t \in payment.transactions : t.state = "Initial" => t.ref = 0
  BY DEF ProgressInv, InitiallyWithoutReference, AllTransactions
<1>4. IsDistinct(payment.transactions)
  BY DEF ProgressInv, TransactionsAreDistinct
<1>5. new.id = nextId /\ new.state # "Initial"
  BY DEF NotifiedTransaction
<1>6. \A t \in payment.transactions :
        /\ Of(t).id = t.id /\ Of(t).state # "Initial"
        /\ Supersedes(state, t) => AdvancesTo(t, Of(t))
  <2> TAKE t \in payment.transactions
  <2>1. /\ Of(t).id = t.id /\ Of(t).type = t.type /\ Of(t).ref = t.ref
        /\ Of(t).state = state
    BY <1>2 DEF IsTransaction
  <2>2. t.state \in States
    BY <1>2 DEF IsTransaction
  <2> HIDE DEF Of
  <2>3. Supersedes(state, t) => MovesOn(t, Of(t))
    BY <2>1, <2>2 DEF Supersedes, MovesOn, States, TransactionStateFlow
  <2> QED
    BY <2>1, <2>3 DEF AdvancesTo
<1> DEFINE stored == {t \in payment.transactions : t.ref = n}
           superseded == {t \in stored : t = First(stored) /\ Supersedes(state, t)}
<1>7. /\ superseded \subseteq payment.transactions
      /\ \A t \in superseded : Supersedes(state, t)
      /\ \/ ts = payment.transactions \cup {new}
         \/ ts = (payment.transactions \ superseded) \cup {Of(t) : t \in superseded}
  BY DEF NotifiedTransactions, NotifiedTransaction
<1> HIDE DEF ts, new, Of, stored, superseded
<1>8. CASE ts = payment.transactions \cup {new}
  <2>1. AllAdvance(payment.transactions, ts)
    BY <1>8, AllAdvanceIsReflexive DEF AllAdvance
  <2>2. IsDistinct(ts)
    BY <1>2, <1>4, <1>5, <1>8 DEF IsDistinct
  <2> QED
    BY <1>1, <1>2, <1>3, <1>5, <1>8, <2>1, <2>2 DEF ts
<1>9. CASE ts = (payment.transactions \ superseded) \cup {Of(t) : t \in superseded}
  <2>1. AllAdvance(payment.transactions, ts)
    <3>1. \A t \in payment.transactions \ superseded : AdvancesTo(t, t) /\ t \in ts
      BY <1>2, <1>9, AdvanceIsReflexive DEF IsTransaction
    <3>2. \A t \in superseded : AdvancesTo(t, Of(t)) /\ Of(t) \in ts
      BY <1>6, <1>7, <1>9
    <3> QED
      BY <3>1, <3>2 DEF AllAdvance
  <2>2. \A s \in ts : \/ s \in payment.transactions \ superseded
                     \/ \E t \in superseded : s = Of(t)
    BY <1>9
  <2>3. \A s \in superseded : s \in payment.transactions /\ Of(s).id = s.id
    BY <1>6, <1>7
  <2>4. IsDistinct(ts)
    BY <1>4, <2>2, <2>3 DEF IsDistinct
  <2>5. \A s \in ts : s.id \in Nat /\ (s.state = "Initial" => s.ref = 0)
    BY <1>2, <1>3, <1>6, <2>2, <2>3
  <2> QED
    BY <1>1, <2>1, <2>4, <2>5 DEF ts
<1> QED
  BY <1>7, <1>8, <1>9

\* An answer sets a transaction only from its initial state.
LEMMA PendingAdvances ==
    ASSUME NEW p, NEW ans, DOMAIN ans = Calls(p), IsDistinct(p.transactions),
           \A t \in p.transactions :
             /\ t.id \in Nat \ {0}
             /\ IsTransaction(t)
             /\ t.state = "Initial" => t.ref = 0,
           NEW t \in p.transactions
    PROVE  /\ AdvancesTo(t, Pending(t, ans))
           /\ Pending(t, ans).id = t.id
           /\ \/ Pending(t, ans) = t
              \/ t.state = "Initial" /\ Pending(t, ans).state = "Pending"
<1> DEFINE answered == {c \in DOMAIN ans : c.tx = t.id /\ ans[c].ref # 0}
<1>1. CASE answered = {}
  BY <1>1, AdvanceIsReflexive DEF Pending, IsTransaction
<1>2. CASE answered # {}
  <2>1. PICK c \in Calls(p) : c.tx = t.id
    BY <1>2
  <2>2. PICK s \in p.transactions : s.state = "Initial" /\ c.tx = s.id
    BY <2>1, ModificationOfInitial
  <2>3. t.state = "Initial" /\ t.ref = 0
    BY <2>1, <2>2 DEF IsDistinct
  <2>4. /\ Pending(t, ans).id = t.id
        /\ Pending(t, ans).type = t.type
        /\ Pending(t, ans).state = "Pending"
    BY <1>2 DEF Pending, IsTransaction
  <2> QED
    BY <2>3, <2>4 DEF AdvancesTo, MovesOn, TransactionStateFlow
<1> QED
  BY <1>1, <1>2

\* The answers to an update advance its transactions and add at most one.
LEMMA HandledAdvances ==
    ASSUME NEW p, NEW ans, DOMAIN ans = Calls(p), IsDistinct(p.transactions),
           \A t \in p.transactions :
             /\ t.id \in Nat \ {0} /\ t.id # nextId
             /\ IsTransaction(t)
             /\ t.state = "Initial" => t.ref = 0
    PROVE  LET ts == Handled(p, ans).transactions IN
           /\ AllAdvance(p.transactions, ts)
           /\ IsDistinct(ts)
           /\ \A t \in ts : t.state = "Initial" => t.ref = 0
<1> DEFINE set == {Pending(t, ans) : t \in p.transactions}
           added == AddTransactionByResponse(p, ans)
           ts == Handled(p, ans).transactions
<1>1. ts = set \cup added
  BY DEF Handled
<1>2. \A t \in p.transactions :
        /\ AdvancesTo(t, Pending(t, ans))
        /\ Pending(t, ans).id = t.id
        /\ Pending(t, ans) = t \/ Pending(t, ans).state = "Pending"
  BY PendingAdvances
<1>3. \A t \in added : t.id = nextId /\ t.state # "Initial"
  BY DEF AddTransactionByResponse, AuthorizationState
<1>4. \A s, t \in added : s = t
  <2>1. \A c, d \in DOMAIN ans :
          {c.op, d.op} \subseteq {"makePayment", "submitDetails"} => c = d
    BY PaidOrDetailed
  <2> QED
    BY <2>1 DEF AddTransactionByResponse
<1>5. \A t \in set : t.id # nextId /\ (t.state = "Initial" => t.ref = 0)
  BY <1>2
<1>6. IsDistinct(set)
  BY <1>2 DEF IsDistinct
<1>7. AllAdvance(p.transactions, set)
  BY <1>2 DEF AllAdvance
<1> HIDE DEF set, added, ts
<1>8. AllAdvance(p.transactions, ts)
  BY <1>1, <1>7 DEF AllAdvance
<1>9. IsDistinct(ts)
  BY <1>1, <1>3, <1>4, <1>5, <1>6 DEF IsDistinct
<1>10. \A t \in ts : t.state = "Initial" => t.ref = 0
  BY <1>1, <1>3, <1>5
<1> QED
  BY <1>8, <1>9, <1>10 DEF ts

----------------------------------------------------------------------------
(* Steps                                                                   *)

\* A step that stores nothing and opens no update.
LEMMA NothingStored ==
    ASSUME ProgressInv, payment' = payment,
           \A v \in Updates :
             \/ /\ updates'[v].payment = updates[v].payment
                /\ updates'[v].phase = "open" => updates[v].phase = "open"
                /\ DOMAIN updates'[v].answers = DOMAIN updates[v].answers
             \/ /\ updates'[v].payment.transactions = {}
                /\ updates'[v].phase # "open"
    PROVE  ProgressInv'
<1>1. \A t \in AllTransactions' : t \in AllTransactions
  BY DEF AllTransactions
<1>2. InitiallyWithoutReference'
  BY <1>1 DEF ProgressInv, InitiallyWithoutReference
<1>3. TransactionsAreDistinct'
  <2>1. \A v \in Updates : IsDistinct(updates'[v].payment.transactions)
    BY DEF ProgressInv, TransactionsAreDistinct, IsDistinct
  <2> QED
    BY <2>1 DEF ProgressInv, TransactionsAreDistinct
<1>4. CopiesAreEarlier'
  <2>1. ASSUME NEW v \in Updates, updates'[v].phase = "open"
        PROVE  CopyIsEarlier(v)'
    BY <2>1 DEF ProgressInv, CopiesAreEarlier, CopyIsEarlier
  <2> QED
    BY <2>1 DEF ProgressInv, CopiesAreEarlier
<1> QED
  BY <1>2, <1>3, <1>4 DEF ProgressInv

LEMMA AnswerProgress ==
    ASSUME IInv, ProgressInv, NEW u \in Updates, NEW c,
           Execute(u, c) \/ Replay(u, c) \/ FailCall(u, c)
    PROVE  ProgressInv'
<1>1. PICK a : Receive(u, c, a)
  BY DEF Execute, Replay, FailCall
<1>2. Shapes /\ UNCHANGED <<payment, nextId>>
  BY DEF IInv, Execute, Replay, FailCall
<1>3. \A v \in Updates :
        /\ updates'[v].phase = updates[v].phase
        /\ updates'[v].payment = updates[v].payment
        /\ DOMAIN updates'[v].answers = DOMAIN updates[v].answers
  BY <1>1, <1>2, ReceiveKeepsCalls
<1> QED
  BY <1>2, <1>3, NothingStored

LEMMA RejectProgress ==
    ASSUME IInv, ProgressInv, NEW u \in Updates, RejectUpdate(u)
    PROVE  ProgressInv'
<1>1. \A v \in Updates :
        /\ updates'[v].phase = "open" => updates[v].phase = "open"
        /\ updates'[v].payment = updates[v].payment
        /\ updates'[v].answers = updates[v].answers
  BY DEF IInv, RejectUpdate, Shapes
<1>2. payment' = payment
  BY DEF RejectUpdate
<1> QED
  BY <1>1, <1>2, NothingStored

LEMMA RefuseProgress ==
    ASSUME IInv, ProgressInv, NEW u \in Updates, NEW ch, RefuseUpdate(u, ch)
    PROVE  ProgressInv'
<1> DEFINE refused == [NotSent EXCEPT !.phase = "rejected", !.change = ch]
<1>1. /\ payment' = payment
      /\ updates' = [updates EXCEPT ![u] = refused]
  BY DEF RefuseUpdate
<1>2. refused.phase = "rejected" /\ refused.payment = FreshPayment
  BY DEF NotSent
<1>3. FreshPayment.transactions = {}
  BY DEF FreshPayment
<1> HIDE DEF refused
<1>4. updates'[u] = refused /\ \A v \in Updates \ {u} : updates'[v] = updates[v]
  BY <1>1 DEF IInv, Shapes
<1>5. \A v \in Updates :
        \/ updates'[v] = updates[v]
        \/ /\ updates'[v].payment.transactions = {}
           /\ updates'[v].phase # "open"
  BY <1>2, <1>3, <1>4
<1> QED
  BY <1>1, <1>5, NothingStored

\* An update that is opened has the payment, advanced.
LEMMA OpenProgress ==
    ASSUME IInv, ProgressInv, NEW u \in Updates, NEW ch, NEW p, Open(u, ch, p),
           AllAdvance(payment.transactions, p.transactions),
           IsDistinct(p.transactions),
           \A t \in p.transactions : t.state = "Initial" => t.ref = 0,
           p.version = payment.version
    PROVE  ProgressInv'
<1>1. /\ payment' = payment
      /\ updates'[u].phase = "open"
      /\ updates'[u].payment = p
      /\ DOMAIN updates'[u].answers = Calls(p)
      /\ \A v \in Updates \ {u} : updates'[v] = updates[v]
  BY DEF Open, IInv, Shapes
<1>2. \A t \in AllTransactions' : t \in AllTransactions \/ t \in p.transactions
  BY <1>1 DEF AllTransactions
<1>3. InitiallyWithoutReference'
  BY <1>2 DEF ProgressInv, InitiallyWithoutReference
<1>4. TransactionsAreDistinct'
  <2>1. \A v \in Updates : IsDistinct(updates'[v].payment.transactions)
    BY <1>1 DEF ProgressInv, TransactionsAreDistinct
  <2> QED
    BY <1>1, <2>1 DEF ProgressInv, TransactionsAreDistinct
<1>5. CopiesAreEarlier'
  <2>1. payment.version \in Nat
    BY DEF ProgressInv, CopiesAreEarlier
  <2>2. CopyIsEarlier(u)'
    BY <1>1, <2>1 DEF CopyIsEarlier
  <2>3. ASSUME NEW v \in Updates \ {u}, updates'[v].phase = "open"
        PROVE  CopyIsEarlier(v)'
    BY <1>1, <2>3 DEF ProgressInv, CopiesAreEarlier, CopyIsEarlier
  <2> QED
    BY <1>1, <2>1, <2>2, <2>3 DEF CopiesAreEarlier
<1> QED
  BY <1>3, <1>4, <1>5 DEF ProgressInv

\* A new version of the payment makes all copies older.
LEMMA NewVersion ==
    ASSUME ProgressInv, payment'.version = payment.version + 1,
           IsDistinct(payment'.transactions),
           \A t \in payment'.transactions : t.state = "Initial" => t.ref = 0,
           \A v \in Updates :
             /\ updates'[v].payment = updates[v].payment
             /\ updates'[v].phase = "open" => updates[v].phase = "open"
             /\ DOMAIN updates'[v].answers = DOMAIN updates[v].answers
    PROVE  ProgressInv'
<1>1. \A t \in AllTransactions' : t \in AllTransactions \/ t \in payment'.transactions
  BY DEF AllTransactions
<1>2. InitiallyWithoutReference'
  BY <1>1 DEF ProgressInv, InitiallyWithoutReference
<1>3. TransactionsAreDistinct'
  BY DEF ProgressInv, TransactionsAreDistinct
<1>4. CopiesAreEarlier'
  <2>1. payment.version \in Nat
    BY DEF ProgressInv, CopiesAreEarlier
  <2>2. ASSUME NEW v \in Updates, updates'[v].phase = "open"
        PROVE  CopyIsEarlier(v)'
    BY <2>1, <2>2 DEF ProgressInv, CopiesAreEarlier, CopyIsEarlier
  <2> QED
    BY <2>1, <2>2 DEF CopiesAreEarlier
<1> QED
  BY <1>2, <1>3, <1>4 DEF ProgressInv

\* A stored update has advanced the transactions of the payment it is applied to.
LEMMA StoreProgress ==
    ASSUME IInv, ProgressInv, NEW u \in Updates, StoreUpdate(u)
    PROVE  ProgressInv' /\ AllAdvance(payment.transactions, payment'.transactions)
<1>0. IInv'
  BY StoreKeeps
<1> DEFINE p == updates[u].payment
           ans == updates[u].answers
<1>1. /\ payment' = Handled(p, ans)
      /\ p.version = payment.version
      /\ updates[u].phase = "open"
  BY DEF StoreUpdate
<1>2. CopyIsEarlier(u)
  BY <1>1 DEF ProgressInv, CopiesAreEarlier
<1>3. DOMAIN ans = Calls(p) /\ AllAdvance(payment.transactions, p.transactions)
  BY <1>1, <1>2 DEF CopyIsEarlier
<1>4. p.transactions \subseteq AllTransactions
  BY DEF AllTransactions
<1>5. \A t \in p.transactions :
        /\ t.id \in Nat \ {0} /\ t.id # nextId
        /\ IsTransaction(t)
        /\ t.state = "Initial" => t.ref = 0
  BY <1>4, NumbersBelow DEF ProgressInv, InitiallyWithoutReference
<1>6. IsDistinct(p.transactions)
  BY DEF ProgressInv, TransactionsAreDistinct
<1>7. payment'.version = payment.version + 1
  BY <1>1 DEF Handled
<1>8. \A v \in Updates :
        /\ updates'[v].payment = updates[v].payment
        /\ updates'[v].phase = "open" => updates[v].phase = "open"
        /\ updates'[v].answers = updates[v].answers
  BY DEF IInv, StoreUpdate, Shapes
<1> HIDE DEF p, ans
<1>9. /\ AllAdvance(p.transactions, payment'.transactions)
      /\ IsDistinct(payment'.transactions)
      /\ \A t \in payment'.transactions : t.state = "Initial" => t.ref = 0
  BY <1>1, <1>3, <1>5, <1>6, HandledAdvances
<1>10. AllAdvance(payment.transactions, payment'.transactions)
  <2>1. \A t \in payment.transactions \cup p.transactions \cup payment'.transactions :
          t.state \in States
    BY <1>0, <1>4 DEF IInv, Shapes, AllTransactions, IsTransaction, p
  <2> QED
    BY <1>3, <1>9, <2>1, AdvanceIsTransitive DEF AllAdvance
<1> QED
  BY <1>7, <1>8, <1>9, <1>10, NewVersion

\* So has the notification module's update that is stored at once.
LEMMA NotifyProgress ==
    ASSUME IInv, ProgressInv, NEW n, Notify(n)
    PROVE  ProgressInv' /\ AllAdvance(payment.transactions, payment'.transactions)
<1>1. PICK p \in Notified(n) : payment' = [p EXCEPT !.version = @ + 1]
  BY DEF Notify
<1>2. DOMAIN p = DOMAIN payment /\ {"version", "transactions"} \subseteq DOMAIN payment
  BY NotifiedPayment DEF IInv, Shapes, FreshPayment
<1>3. /\ AllAdvance(payment.transactions, p.transactions)
      /\ IsDistinct(p.transactions)
      /\ \A t \in p.transactions : t.state = "Initial" => t.ref = 0
      /\ p.version = payment.version
  BY NotifiedAdvances
<1>4. /\ payment'.transactions = p.transactions
      /\ payment'.version = payment.version + 1
  BY <1>1, <1>2, <1>3
<1>5. updates' = updates
  BY DEF Notify
<1> QED
  BY <1>3, <1>4, <1>5, NewVersion

\* Every step keeps the invariant, and advances the transactions.
LEMMA NextProgress ==
    ASSUME IInv, ProgressInv, [Next]_vars
    PROVE  ProgressInv' /\ AllAdvance(payment.transactions, payment'.transactions)
<1>1. payment' = payment => AllAdvance(payment.transactions, payment'.transactions)
  BY AllAdvanceIsReflexive
<1>2. ASSUME NEW u \in Updates, NEW ch \in Changes, SendUpdate(u, ch)
      PROVE  ProgressInv' /\ payment' = payment
  <2>1. Open(u, ch, Changed(ch))
    BY <1>2 DEF SendUpdate
  <2> DEFINE p == Changed(ch)
  <2>2. /\ AllAdvance(payment.transactions, p.transactions)
        /\ IsDistinct(p.transactions)
        /\ \A t \in p.transactions : t.state = "Initial" => t.ref = 0
        /\ p.version = payment.version
    BY ChangedAdvances
  <2> HIDE DEF p
  <2>3. Open(u, ch, p)
    BY <2>1 DEF p
  <2> QED
    BY <2>2, <2>3, OpenProgress DEF Open
<1>3. ASSUME NEW u \in Updates, NEW n \in DOMAIN adyen, SendNotification(u, n)
      PROVE  ProgressInv' /\ payment' = payment
  <2>1. PICK p \in Notified(n) :
          Open(u, [NotSent.change EXCEPT !.kind = "notification"], p)
    BY <1>3 DEF SendNotification
  <2> DEFINE ch == [NotSent.change EXCEPT !.kind = "notification"]
  <2> HIDE DEF ch
  <2>2. Open(u, ch, p)
    BY <2>1 DEF ch
  <2> QED
    BY <2>2, NotifiedAdvances, OpenProgress DEF Open
<1>4. ASSUME NEW u \in Updates, NEW ch \in Changes, RefuseUpdate(u, ch)
      PROVE  ProgressInv' /\ payment' = payment
  BY <1>4, RefuseProgress DEF RefuseUpdate
<1>5. ASSUME NEW u \in Updates, NEW c \in DOMAIN updates[u].answers,
             Execute(u, c) \/ Replay(u, c) \/ FailCall(u, c)
      PROVE  ProgressInv' /\ payment' = payment
  BY <1>5, AnswerProgress DEF Execute, Replay, FailCall
<1>6. ASSUME NEW u \in Updates, RejectUpdate(u)
      PROVE  ProgressInv' /\ payment' = payment
  BY <1>6, RejectProgress DEF RejectUpdate
<1>7. CASE \E n \in DOMAIN adyen : Recover(n)
  BY <1>1, <1>7, NothingStored DEF Recover
<1>8. CASE UNCHANGED vars
  BY <1>1, <1>8, NothingStored DEF vars
<1> QED
  BY <1>1, <1>2, <1>3, <1>4, <1>5, <1>6, <1>7, <1>8, StoreProgress, NotifyProgress
     DEF Next

\* Nothing has been sent.
LEMMA InitProgress == Init => ProgressInv
<1> SUFFICES ASSUME Init PROVE ProgressInv
  OBVIOUS
<1>1. \A u \in Updates :
        updates[u].payment = FreshPayment /\ updates[u].phase = "new"
  BY DEF Init, NotSent
<1>2. payment = FreshPayment
  BY DEF Init
<1>3. FreshPayment.transactions = {} /\ FreshPayment.version = 1
  BY DEF FreshPayment
<1>4. AllTransactions = {}
  BY <1>1, <1>2, <1>3 DEF AllTransactions
<1> QED
  BY <1>1, <1>2, <1>3, <1>4 DEF ProgressInv, InitiallyWithoutReference,
     TransactionsAreDistinct, IsDistinct, CopiesAreEarlier

\* No step of anybody removes a transaction, changes its type or its reference, or
\* sets its state back, but for a failed authorisation that recovers: whatever
\* answers arrive late, in whichever order notifications come (a success may fail
\* after all), and whichever updates overlap or repeat a call (the version that
\* commercetools compares, createSetPendingAction, compareTransactionStates).
THEOREM TransactionsAdvance == Spec => TransactionsOnlyAdvance
<1>1. IInv /\ ProgressInv /\ [Next]_vars
        => ProgressInv' /\ AllAdvance(payment.transactions, payment'.transactions)
  BY NextProgress
<1>2. AllAdvance(payment.transactions, payment'.transactions)
        => [\A t \in payment.transactions : \E s \in payment'.transactions :
             /\ s.id = t.id
             /\ s.type = t.type
             /\ t.ref # 0 => s.ref = t.ref
             /\ MovesOn(t, s)]_vars
  BY DEF AllAdvance, AdvancesTo
<1> QED
  BY <1>1, <1>2, InitProgress, Invariant, PTL DEF Spec, TransactionsOnlyAdvance
=============================================================================
